-------------------------- MODULE SearchFormProofs ---------------------------
(***************************************************************************)
(* Safety of SearchForm, for any fields, links and schedule ranges.  The   *)
(* heart is RoundTrip: criteria the form accepts come back out of the link *)
(* they are written to, although form, link, parser and request each have  *)
(* defaults of their own.                                                  *)
(***************************************************************************)
EXTENDS SearchForm, TLAPS

IsCriteria(c) == DOMAIN c = Params /\ c = [p \in Params |-> c[p]]

\* Criteria complete and within the form's bounds.
Complete(c) ==
    /\ IsCriteria(c)
    /\ c["origin"] \in Codes
    /\ c["date"] \in Dates
    /\ c["connections"] \in {0, 1}
    /\ c["min_conn"] \in 20..360 /\ c["max_conn"] \in 20..360
    /\ c["max_conn"] > c["min_conn"]
    /\ c["depart_after"] \in Times \cup {NoValue}
    /\ c["max_duration"] \in 60..1440
    /\ c["max_price"] # NoValue => c["max_price"] \in Int /\ c["max_price"] >= 0
    /\ c["domestic"] \in BOOLEAN /\ c["international"] \in BOOLEAN
    /\ ~(c["domestic"] /\ c["international"])
    /\ c["sort"] \in SortModes

\* Fields and links as their inputs yield them (FormTypeOK), and functions.
FieldsTyped(f) ==
    /\ IsCriteria(f)
    /\ f["date"] \in Calendar \cup FieldValues("date")
    /\ \A p \in Params \ {"date"} : f[p] \in FieldValues(p)

LinkTyped(u) ==
    /\ DOMAIN u \subseteq Params
    /\ \A p \in DOMAIN u : u[p] \in LinkValues(p)

LEMMA ParamCases ==
    ASSUME NEW p \in Params
    PROVE  \/ p = "origin" \/ p = "date" \/ p = "connections" \/ p = "min_conn"
           \/ p = "max_conn" \/ p = "depart_after" \/ p = "max_duration"
           \/ p = "max_price" \/ p = "domestic" \/ p = "international" \/ p = "sort"
  BY DEF Params

\* What a complete criterion's value is told apart by.
LEMMA Values ==
    ASSUME NEW c, Complete(c)
    PROVE  /\ \A p \in Params \ {"depart_after", "max_price"} : c[p] # NoValue
           /\ c["depart_after"] = NoValue \/ c["depart_after"] \in Times
<1>1. \A n \in Int : n # NoValue
  BY FormAssumption
<1>2. \A b \in BOOLEAN : b # NoValue
  BY FormAssumption
<1>3. \A t \in Codes \cup SortModes : t # NoValue
  BY FormAssumption
<1>4. c["date"] \in Int
  <2>1. c["date"] \in Dates
    BY DEF Complete
  <2>2. Dates \subseteq Int
    BY FormAssumption
  <2> QED
    BY <2>1, <2>2
<1> QED
  BY <1>1, <1>2, <1>3, <1>4, ParamCases DEF Complete, IsCriteria, Params

\* The bounds of complete criteria, with the numbers and the flags apart.
LEMMA Bounds ==
    ASSUME NEW c, Complete(c)
    PROVE  /\ c["connections"] \in 0..1
           /\ c["min_conn"] \in 20..360 /\ c["max_conn"] \in 20..360
           /\ c["max_conn"] >= c["min_conn"]
           /\ c["max_duration"] \in 60..1440
           /\ c["max_price"] # NoValue => c["max_price"] >= 0
<1>1. /\ c["min_conn"] \in 20..360 /\ c["max_conn"] \in 20..360
      /\ c["max_conn"] > c["min_conn"]
  BY DEF Complete
<1>2. c["connections"] \in {0, 1} /\ c["max_duration"] \in 60..1440
  BY DEF Complete
<1>3. c["max_price"] # NoValue => c["max_price"] >= 0
  BY DEF Complete
<1>4. c["max_conn"] >= c["min_conn"]
  <2>1. \A m, n \in Int : m > n => m >= n
    OBVIOUS
  <2>2. c["min_conn"] \in Int /\ c["max_conn"] \in Int
    BY <1>1
  <2> QED
    BY <1>1, <2>1, <2>2
<1>5. c["connections"] \in 0..1
  BY <1>2
<1> QED
  BY <1>1, <1>2, <1>3, <1>4, <1>5

LEMMA Flags ==
    ASSUME NEW c, Complete(c)
    PROVE  ~(c["domestic"] /\ c["international"])
  BY DEF Complete

\* What the link leaves out, parameter by parameter.
LEMMA Omissions ==
    /\ Omitted["origin"] = NoValue /\ Omitted["date"] = NoValue
    /\ Omitted["depart_after"] = NoValue /\ Omitted["max_price"] = NoValue
    /\ Omitted["connections"] = 0
    /\ Omitted["min_conn"] = 45 /\ Omitted["max_conn"] = 240
    /\ Omitted["max_duration"] = 720
    /\ Omitted["domestic"] = FALSE /\ Omitted["international"] = FALSE
    /\ Omitted["sort"] = "PRICE"
  BY DEF Omitted, Params

\* The form starts from what the link leaves out, which its fields can hold.
LEMMA DefaultsTyped ==
    ASSUME NEW p \in Params
    PROVE  Omitted[p] \in FieldValues(p) /\ FieldDefaults[p] = Omitted[p]
<1>1. FieldDefaults[p] = Omitted[p]
  BY DEF FieldDefaults, Omitted
<1>2. CASE p \in {"domestic", "international"}
  <2>1. FieldValues(p) = BOOLEAN
    BY <1>2 DEF FieldValues, LinkValues
  <2>2. Omitted[p] = FALSE
    BY <1>2 DEF Omitted, Params
  <2>3. Omitted[p] \in FieldValues(p)
    BY <2>1, <2>2
  <2> QED
    BY <1>1, <2>3
<1>3. CASE p \in {"origin", "date", "depart_after", "max_price"}
  BY <1>1, <1>3, Omissions DEF FieldValues
<1>4. CASE p \in {"connections", "min_conn", "max_conn", "max_duration", "sort"}
  <2>1. /\ FieldValues("connections") = {0, 1}
        /\ FieldValues("min_conn") = MinConns /\ FieldValues("max_conn") = MaxConns
        /\ FieldValues("max_duration") = Durations
        /\ FieldValues("sort") = SortModes
    BY DEF FieldValues, LinkValues
  <2>2. Omitted[p] \in FieldValues(p)
    BY <1>4, <2>1, Omissions, FormAssumption
  <2> QED
    BY <1>1, <2>2
<1> QED
  BY <1>2, <1>3, <1>4, ParamCases

\* Reading a parameter of the link back, present or left out.
LEMMA Written ==
    ASSUME NEW c, Complete(c), NEW p \in Params
    PROVE  /\ p \in DOMAIN Serialize(c) <=> c[p] # NoValue /\ c[p] # Omitted[p]
           /\ p \in DOMAIN Serialize(c) => Serialize(c)[p] = c[p]
           /\ Given(Serialize(c), p, Omitted[p]) = c[p]
<1>1. c[p] = NoValue => Omitted[p] = NoValue
  BY Values, ParamCases, Omissions DEF Params
<1>2. /\ DOMAIN Serialize(c) = {q \in Params : c[q] \notin {NoValue, Omitted[q]}}
      /\ p \in DOMAIN Serialize(c) => Serialize(c)[p] = c[p]
  BY DEF Serialize
<1> QED
  BY <1>1, <1>2 DEF Given

\* Complete criteria with a date of the calendar make a valid link.
LEMMA LinkIsValid ==
    ASSUME NEW c, Complete(c), c["date"] \in Calendar
    PROVE  Valid(Serialize(c))
<1> DEFINE u == Serialize(c)
<1>1. {"origin", "date"} \subseteq DOMAIN u
  <2>1. c["origin"] # NoValue /\ c["date"] # NoValue
    BY Values DEF Params
  <2>2. "origin" \in Params /\ "date" \in Params
    BY DEF Params
  <2> QED
    BY <2>1, <2>2, Written, Omissions
<1>2. ASSUME NEW p \in DOMAIN u PROVE Readable(p, u[p])
  <2>1. p \in Params
    BY DEF Serialize
  <2>2. u[p] = c[p] /\ c[p] # NoValue /\ c[p] # Omitted[p]
    BY <2>1, Written
  <2>3. p \in {"domestic", "international"} => c[p]
    <3>1. c["domestic"] # FALSE => c["domestic"]
      BY DEF Complete
    <3>2. c["international"] # FALSE => c["international"]
      BY DEF Complete
    <3>3. CASE p = "domestic"
      <4>1. Omitted["domestic"] = FALSE
        BY Omissions
      <4> QED
        BY <2>2, <3>1, <3>3, <4>1, Zenon
    <3>4. CASE p = "international"
      <4>1. Omitted["international"] = FALSE
        BY Omissions
      <4> QED
        BY <2>2, <3>2, <3>4, <4>1, Zenon
    <3> QED
      BY <3>3, <3>4
  <2> HIDE DEF u
  <2>4. Readable(p, c[p])
    BY <2>1, <2>2, <2>3, ParamCases DEF Readable, Complete
  <2> QED
    BY <2>2, <2>4
<1>3. /\ Given(u, "domestic", FALSE) = c["domestic"]
      /\ Given(u, "international", FALSE) = c["international"]
      /\ Given(u, "max_conn", 240) = c["max_conn"]
      /\ Given(u, "min_conn", 45) = c["min_conn"]
  <2>1. /\ "domestic" \in Params /\ "international" \in Params
        /\ "max_conn" \in Params /\ "min_conn" \in Params
    BY DEF Params
  <2>2. \A p \in Params : Given(u, p, Omitted[p]) = c[p]
    BY Written
  <2> HIDE DEF u
  <2>3. /\ Given(u, "domestic", Omitted["domestic"]) = c["domestic"]
        /\ Given(u, "international", Omitted["international"]) = c["international"]
        /\ Given(u, "max_conn", Omitted["max_conn"]) = c["max_conn"]
        /\ Given(u, "min_conn", Omitted["min_conn"]) = c["min_conn"]
    BY <2>1, <2>2
  <2>3a. Omitted["domestic"] = FALSE /\ Omitted["international"] = FALSE
    BY Omissions
  <2>3b. Omitted["max_conn"] = 240 /\ Omitted["min_conn"] = 45
    BY Omissions
  <2>4. Given(u, "domestic", FALSE) = c["domestic"]
    BY <2>3, <2>3a, Zenon
  <2>5. Given(u, "international", FALSE) = c["international"]
    BY <2>3, <2>3a, Zenon
  <2>6. Given(u, "max_conn", 240) = c["max_conn"]
    BY <2>3, <2>3b, Zenon
  <2>7. Given(u, "min_conn", 45) = c["min_conn"]
    BY <2>3, <2>3b, Zenon
  <2> QED
    BY <2>4, <2>5, <2>6, <2>7
<1> HIDE DEF u
<1>4. ~(Given(u, "domestic", FALSE) /\ Given(u, "international", FALSE))
  BY <1>3 DEF Complete
<1>5. Given(u, "max_conn", 240) > Given(u, "min_conn", 45)
  BY <1>3 DEF Complete
<1>6. Valid(u)
  BY <1>1, <1>2, <1>4, <1>5 DEF Valid
<1> QED
  BY <1>6 DEF u

\* What the parser and the request make of a parameter.
LEMMA Parsed ==
    ASSUME NEW u
    PROVE  /\ \A p \in {"origin", "date", "min_conn", "max_conn", "depart_after",
                        "max_duration", "max_price"} :
                  Parse(u)[p] = Given(u, p, NoValue)
           /\ \A p \in {"connections", "domestic", "international", "sort"} :
                  Parse(u)[p] = Given(u, p, Omitted[p])
  BY DEF Parse, Omitted, Params

LEMMA Requested ==
    ASSUME NEW r
    PROVE  /\ DOMAIN ToRequest(r) = Params
           /\ ToRequest(r) = [p \in Params |-> ToRequest(r)[p]]
           /\ \A p \in {"origin", "date", "connections", "depart_after",
                        "max_price", "sort"} : ToRequest(r)[p] = r[p]
           /\ \A p \in {"min_conn", "max_conn", "max_duration", "domestic",
                        "international"} : ToRequest(r)[p] = Or(r[p], Omitted[p])
  BY DEF ToRequest, Omitted, Params

\* Complete criteria come back out of their link, to be posted and to fill
\* the form.
LEMMA RoundTrip ==
    ASSUME NEW c, Complete(c)
    PROVE  /\ ToRequest(Parse(Serialize(c))) = c
           /\ \A p \in Params : Or(Parse(Serialize(c))[p], FieldDefaults[p]) = c[p]
<1> DEFINE u == Serialize(c)
           r == Parse(u)
<1>1. ASSUME NEW p \in Params
      PROVE  ToRequest(r)[p] = c[p] /\ Or(r[p], FieldDefaults[p]) = c[p]
  <2>1. /\ p \in DOMAIN u <=> c[p] # NoValue /\ c[p] # Omitted[p]
        /\ p \in DOMAIN u => u[p] = c[p]
    BY Written
  <2>2. \A d : Given(u, p, d) = IF p \in DOMAIN u THEN c[p] ELSE d
    BY <2>1 DEF Given
  <2>3. FieldDefaults[p] = Omitted[p]
    BY DEF FieldDefaults, Omitted
  <2>4. c[p] = NoValue => Omitted[p] = NoValue
    BY Values, ParamCases, Omissions DEF Params
  <2> HIDE DEF u, r
  <2>5. \/ \A d : Given(u, p, d) = c[p]
        \/ c[p] = Omitted[p] /\ \A d : Given(u, p, d) = d
    BY <2>1, <2>2, <2>4, Zenon
  <2>6. CASE p \in {"min_conn", "max_conn", "max_duration"}
    <3>1. r[p] = Given(u, p, NoValue)
      BY <2>6, Parsed DEF r
    <3>2. ToRequest(r)[p] = Or(r[p], Omitted[p])
      BY <2>6, Requested
    <3>3. r[p] = c[p] \/ (r[p] = NoValue /\ c[p] = Omitted[p])
      <4>1. CASE \A d : Given(u, p, d) = c[p]
        <5>1. Given(u, p, NoValue) = c[p]
          BY <4>1
        <5> QED
          BY <3>1, <5>1, Zenon
      <4>2. CASE c[p] = Omitted[p] /\ \A d : Given(u, p, d) = d
        <5>1. Given(u, p, NoValue) = NoValue
          BY <4>2
        <5> QED
          BY <3>1, <4>2, <5>1, Zenon
      <4> QED
        BY <2>5, <4>1, <4>2, Zenon
    <3>4. Or(r[p], Omitted[p]) = c[p]
      BY <3>3, <2>4, Zenon DEF Or
    <3> QED
      BY <2>3, <3>2, <3>4, Zenon
  <2>7. CASE p \in {"origin", "date", "depart_after", "max_price"}
    <3>1. r[p] = Given(u, p, NoValue) /\ Omitted[p] = NoValue
      BY <2>7, Parsed, Omissions DEF r
    <3>2. ToRequest(r)[p] = r[p]
      BY <2>7, Requested
    <3>3. r[p] = c[p]
      BY <3>1, <2>5, Zenon
    <3>4. Or(r[p], Omitted[p]) = c[p]
      BY <3>3, <2>4, Zenon DEF Or
    <3> QED
      BY <2>3, <3>2, <3>3, <3>4, Zenon
  <2>8. CASE p \in {"connections", "sort"}
    <3>1. r[p] = Given(u, p, Omitted[p])
      BY <2>8, Parsed, Omissions DEF r
    <3>2. ToRequest(r)[p] = r[p]
      BY <2>8, Requested
    <3>3. r[p] = c[p]
      BY <3>1, <2>5, Zenon
    <3>4. Or(r[p], Omitted[p]) = c[p]
      BY <3>3, <2>4, Zenon DEF Or
    <3> QED
      BY <2>3, <3>2, <3>3, <3>4, Zenon
  <2>9. CASE p \in {"domestic", "international"}
    <3>1. r[p] = Given(u, p, Omitted[p])
      BY <2>9, Parsed, Omissions DEF r
    <3>2. ToRequest(r)[p] = Or(r[p], Omitted[p])
      BY <2>9, Requested
    <3>3. r[p] = c[p]
      BY <3>1, <2>5, Zenon
    <3>4. Or(r[p], Omitted[p]) = c[p]
      BY <3>3, <2>4, Zenon DEF Or
    <3> QED
      BY <2>3, <3>2, <3>4, Zenon
  <2> QED
    BY <2>6, <2>7, <2>8, <2>9, ParamCases
<1>2. DOMAIN ToRequest(r) = Params /\ ToRequest(r) = [p \in Params |-> ToRequest(r)[p]]
  BY Requested
<1>3. c = [p \in Params |-> c[p]]
  BY DEF Complete, IsCriteria
<1>4. ToRequest(r) = c
  <2> HIDE DEF r
  <2> QED
    BY <1>1, <1>2, <1>3
<1> QED
  BY <1>1, <1>4

\* A request and the criteria it was made of write the same link.
LEMMA SameLink ==
    ASSUME NEW r
    PROVE  Serialize(ToRequest(r)) = Serialize(r)
<1> DEFINE a == ToRequest(r)
<1>1. ASSUME NEW p \in Params
      PROVE  a[p] = r[p] \/ (r[p] = NoValue /\ a[p] = Omitted[p])
  <2>1. a[p] = r[p] \/ a[p] = Or(r[p], Omitted[p])
    BY Requested, ParamCases
  <2> HIDE DEF a
  <2> QED
    BY <2>1, Zenon DEF Or
<1> HIDE DEF a
<1>2. ASSUME NEW p \in Params
      PROVE  /\ a[p] \in {NoValue, Omitted[p]} <=> r[p] \in {NoValue, Omitted[p]}
             /\ r[p] \notin {NoValue, Omitted[p]} => a[p] = r[p]
  BY <1>1, Zenon
<1>3. {q \in Params : a[q] \notin {NoValue, Omitted[q]}}
          = {q \in Params : r[q] \notin {NoValue, Omitted[q]}}
  <2>1. \A q \in Params : a[q] \in {NoValue, Omitted[q]} <=> r[q] \in {NoValue, Omitted[q]}
    BY <1>2
  <2> QED
    BY <2>1
<1>4. Serialize(a) = Serialize(r)
  <2> DEFINE D == {q \in Params : r[q] \notin {NoValue, Omitted[q]}}
  <2>1. \A p \in D : a[p] = r[p]
    BY <1>2
  <2>2. Serialize(r) = [p \in D |-> r[p]] /\ Serialize(a) = [p \in D |-> a[p]]
    BY <1>3 DEF Serialize
  <2> HIDE DEF D
  <2> QED
    BY <2>1, <2>2
<1> QED
  BY <1>4 DEF a

\* What a valid link asks for: complete criteria with a date of the calendar.
LEMMA ValidAsk ==
    ASSUME NEW u, LinkTyped(u), Valid(u)
    PROVE  /\ Complete(ToRequest(Parse(u)))
           /\ FieldsTyped(ToRequest(Parse(u)))
           /\ ToRequest(Parse(u))["date"] = u["date"] /\ u["date"] \in Calendar
<1> DEFINE a == ToRequest(Parse(u))
<1>1. \A p \in DOMAIN u : p \in Params /\ Readable(p, u[p]) /\ u[p] \in LinkValues(p)
  BY DEF Valid, LinkTyped
<1>2. ASSUME NEW p \in DOMAIN u
      PROVE  u[p] # NoValue
  <2>1. p \in Params /\ u[p] \in LinkValues(p)
    BY <1>1
  <2>2. NoValue \notin LinkValues(p)
    BY <2>1, ParamCases, FormAssumption DEF LinkValues
  <2> QED
    BY <2>1, <2>2
<1>3. ASSUME NEW p \in Params
      PROVE  a[p] = Given(u, p, Omitted[p])
  <2> DEFINE r == Parse(u)
  <2>1. \/ r[p] = Given(u, p, Omitted[p])
        \/ /\ r[p] = Given(u, p, NoValue)
           /\ a[p] = Or(r[p], Omitted[p]) \/ Omitted[p] = NoValue
    <3>1. CASE p \in {"origin", "date", "depart_after", "max_price"}
      BY <3>1, Parsed, Omissions
    <3>2. CASE p \in {"min_conn", "max_conn", "max_duration"}
      BY <3>2, Parsed, Requested
    <3>3. CASE p \in {"connections", "domestic", "international", "sort"}
      BY <3>3, Parsed
    <3> QED
      BY <3>1, <3>2, <3>3, ParamCases
  <2>2. a[p] = r[p] \/ a[p] = Or(r[p], Omitted[p])
    BY Requested, ParamCases
  <2>3. CASE p \in DOMAIN u
    BY <2>1, <2>2, <2>3, <1>2, Zenon DEF Given, Or
  <2>4. CASE p \notin DOMAIN u
    BY <2>1, <2>2, <2>4, Zenon DEF Given, Or
  <2> QED
    BY <2>3, <2>4
<1>4. DOMAIN a = Params /\ a = [p \in Params |-> a[p]]
  BY Requested
<1> HIDE DEF a
<1>5. {"origin", "date"} \subseteq DOMAIN u
  BY DEF Valid
<1>6. a["date"] = u["date"] /\ u["date"] \in Calendar
  BY <1>1, <1>3, <1>5 DEF Given, Readable, Params
<1>7. a["origin"] \in Codes
  BY <1>1, <1>3, <1>5 DEF Given, Readable, Params
<1>8. ASSUME NEW p \in Params \ {"origin", "date"}
      PROVE  /\ a[p] \in FieldValues(p)
             /\ p \in {"min_conn", "max_conn"} => a[p] \in 20..360
             /\ p = "max_duration" => a[p] \in 60..1440
             /\ p = "max_price" => (a[p] # NoValue => a[p] \in Int /\ a[p] >= 0)
  <2>1. CASE p \in DOMAIN u
    <3>1. a[p] = u[p] /\ Readable(p, u[p]) /\ u[p] \in LinkValues(p)
      BY <2>1, <1>1, <1>3 DEF Given
    <3> QED
      BY <3>1, ParamCases, FormAssumption DEF Readable, LinkValues, FieldValues
  <2>2. CASE p \notin DOMAIN u
    <3>1. a[p] = Omitted[p]
      BY <2>2, <1>3 DEF Given
    <3>2. a[p] \in FieldValues(p)
      BY <3>1, DefaultsTyped
    <3>3. /\ p = "max_price" => a[p] = NoValue
          /\ p = "min_conn" => a[p] = 45
          /\ p = "max_conn" => a[p] = 240
          /\ p = "max_duration" => a[p] = 720
      BY <3>1, Omissions
    <3> QED
      BY <3>2, <3>3
  <2> QED
    BY <2>1, <2>2
<1>9. a["max_conn"] > a["min_conn"]
  <2>1. a["max_conn"] = Given(u, "max_conn", 240) /\ a["min_conn"] = Given(u, "min_conn", 45)
    BY <1>3, Omissions DEF Params
  <2> QED
    BY <2>1 DEF Valid
<1>9b. ~(a["domestic"] /\ a["international"])
  <2>1. a["domestic"] = Given(u, "domestic", FALSE)
    <3>1. a["domestic"] = Given(u, "domestic", Omitted["domestic"])
      BY <1>3 DEF Params
    <3>2. Omitted["domestic"] = FALSE
      BY Omissions
    <3> QED
      BY <3>1, <3>2, Zenon
  <2>2. a["international"] = Given(u, "international", FALSE)
    <3>1. a["international"] = Given(u, "international", Omitted["international"])
      BY <1>3 DEF Params
    <3>2. Omitted["international"] = FALSE
      BY Omissions
    <3> QED
      BY <3>1, <3>2, Zenon
  <2>3. ~(Given(u, "domestic", FALSE) /\ Given(u, "international", FALSE))
    BY DEF Valid
  <2> QED
    BY <2>1, <2>2, <2>3, Zenon
<1>10. FieldsTyped(a)
  BY <1>4, <1>6, <1>7, <1>8 DEF FieldsTyped, IsCriteria, FieldValues, Params
<1>11. Complete(a)
  <2>1. a["date"] \in Dates
    BY <1>6, FormAssumption
  <2>2. a["domestic"] \in BOOLEAN /\ a["international"] \in BOOLEAN
    BY <1>8 DEF FieldValues, LinkValues, Params
  <2>3. /\ a["connections"] \in {0, 1} /\ a["depart_after"] \in Times \cup {NoValue}
        /\ a["sort"] \in SortModes
    BY <1>8 DEF FieldValues, Params
  <2>4. /\ a["min_conn"] \in 20..360 /\ a["max_conn"] \in 20..360
        /\ a["max_duration"] \in 60..1440
        /\ a["max_price"] # NoValue => a["max_price"] \in Int /\ a["max_price"] >= 0
    BY <1>8 DEF Params
  <2>5. IsCriteria(a)
    BY <1>4 DEF IsCriteria
  <2> QED
    BY <1>7, <1>9, <1>9b, <2>1, <2>2, <2>3, <2>4, <2>5, ZenonT(60) DEF Complete
<1> QED
  BY <1>6, <1>10, <1>11 DEF a

\* Typed fields, one by one.
LEMMA Fields ==
    ASSUME NEW f, FieldsTyped(f)
    PROVE  /\ f["origin"] \in Codes \cup {NoValue}
           /\ f["date"] \in Dates \cup {NoValue}
           /\ f["connections"] \in {0, 1}
           /\ f["min_conn"] \in Int /\ f["max_conn"] \in Int
           /\ f["depart_after"] \in Times \cup {NoValue}
           /\ f["max_duration"] \in Int
           /\ f["max_price"] \in Int \cup {NoValue}
           /\ f["domestic"] \in BOOLEAN /\ f["international"] \in BOOLEAN
           /\ f["sort"] \in SortModes
  BY FormAssumption DEF FieldsTyped, FieldValues, LinkValues, Params

\* Typed fields make a typed link.
LEMMA LinkOfFields ==
    ASSUME NEW f, FieldsTyped(f)
    PROVE  LinkTyped(Serialize(f))
<1>1. ASSUME NEW p \in Params, f[p] # NoValue
      PROVE  f[p] \in LinkValues(p)
  <2>1. CASE p = "date"
    BY <1>1, <2>1, Fields DEF LinkValues
  <2>2. CASE p # "date"
    <3>1. f[p] \in FieldValues(p)
      BY <2>2 DEF FieldsTyped
    <3> QED
      BY <1>1, <2>2, <3>1, ParamCases, FormAssumption DEF FieldValues, LinkValues
  <2> QED
    BY <2>1, <2>2
<1>2. /\ DOMAIN Serialize(f) = {q \in Params : f[q] \notin {NoValue, Omitted[q]}}
      /\ \A p \in DOMAIN Serialize(f) : Serialize(f)[p] = f[p]
  BY DEF Serialize
<1> QED
  BY <1>1, <1>2 DEF LinkTyped

\* The empty form, and its link.
LEMMA Empty ==
    FieldsTyped(FieldDefaults) /\ LinkTyped(Serialize(FieldDefaults))
<1>1. FieldsTyped(FieldDefaults)
  <2>1. DOMAIN FieldDefaults = Params
        /\ FieldDefaults = [p \in Params |-> FieldDefaults[p]]
    BY DEF FieldDefaults
  <2>2. FieldDefaults["date"] \in FieldValues("date")
    BY DEF FieldDefaults, FieldValues, Params
  <2>3. ASSUME NEW p \in Params \ {"date"}
        PROVE  FieldDefaults[p] \in FieldValues(p)
    <3>1. Omitted[p] \in FieldValues(p) /\ FieldDefaults[p] = Omitted[p]
      BY DefaultsTyped
    <3> QED
      BY <3>1, Zenon
  <2> QED
    BY <2>1, <2>2, <2>3 DEF FieldsTyped, IsCriteria
<1> QED
  BY <1>1, LinkOfFields

\* What passes the checks of submit is complete.
LEMMA SubmittedIsComplete ==
    ASSUME FieldsTyped(form), Submittable(form)
    PROVE  Complete(form)
  BY Fields DEF Complete, Submittable, FieldsTyped

\* Complete criteria pass the checks of submit, those of the range aside.
LEMMA CompleteIsSubmittable ==
    ASSUME NEW c, Complete(c), range # NoValue => c["date"] \in range.first..range.last
    PROVE  Submittable(c)
  BY Values DEF Complete, Submittable, Params

\* Another sort for complete criteria, before or after they become a request.
LEMMA Resorted ==
    ASSUME NEW c, Complete(c), FieldsTyped(c), NEW s \in SortModes
    PROVE  Complete([c EXCEPT !["sort"] = s]) /\ FieldsTyped([c EXCEPT !["sort"] = s])
<1> DEFINE d == [c EXCEPT !["sort"] = s]
<1>1. IsCriteria(d)
  BY DEF Complete, IsCriteria
<1>2. d["sort"] = s /\ \A p \in Params \ {"sort"} : d[p] = c[p]
  BY DEF Complete, IsCriteria, Params
<1> HIDE DEF d
<1>3. Complete(d)
  <2>1. /\ d["origin"] = c["origin"] /\ d["date"] = c["date"]
        /\ d["connections"] = c["connections"] /\ d["depart_after"] = c["depart_after"]
        /\ d["min_conn"] = c["min_conn"] /\ d["max_conn"] = c["max_conn"]
        /\ d["max_duration"] = c["max_duration"] /\ d["max_price"] = c["max_price"]
        /\ d["domestic"] = c["domestic"] /\ d["international"] = c["international"]
    BY <1>2 DEF Params
  <2>2. /\ d["origin"] \in Codes /\ d["date"] \in Dates
        /\ d["connections"] \in {0, 1} /\ d["depart_after"] \in Times \cup {NoValue}
        /\ d["min_conn"] \in 20..360 /\ d["max_conn"] \in 20..360
        /\ d["max_conn"] > d["min_conn"] /\ d["max_duration"] \in 60..1440
        /\ d["max_price"] # NoValue => d["max_price"] \in Int /\ d["max_price"] >= 0
        /\ d["sort"] \in SortModes
    BY <1>2, <2>1 DEF Complete
  <2>3. /\ d["domestic"] \in BOOLEAN /\ d["international"] \in BOOLEAN
        /\ ~(d["domestic"] /\ d["international"])
    <3>1. /\ c["domestic"] \in BOOLEAN /\ c["international"] \in BOOLEAN
          /\ ~(c["domestic"] /\ c["international"])
      BY DEF Complete
    <3>2. d["domestic"] = c["domestic"]
      BY <2>1
    <3>3. d["international"] = c["international"]
      BY <2>1
    <3> QED
      BY <3>1, <3>2, <3>3, Zenon
  <2> QED
    BY <1>1, <2>2, <2>3, ZenonT(60) DEF Complete
<1>4. FieldsTyped(d)
  <2>1. d["date"] = c["date"]
    BY <1>2 DEF Params
  <2>2. ASSUME NEW p \in Params \ {"date"}
        PROVE  d[p] \in FieldValues(p)
    <3>1. CASE p = "sort"
      BY <1>2, <3>1 DEF FieldValues
    <3>2. CASE p # "sort"
      BY <1>2, <3>2 DEF FieldsTyped
    <3> QED
      BY <3>1, <3>2
  <2> QED
    BY <1>1, <2>1, <2>2 DEF FieldsTyped
<1> QED
  BY <1>3, <1>4 DEF d

LEMMA ResortedRequest ==
    ASSUME NEW u, NEW s
    PROVE  ToRequest([Parse(u) EXCEPT !["sort"] = s])
               = [ToRequest(Parse(u)) EXCEPT !["sort"] = s]
<1> DEFINE r == Parse(u)
           q == [r EXCEPT !["sort"] = s]
<1>1. DOMAIN r = Params
  BY DEF Parse
<1> HIDE DEF r
<1>2. q["sort"] = s /\ \A p \in Params \ {"sort"} : q[p] = r[p]
  BY <1>1 DEF Params
<1> HIDE DEF q
<1>3. ToRequest(q) = [p \in Params |-> IF p = "sort" THEN s ELSE ToRequest(r)[p]]
  <2>1. ASSUME NEW p \in Params \ {"sort"}
        PROVE  ToRequest(q)[p] = ToRequest(r)[p]
    <3>1. q[p] = r[p]
      BY <1>2
    <3>2. CASE p \in {"origin", "date", "connections", "depart_after", "max_price"}
      BY <3>1, <3>2, Requested
    <3>3. CASE p \in {"min_conn", "max_conn", "max_duration", "domestic", "international"}
      <4>1. /\ ToRequest(q)[p] = Or(q[p], Omitted[p])
            /\ ToRequest(r)[p] = Or(r[p], Omitted[p])
        BY <3>3, Requested
      <4> QED
        BY <3>1, <4>1, Zenon
    <3> QED
      BY <3>2, <3>3, ParamCases
  <2>2. ToRequest(q)["sort"] = s
    BY <1>2, Requested
  <2>3. ToRequest(q) = [p \in Params |-> ToRequest(q)[p]]
    BY Requested
  <2> QED
    BY <2>1, <2>2, <2>3
<1>4. ToRequest(q) = [ToRequest(r) EXCEPT !["sort"] = s]
  BY <1>3, Requested
<1> QED
  BY <1>4 DEF q, r

-----------------------------------------------------------------------------
\* The inductive invariant: a search that is known is complete, and either in
\* the fields of the form or in the link as submitted.
FormInv ==
    /\ page \in {"form", "results"}
    /\ FieldsTyped(form)
    /\ LinkTyped(link)
    /\ range \in Ranges \cup {NoValue}
    /\ edits \in 0..MaxEdits
    /\ asked # NoSearch =>
           /\ Complete(asked) /\ FieldsTyped(asked)
           /\ page = "form" => form = asked
           /\ page = "results" => link = Serialize(asked)

\* What the user sees on the results page is what the page posts.
LEMMA Seen ==
    ASSUME FormInv, page = "results"
    PROVE  Visible = ToRequest(Parse(link))
<1>1. CASE asked = NoSearch
  BY <1>1 DEF Visible
<1>2. CASE asked # NoSearch
  <2>1. Complete(asked) /\ link = Serialize(asked)
    BY <1>2 DEF FormInv
  <2>2. ToRequest(Parse(Serialize(asked))) = asked
    BY <2>1, RoundTrip
  <2> QED
    BY <1>2, <2>1, <2>2 DEF Visible
<1> QED
  BY <1>1, <1>2

LEMMA FormInitInv == FormInit => FormInv
  BY Empty, FormAssumption DEF FormInit, FormInv

LEMMA EditInv ==
    ASSUME FormInv, NEW p \in Params, NEW v \in FieldValues(p), Edit(p, v)
    PROVE  FormInv'
<1>1. FieldsTyped(form')
  <2>1. DOMAIN form' = Params /\ form' = [q \in Params |-> form'[q]]
    BY DEF FormInv, Edit, FieldsTyped, IsCriteria
  <2>2. form'["date"] \in Calendar \cup FieldValues("date")
    BY DEF FormInv, Edit, FieldsTyped, IsCriteria, Params
  <2>3. \A q \in Params \ {"date"} : form'[q] \in FieldValues(q)
    BY DEF FormInv, Edit, FieldsTyped, IsCriteria
  <2> QED
    BY <2>1, <2>2, <2>3 DEF FieldsTyped, IsCriteria
<1> QED
  BY <1>1 DEF FormInv, Edit

LEMMA SubmitInv ==
    ASSUME FormInv, Submit
    PROVE  FormInv'
<1>1. FieldsTyped(form) /\ Complete(form)
  BY SubmittedIsComplete DEF FormInv, Submit
<1>2. LinkTyped(Serialize(form))
  BY <1>1, LinkOfFields
<1> QED
  BY <1>1, <1>2, Empty, FormAssumption DEF FormInv, Submit

LEMMA ChangeSortInv ==
    ASSUME FormInv, NEW s \in SortModes, ChangeSort(s)
    PROVE  FormInv'
<1> DEFINE a == ToRequest(Parse(link))
           b == [a EXCEPT !["sort"] = s]
<1>1. page = "results" /\ Valid(link) /\ LinkTyped(link)
  BY DEF FormInv, ChangeSort
<1>2. Complete(a) /\ FieldsTyped(a)
  BY <1>1, ValidAsk
<1>3. asked' = b
  BY <1>1, Seen DEF ChangeSort
<1>4. link' = Serialize(b)
  BY SameLink, ResortedRequest DEF ChangeSort
<1> HIDE DEF a
<1>5. Complete(b) /\ FieldsTyped(b)
  BY <1>2, Resorted
<1> HIDE DEF b
<1>6. LinkTyped(link')
  BY <1>4, <1>5, LinkOfFields
<1> QED
  BY <1>1, <1>3, <1>4, <1>5, <1>6 DEF FormInv, ChangeSort

LEMMA ModifyInv ==
    ASSUME FormInv, Modify
    PROVE  FormInv'
<1> DEFINE a == ToRequest(Parse(link))
<1>1. CASE ~Valid(link)
  BY <1>1, Empty, FormAssumption DEF FormInv, Modify
<1>2. CASE Valid(link)
  <2>1. Complete(a) /\ FieldsTyped(a) /\ a["date"] \in Calendar
    BY <1>2, ValidAsk DEF FormInv
  <2>2. asked' = a
    BY <1>2, Seen DEF FormInv, Modify
  <2>3. form' = FormOf(Serialize(a))
    BY <1>2, SameLink DEF Modify
  <2>4. page' = "form" /\ link' = Serialize(FieldDefaults) /\ edits' = 0 /\ range' = range
    BY DEF Modify
  <2> HIDE DEF a
  <2>5. Valid(Serialize(a)) /\ a = [p \in Params |-> a[p]]
    BY <2>1, LinkIsValid DEF Complete, IsCriteria
  <2>6. FormOf(Serialize(a)) = a
    BY <2>1, <2>5, RoundTrip DEF FormOf
  <2> QED
    BY <2>1, <2>2, <2>3, <2>4, <2>6, Empty, FormAssumption DEF FormInv
<1> QED
  BY <1>1, <1>2

LEMMA OpenLinkInv ==
    ASSUME FormInv, NEW p \in Params, OpenLink(p)
    PROVE  FormInv'
<1>1. LinkTyped(link')
  <2>1. CASE \E v \in LinkValues(p) :
                 link' = [q \in DOMAIN link \cup {p} |-> IF q = p THEN v ELSE link[q]]
    BY <2>1 DEF FormInv, LinkTyped
  <2>2. CASE link' = [q \in DOMAIN link \ {p} |-> link[q]]
    BY <2>2 DEF FormInv, LinkTyped
  <2> QED
    BY <2>1, <2>2 DEF OpenLink
<1> QED
  BY <1>1, FormAssumption DEF FormInv, OpenLink

LEMMA FormNextInv == FormInv /\ [FormNext]_formVars => FormInv'
<1> SUFFICES ASSUME FormInv, [FormNext]_formVars
             PROVE  FormInv'
  OBVIOUS
<1>1. ASSUME NEW p \in Params, NEW v \in FieldValues(p), Edit(p, v)
      PROVE  FormInv'
  BY <1>1, EditInv
<1>2. ASSUME NEW p \in Params, OpenLink(p)
      PROVE  FormInv'
  BY <1>2, OpenLinkInv
<1>3. ASSUME NEW r \in Ranges, StatusLoads(r)
      PROVE  FormInv'
  BY <1>3 DEF FormInv, StatusLoads
<1>4. CASE Submit
  BY <1>4, SubmitInv
<1>5. CASE Modify
  BY <1>5, ModifyInv
<1>6. ASSUME NEW s \in SortModes, ChangeSort(s)
      PROVE  FormInv'
  BY <1>6, ChangeSortInv
<1>7. CASE UNCHANGED formVars
  BY <1>7 DEF formVars, FormInv
<1> QED
  BY <1>1, <1>2, <1>3, <1>4, <1>5, <1>6, <1>7 DEF FormNext

THEOREM FormInvariant == FormSpec => []FormInv
  BY FormInitInv, FormNextInv, PTL DEF FormSpec

\* Fields, link and range are what their inputs yield, whatever is typed,
\* opened and modified.
THEOREM FormTypes == FormSpec => []FormTypeOK
<1>1. FormInv => FormTypeOK
  BY DEF FormInv, FormTypeOK, FieldsTyped, IsCriteria, LinkTyped
<1> QED
  BY <1>1, FormInvariant, PTL

\* serializeSearchParams, parseSearchParams and toSearchRequest together give
\* back the search that was submitted or sorted anew, and the form is filled
\* with it again.
THEOREM SearchesSurvive == FormSpec => []SearchSurvives
<1>1. ASSUME FormInv PROVE SearchSurvives
  <2> SUFFICES ASSUME asked # NoSearch
               PROVE  /\ page = "form" => form = asked
                      /\ page = "results" =>
                             \/ Valid(link) /\ ToRequest(Parse(link)) = asked
                             \/ asked["date"] \notin Calendar
    BY DEF SearchSurvives
  <2>1. /\ Complete(asked)
        /\ page = "form" => form = asked
        /\ page = "results" => link = Serialize(asked)
    BY <1>1 DEF FormInv
  <2>2. ToRequest(Parse(Serialize(asked))) = asked
    BY <2>1, RoundTrip
  <2>3. asked["date"] \in Calendar => Valid(Serialize(asked))
    BY <2>1, LinkIsValid
  <2> QED
    BY <2>1, <2>2, <2>3
<1> QED
  BY <1>1, FormInvariant, PTL

\* The checks of parseSearchParams are those of SearchCriteria, and the defaults
\* both fill in agree: what a link makes the results page post is accepted.
THEOREM PostsAreAccepted == FormSpec => []PostedIsAccepted
<1>1. ASSUME FormInv PROVE PostedIsAccepted
  <2> SUFFICES ASSUME page = "results", Valid(link), link["date"] \in ApiDates
               PROVE  ApiAccepts(ToRequest(Parse(link)))
    BY DEF PostedIsAccepted
  <2> DEFINE a == ToRequest(Parse(link))
  <2>1. Complete(a) /\ a["date"] = link["date"]
    BY <1>1, ValidAsk DEF FormInv
  <2> HIDE DEF a
  <2>2. ApiAccepts(a)
    <3>1. /\ a["origin"] \in Codes /\ a["date"] \in ApiDates
          /\ a["depart_after"] \in Times \cup {NoValue}
          /\ a["sort"] \in SortModes
      BY <2>1 DEF Complete
    <3>2. /\ a["connections"] \in 0..1
          /\ a["min_conn"] \in 20..360 /\ a["max_conn"] \in 20..360
          /\ a["max_conn"] >= a["min_conn"]
          /\ a["max_duration"] \in 60..1440
          /\ a["max_price"] # NoValue => a["max_price"] >= 0
      BY <2>1, Bounds
    <3>3. ~(a["domestic"] /\ a["international"])
      BY <2>1, Flags
    <3> QED
      BY <3>1, <3>2, <3>3, ZenonT(60) DEF ApiAccepts, SearchRequest, SearchCriteria
  <2> QED
    BY <2>2 DEF a
<1> QED
  BY <1>1, FormInvariant, PTL

\* The key of a valid link is a valid link of the same request, so the request
\* can be told from the key and results are never kept for another.
THEOREM KeysTellRequests == FormSpec => []KeptResultsAreOfTheLink
<1>1. ASSUME FormInv PROVE KeptResultsAreOfTheLink
  <2> SUFFICES ASSUME page = "results", Valid(link)
               PROVE  /\ Valid(QueryKey(link))
                      /\ ToRequest(Parse(QueryKey(link))) = ToRequest(Parse(link))
    BY DEF KeptResultsAreOfTheLink
  <2> DEFINE a == ToRequest(Parse(link))
  <2>1. Complete(a) /\ a["date"] \in Calendar
    BY <1>1, ValidAsk DEF FormInv
  <2>2. QueryKey(link) = Serialize(a)
    BY SameLink DEF QueryKey
  <2> HIDE DEF a
  <2>3. Valid(Serialize(a)) /\ ToRequest(Parse(Serialize(a))) = a
    BY <2>1, LinkIsValid, RoundTrip
  <2> QED
    BY <2>2, <2>3 DEF a
<1> QED
  BY <1>1, FormInvariant, PTL

\* The form that "Modify this search" shows is not refused by submit, which
\* checks more than parseSearchParams does, unless the schedule has moved on.
THEOREM ModificationsCanBeSubmitted == FormSpec => []ModifiedCanBeSubmitted
<1>1. ASSUME FormInv PROVE ModifiedCanBeSubmitted
  BY <1>1, CompleteIsSubmittable DEF FormInv, ModifiedCanBeSubmitted
<1> QED
  BY <1>1, FormInvariant, PTL
=============================================================================
