----------------------------- MODULE SearchForm ------------------------------
(***************************************************************************)
(* Search criteria on their way through the web application: the fields of *)
(* SearchForm, the link of the results page (serializeSearchParams,        *)
(* parseSearchParams), the request ResultsView posts (toSearchRequest) and *)
(* what the API accepts (SearchCriteria); and back, by changing the sort,  *)
(* "Modify this search" or a link somebody shared or wrote.                *)
(*                                                                         *)
(* Criteria are functions from the parameters of a link; NoValue stands    *)
(* for a field left empty.  The three time filters are treated alike and   *)
(* one, depart_after, stands for them.  Dates are numbered in the order of *)
(* their texts, the order the form compares them in.  A code in lower case *)
(* counts as the same code: each function makes it upper case.             *)
(***************************************************************************)
EXTENDS Integers

CONSTANTS Origins,   \* texts an origin parameter may hold
          Codes,     \* those of three letters
          Dates,     \* texts a date parameter may hold
          Calendar,  \* those that are a date with a year of four digits
          FormDates, \* what the date input may hold
          ApiDates,  \* dates the API can represent: no year 0000
          Times, TimeTexts,        \* times, texts a time parameter may hold
          MinConns, MaxConns, Durations, Prices, Connections, Sorts,
                     \* numbers and words the other fields and links may hold
          SortModes, \* the sorts there are, "PRICE" among them
          Ranges,    \* schedule ranges [first, last] the status may report
          MaxEdits,  \* bound on the parameters changed in a link by hand
          NoValue, NoSearch

ASSUME FormAssumption ==
    /\ Codes \subseteq Origins /\ Times \subseteq TimeTexts
    /\ Calendar \cup FormDates \subseteq Dates /\ ApiDates \subseteq Calendar
    /\ Dates \subseteq Int
    /\ UNION {MinConns, MaxConns, Durations, Prices, Connections} \subseteq Int
    /\ 45 \in MinConns /\ 240 \in MaxConns /\ 720 \in Durations
    /\ {0, 1} \subseteq Connections
    /\ "PRICE" \in SortModes /\ SortModes \subseteq Sorts
    /\ \A r \in Ranges : r.first \in Dates /\ r.last \in Dates
    /\ NoValue \notin Int /\ NoValue \notin BOOLEAN
    /\ \A S \in {Origins, TimeTexts, Sorts} : NoValue \notin S
    /\ MaxEdits \in Nat

VARIABLES
    page,  \* "form" or "results"
    form,  \* the fields of the form, initial while there is none
    link,  \* the parameters in the address of the results page, or none
    range, \* the schedule's range, once the status has loaded
    edits, \* parameters of the link changed by hand
    asked  \* the request the visible criteria stand for, while known (history)

formVars == <<page, form, link, range, edits, asked>>

Params == {"origin", "date", "connections", "min_conn", "max_conn", "depart_after",
           "max_duration", "max_price", "domestic", "international", "sort"}

\* Texts a link may hold; a flag is set by "1" and FALSE stands for others.
LinkValues(p) ==
    CASE p = "origin"       -> Origins
      [] p = "date"         -> Dates
      [] p = "connections"  -> Connections
      [] p = "min_conn"     -> MinConns
      [] p = "max_conn"     -> MaxConns
      [] p = "depart_after" -> TimeTexts
      [] p = "max_duration" -> Durations
      [] p = "max_price"    -> Prices
      [] p = "sort"         -> Sorts
      [] OTHER              -> BOOLEAN

\* What a field may hold: an airport comes from the combobox, times and dates
\* from inputs that yield nothing else, the rest of the text fields is free.
FieldValues(p) ==
    CASE p = "origin"       -> Codes \cup {NoValue}
      [] p = "date"         -> FormDates \cup {NoValue}
      [] p = "connections"  -> {0, 1}
      [] p = "depart_after" -> Times \cup {NoValue}
      [] p = "max_price"    -> Prices \cup {NoValue}
      [] p = "sort"         -> SortModes
      [] OTHER              -> LinkValues(p)

\* initial values of the fields, where the form is given none.
FieldDefaults ==
    [p \in Params |-> CASE p = "connections"  -> 0
                        [] p = "min_conn"     -> 45
                        [] p = "max_conn"     -> 240
                        [] p = "max_duration" -> 720
                        [] p \in {"domestic", "international"} -> FALSE
                        [] p = "sort"         -> "PRICE"
                        [] OTHER              -> NoValue]

Or(value, default) == IF value = NoValue THEN default ELSE value

-----------------------------------------------------------------------------
(* The link and the request.                                               *)

\* serializeSearchParams leaves out what it takes for the default.
Omitted ==
    [p \in Params |-> CASE p = "connections"  -> 0
                        [] p = "min_conn"     -> 45
                        [] p = "max_conn"     -> 240
                        [] p = "max_duration" -> 720
                        [] p \in {"domestic", "international"} -> FALSE
                        [] p = "sort"         -> "PRICE"
                        [] OTHER              -> NoValue]

\* Mutant: a price of 0 counts as no price.
Serialize_Truthy(c) ==
    [p \in {q \in Params : c[q] \notin {NoValue, Omitted[q]}
                          /\ ~(q = "max_price" /\ c[q] = 0)} |-> c[p]]

Serialize(c) ==
    [p \in {q \in Params : c[q] \notin {NoValue, Omitted[q]}} |-> c[p]]

\* What each parameter must be for the link to be valid.
Readable(p, v) ==
    CASE p = "origin"       -> v \in Codes
      [] p = "date"         -> v \in Calendar
      [] p = "connections"  -> v \in {0, 1}
      [] p \in {"min_conn", "max_conn"} -> v \in 20..360
      [] p = "depart_after" -> v \in Times
      [] p = "max_duration" -> v \in 60..1440
      [] p = "max_price"    -> v >= 0
      [] p \in {"domestic", "international"} -> v
      [] OTHER              -> v \in SortModes

Given(u, p, default) == IF p \in DOMAIN u THEN u[p] ELSE default

\* Mutant: a link may ask for domestic and international destinations only.
Valid_BothFlags(u) ==
    /\ {"origin", "date"} \subseteq DOMAIN u
    /\ \A p \in DOMAIN u : Readable(p, u[p])
    /\ Given(u, "max_conn", 240) > Given(u, "min_conn", 45)

\* Mutant: equal bounds, which the API takes and the form does not.
Valid_EqualBounds(u) ==
    /\ {"origin", "date"} \subseteq DOMAIN u
    /\ \A p \in DOMAIN u : Readable(p, u[p])
    /\ ~(Given(u, "domestic", FALSE) /\ Given(u, "international", FALSE))
    /\ Given(u, "max_conn", 240) >= Given(u, "min_conn", 45)

\* parseSearchParams returns criteria and not null.
Valid(u) ==
    /\ {"origin", "date"} \subseteq DOMAIN u
    /\ \A p \in DOMAIN u : Readable(p, u[p])
    /\ ~(Given(u, "domestic", FALSE) /\ Given(u, "international", FALSE))
    /\ Given(u, "max_conn", 240) > Given(u, "min_conn", 45)

\* The criteria of a valid link.
Parse(u) ==
    [p \in Params |->
        Given(u, p, CASE p = "connections" -> 0
                      [] p \in {"domestic", "international"} -> FALSE
                      [] p = "sort" -> "PRICE"
                      [] OTHER -> NoValue)]

\* toSearchRequest.
ToRequest(c) ==
    [p \in Params |->
        CASE p = "min_conn"     -> Or(c[p], 45)
          [] p = "max_conn"     -> Or(c[p], 240)
          [] p = "max_duration" -> Or(c[p], 720)
          [] p \in {"domestic", "international"} -> Or(c[p], FALSE)
          [] OTHER              -> c[p]]

\* The body is a SearchRequest.
SearchRequest(r) ==
    /\ r["date"] \in ApiDates
    /\ r["connections"] \in 0..1
    /\ r["min_conn"] \in 20..360 /\ r["max_conn"] \in 20..360
    /\ r["max_duration"] \in 60..1440
    /\ r["depart_after"] \in Times \cup {NoValue}
    /\ r["sort"] \in SortModes

\* The checks SearchCriteria adds.
SearchCriteria(r) ==
    /\ r["origin"] \in Codes
    /\ r["max_price"] # NoValue => r["max_price"] >= 0
    /\ r["max_conn"] >= r["min_conn"]
    /\ ~(r["domestic"] /\ r["international"])

\* POST /search gets as far as the rate limit.
ApiAccepts(r) == SearchRequest(r) /\ SearchCriteria(r)

\* Mutant: results are kept for all sorts alike.
QueryKey_Unsorted(u) == Serialize([Parse(u) EXCEPT !["sort"] = "PRICE"])

\* What the results of a valid link are kept under, to be shown again for half
\* a minute without a new search.
QueryKey(u) == Serialize(Parse(u))

-----------------------------------------------------------------------------
(* The pages.                                                              *)

FormInit ==
    /\ page = "form"
    /\ form = FieldDefaults
    /\ link = Serialize(FieldDefaults)  \* the empty link
    /\ range = NoValue
    /\ edits = 0
    /\ asked = NoSearch

\* The user changes a field.
Edit(p, v) ==
    /\ page = "form"
    /\ form' = [form EXCEPT ![p] = v]
    /\ asked' = NoSearch
    /\ UNCHANGED <<page, link, range, edits>>

\* getScheduleStatus answers; the form needs no answer.
StatusLoads(r) ==
    /\ range' = r
    /\ UNCHANGED <<page, form, link, edits, asked>>

\* The checks of submit.
Submittable(f) ==
    /\ f["origin"] # NoValue
    /\ f["date"] # NoValue
    /\ range # NoValue => f["date"] \in range.first..range.last
    /\ ~(f["domestic"] /\ f["international"])
    /\ f["min_conn"] \in 20..360 /\ f["max_conn"] \in 20..360
    /\ f["max_conn"] > f["min_conn"]
    /\ f["max_duration"] \in 60..1440
    /\ f["max_price"] # NoValue => f["max_price"] >= 0

Submit ==
    /\ page = "form" /\ Submittable(form)
    /\ page' = "results"
    /\ link' = Serialize(form)
    /\ edits' = 0
    /\ asked' = form
    /\ form' = FieldDefaults
    /\ UNCHANGED range

\* What the user of the results page sees that is searched for.
Visible == IF asked # NoSearch THEN asked ELSE ToRequest(Parse(link))

\* changeSort pushes a link.
ChangeSort(s) ==
    /\ page = "results" /\ Valid(link)
    /\ link' = Serialize([Parse(link) EXCEPT !["sort"] = s])
    /\ asked' = [Visible EXCEPT !["sort"] = s]
    /\ UNCHANGED <<page, form, range, edits>>

\* Mutant: an absent parameter leaves its field undefined.
FormOf_Bare(u) == IF Valid(u) THEN Parse(u) ELSE FieldDefaults

\* The home page parses the link it is given and the form starts from it.
FormOf(u) ==
    IF Valid(u) THEN [p \in Params |-> Or(Parse(u)[p], FieldDefaults[p])]
    ELSE FieldDefaults

\* "Modify this search", or "Start a new search" when the link is invalid.
Modify ==
    /\ page = "results"
    /\ page' = "form"
    /\ form' = IF Valid(link) THEN FormOf(Serialize(Parse(link))) ELSE FieldDefaults
    /\ asked' = IF Valid(link) THEN Visible ELSE NoSearch
    /\ link' = Serialize(FieldDefaults)
    /\ edits' = 0
    /\ UNCHANGED range

\* Somebody opens the link with one parameter changed, added or left out.
OpenLink(p) ==
    /\ page = "results" /\ edits < MaxEdits
    /\ edits' = edits + 1
    /\ \/ \E v \in LinkValues(p) :
             link' = [q \in DOMAIN link \cup {p} |-> IF q = p THEN v ELSE link[q]]
       \/ link' = [q \in DOMAIN link \ {p} |-> link[q]]
    /\ asked' = NoSearch
    /\ UNCHANGED <<page, form, range>>

FormNext ==
    \/ \E p \in Params : (\E v \in FieldValues(p) : Edit(p, v)) \/ OpenLink(p)
    \/ \E r \in Ranges : StatusLoads(r)
    \/ Submit \/ Modify
    \/ \E s \in SortModes : ChangeSort(s)

FormSpec == FormInit /\ [][FormNext]_formVars

-----------------------------------------------------------------------------
(* Properties.                                                             *)

\* Fields and link hold what their inputs can yield, the date also what a link
\* can.
FormTypeOK ==
    /\ page \in {"form", "results"}
    /\ DOMAIN form = Params
    /\ form["date"] \in Calendar \cup FieldValues("date")
    /\ \A p \in Params \ {"date"} : form[p] \in FieldValues(p)
    /\ DOMAIN link \subseteq Params
    /\ \A p \in DOMAIN link : link[p] \in LinkValues(p)
    /\ range \in Ranges \cup {NoValue}
    /\ edits \in 0..MaxEdits

\* The request posted is the one the user asked for, whichever way the criteria
\* came: out of the form or by a change of the sort; and when the form is
\* shown again it stands for that request (SearchForm.submit, serialize, parse
\* and toSearchRequest each have their own defaults).  Only a year of more than
\* four digits, which the form accepts while the range is unknown, gets lost.
SearchSurvives ==
    asked # NoSearch =>
        /\ page = "form" => form = asked
        /\ page = "results" =>
               \/ Valid(link) /\ ToRequest(Parse(link)) = asked
               \/ asked["date"] \notin Calendar

\* Whatever link is opened, the API takes the request the results page posts,
\* but for a year 0000, which is a calendar date in JavaScript only.
PostedIsAccepted ==
    page = "results" /\ Valid(link) =>
        \/ ApiAccepts(ToRequest(Parse(link)))
        \/ link["date"] \notin ApiDates

\* Results kept under the key of a link were asked for with the request of that
\* link: two links, however they write their criteria, share results only if
\* they stand for one request (the key is the link serializeSearchParams would
\* write, which leaves out what the request then fills in).
KeptResultsAreOfTheLink ==
    page = "results" /\ Valid(link) =>
        /\ Valid(QueryKey(link))
        /\ ToRequest(Parse(QueryKey(link))) = ToRequest(Parse(link))

\* A search whose results were shown can be modified: unless its date is
\* outside the schedule, the form it leads back to can be submitted unchanged.
ModifiedCanBeSubmitted ==
    page = "form" /\ asked # NoSearch =>
        \/ Submittable(form)
        \/ range # NoValue /\ form["date"] \notin range.first..range.last
=============================================================================
