--------------------------- MODULE AirportCombobox ---------------------------
(***************************************************************************)
(* The airport field of the search form: AirportCombobox, the form's       *)
(* origin, useDebouncedValue and searchAirports.  One action is one event  *)
(* of the browser with the renders and effects that follow it: React       *)
(* flushes them before it handles the next event.                          *)
(*                                                                         *)
(* A text is a member of a set; what the code asks of one (its trimmed     *)
(* form, whether it starts with a code and a dash, what the API finds for  *)
(* it) are constants.                                                      *)
(***************************************************************************)
EXTENDS Integers, Sequences

CONSTANTS Texts,    \* what the input may hold
          Empty,    \* the empty text
          Codes,    \* airport codes: the texts that are one
          Trim,     \* text -> the text without surrounding blanks
          Label,    \* code -> the text that shows it: code, dash, city
          Labelled, \* code -> the texts that start with the code and a dash
          Found,    \* text -> the codes the API lists for it
          Refused,  \* texts the API answers with 422
          NoCode, NoLookup

ASSUME ComboAssumption ==
    /\ Empty \in Texts /\ Codes \subseteq Texts /\ Refused \subseteq Texts
    /\ NoCode \notin Texts
    /\ Trim \in [Texts -> Texts]
    /\ Label \in [Codes -> Texts]
    /\ \A c \in Codes : Label[c] \in Labelled[c]
    /\ Found \in [Texts -> Seq(Codes)]

\* How far a lookup is: its request sent, or the status line of its answer
\* received and the body being read.
Stages == {"sent", "ok", "refused", "failed"}
Lookups == [text: Texts, stage: Stages]
ASSUME NoLookupAssumption == NoLookup \notin Lookups

VARIABLES
    value,      \* the form's origin
    input, debounced,
    open, items, active, status,
    lookup,     \* the lookup of the last run of the effect, or NoLookup
    superseded  \* aborted lookups whose promise will still settle; two of one
                \* text and stage settle together

textVars == <<value, input, debounced>>
lookupVars == <<lookup, superseded, items, status>>
comboVars == <<textVars, lookupVars, open, active>>

\* The form starts from a link (initial.origin) or empty.
ComboInit ==
    /\ value \in Codes \cup {NoCode}
    /\ input = IF value = NoCode THEN Empty ELSE value
    /\ debounced = Empty
    /\ open = FALSE /\ items = <<>> /\ active = -1 /\ status = "idle"
    /\ lookup = NoLookup /\ superseded = {}

-----------------------------------------------------------------------------
(* The effect on [debounced, value].                                       *)

Wanted(text, chosen) ==
    /\ Trim[text] # Empty
    /\ chosen # NoCode => Trim[text] \notin {chosen} \cup Labelled[chosen]

\* Mutant: no abort; the lookup is answered later.
Abort_None(l) == {IF l.stage = "sent" THEN [l EXCEPT !.stage = "ok"] ELSE l}

\* controller.abort(): fetch and json reject with AbortError, which the catch
\* ignores; but parseError turns that of an error body into an ApiError.
Abort(l) == IF l.stage \in {"refused", "failed"} THEN {l} ELSE {}

LookUp(text, chosen) ==
    /\ superseded' = superseded \cup
           (IF lookup = NoLookup THEN {} ELSE Abort(lookup))
    /\ \/ /\ Wanted(text, chosen)
          /\ lookup' = [text |-> Trim[text], stage |-> "sent"]
          /\ status' = "loading"
          /\ UNCHANGED items
       \/ /\ ~Wanted(text, chosen)
          /\ lookup' = NoLookup
          /\ status' = "idle"
          /\ items' = <<>>

\* onSelect: the form's origin, passed back as value.
Choose(c) ==
    /\ value' = c
    /\ IF c = value THEN UNCHANGED lookupVars ELSE LookUp(debounced, c)

\* Mutant: the timer is not set again.
Debounce_Once ==
    /\ debounced = Empty /\ debounced # input
    /\ debounced' = input
    /\ LookUp(input, value)
    /\ UNCHANGED <<value, input, open, active>>

\* 250 ms without a change of the input.
Debounce ==
    /\ debounced # input
    /\ debounced' = input
    /\ LookUp(input, value)
    /\ UNCHANGED <<value, input, open, active>>

-----------------------------------------------------------------------------
(* The user.                                                               *)

\* Mutant: typing leaves the choice standing.
Type_KeepsChoice(t) ==
    /\ t # input
    /\ input' = t
    /\ open' = TRUE
    /\ UNCHANGED <<value, debounced, lookupVars, active>>

\* onChange.  When it clears a choice, the effect on [value] empties the
\* input again: the change that cleared it is lost.
Type(t) ==
    /\ t # input
    /\ input' = IF value = NoCode THEN t ELSE Empty
    /\ open' = TRUE
    /\ Choose(NoCode)
    /\ UNCHANGED <<debounced, active>>

\* select(): the effect on [value] leaves an input that is a label of the code.
Select(c) ==
    /\ input' = Label[c]
    /\ open' = FALSE
    /\ Choose(c)
    /\ UNCHANGED <<debounced, active>>

Highlight(i) == active' = i /\ UNCHANGED <<textVars, lookupVars>>

\* Mutant: the highlight runs off the end of the list.
ArrowDown_Unbounded == open' = TRUE /\ Highlight(active + 1)

ArrowDown ==
    /\ open' = TRUE
    /\ Highlight(IF active + 1 < Len(items) THEN active + 1 ELSE Len(items) - 1)

ArrowUp ==
    /\ open' = TRUE
    /\ Highlight(IF active > 0 THEN active - 1 ELSE 0)

Home == open /\ Highlight(0) /\ UNCHANGED open
End == open /\ Highlight(Len(items) - 1) /\ UNCHANGED open
Hover(i) == open /\ Highlight(i) /\ UNCHANGED open

\* The option under the highlight, counted from 0.
Enter ==
    /\ open /\ active + 1 \in DOMAIN items
    /\ Select(items[active + 1])

Click(i) == open /\ Select(items[i + 1])

\* onFocus.
Focus ==
    /\ Trim[input] # Empty
    /\ open' = TRUE
    /\ UNCHANGED <<textVars, lookupVars, active>>

\* Escape, or a press outside the field.
Close ==
    /\ open' = FALSE
    /\ UNCHANGED <<textVars, lookupVars, active>>
-----------------------------------------------------------------------------
(* The network and the promise of searchAirports.                          *)

\* The status line: 422 for a refused text, any other error for any text.
Headers ==
    /\ lookup # NoLookup /\ lookup.stage = "sent"
    /\ \E s \in {IF lookup.text \in Refused THEN "refused" ELSE "ok", "failed"} :
           lookup' = [lookup EXCEPT !.stage = s]
    /\ UNCHANGED <<textVars, superseded, items, status, open, active>>

\* The then or the catch of a lookup whose answer is l.stage.
Settle(l) ==
    /\ UNCHANGED <<textVars, open>>
    /\ \/ /\ l.stage = "ok"
          /\ items' = Found[l.text]
          /\ active' = IF Found[l.text] = <<>> THEN -1 ELSE 0
          /\ status' = "loaded"
       \/ /\ l.stage = "refused"
          /\ items' = <<>> /\ status' = "loaded"
          /\ UNCHANGED active
       \/ /\ l.stage = "failed"
          /\ status' = "error"
          /\ UNCHANGED <<items, active>>

\* The body has been read.
Answered ==
    /\ lookup # NoLookup /\ lookup.stage # "sent"
    /\ Settle(lookup)
    /\ lookup' = NoLookup
    /\ UNCHANGED superseded

\* fetch rejects, or the body of a list cannot be read.
ConnectionFails ==
    /\ lookup # NoLookup /\ lookup.stage \in {"sent", "ok"}
    /\ status' = "error"
    /\ lookup' = NoLookup
    /\ UNCHANGED <<textVars, superseded, items, open, active>>

\* The promise of an aborted lookup: nothing tells it that it was superseded.
SupersededSettles ==
    \E l \in superseded :
        /\ Settle(l)
        /\ superseded' = superseded \ {l}
        /\ UNCHANGED lookup

-----------------------------------------------------------------------------
User ==
    \/ \E t \in Texts : Type(t)
    \/ ArrowDown \/ ArrowUp \/ Home \/ End \/ Enter
    \/ \E i \in 0..(Len(items) - 1) : Hover(i) \/ Click(i)
    \/ Focus \/ Close

ComboNext ==
    \/ User \/ Debounce
    \/ Headers \/ Answered \/ ConnectionFails \/ SupersededSettles

ComboSpec == ComboInit /\ [][ComboNext]_comboVars

\* The timer fires once the user pauses; the API answers or the connection
\* breaks; a rejected promise runs its catch.
FairComboSpec ==
    /\ ComboSpec
    /\ WF_comboVars(Debounce)
    /\ WF_comboVars(Headers \/ Answered \/ ConnectionFails)
    /\ WF_comboVars(SupersededSettles)

-----------------------------------------------------------------------------
(* Properties.                                                             *)

\* Every component has a value the code expects, and as long as there is a
\* list the highlight is on one of its options (onKeyDown, activeId).
ComboTypeOK ==
    /\ value \in Codes \cup {NoCode}
    /\ input \in Texts /\ debounced \in Texts
    /\ open \in BOOLEAN
    /\ items \in Seq(Codes)
    /\ active \in Int /\ active >= -1
    /\ items # <<>> => active \in 0..(Len(items) - 1)
    /\ status \in {"idle", "loading", "loaded", "error"}
    /\ lookup \in Lookups \cup {NoLookup}
    /\ superseded \in SUBSET Lookups

\* A list offered as loaded is the API's answer to the text the field is
\* searching for, however lookups overlap; and once the text is blank or the
\* chosen airport's own, no list is left and none can still arrive
\* (the effect on [debounced, value]: "cancel stale requests").
ListAnswersText ==
    /\ status = "loaded" /\ items # <<>> =>
           items = Found[Trim[debounced]] /\ Wanted(debounced, value)
    /\ ~Wanted(debounced, value) => items = <<>> /\ lookup = NoLookup

\* The form never holds, and so never submits, an origin the field does not
\* show: "Stores the selected airport CODE, never free text" (AirportCombobox).
ChoiceIsShown == value # NoCode => input \in {value} \cup Labelled[value]

\* A field that says it is searching has a lookup under way (setStatus).
SearchingIsTrue == status = "loading" => lookup # NoLookup

\* When the user leaves the text alone, the field searches for that text and
\* comes to say what it found or that it failed (useDebouncedValue, the
\* effect on [debounced, value]).
CaughtUp == debounced = input /\ (Wanted(input, value) => status \in {"loaded", "error"})
CatchesUp == <>[][UNCHANGED <<value, input>>]_comboVars => <>[]CaughtUp

\* PHASE.md: "The frontend must avoid stale response replacement".  With
\* nothing to search for, the field announces neither a failure nor an
\* empty result.  Refuted: a lookup aborted while its error body was being
\* read settles as an ApiError (parseError) and sets the status.
NoStaleStatus == ~Wanted(debounced, value) => status = "idle"
=============================================================================
