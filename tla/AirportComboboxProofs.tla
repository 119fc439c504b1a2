------------------------ MODULE AirportComboboxProofs ------------------------
(* What holds of the airport field for any texts, airports and answers of   *)
(* the API.  The invariant says what the effect leaves behind: a lookup     *)
(* under way is for the debounced text, and only lookups cut off while      *)
(* their error body was read are left of earlier ones.                      *)
EXTENDS AirportCombobox, TLAPS

LookupIsCurrent ==
    lookup # NoLookup => /\ lookup.text = Trim[debounced]
                         /\ Wanted(debounced, value)

OnlyErrorsLeft == \A l \in superseded : l.stage \in {"refused", "failed"}

ComboInv == /\ ComboTypeOK /\ LookupIsCurrent /\ OnlyErrorsLeft
            /\ ListAnswersText /\ ChoiceIsShown /\ SearchingIsTrue

-----------------------------------------------------------------------------
(* The pieces actions are made of.                                          *)

\* A run of the effect establishes what it is to leave behind, whatever the
\* text and the choice it runs for.
LEMMA EffectInv ==
    ASSUME ComboInv, LookUp(debounced', value'),
           value' \in Codes \cup {NoCode}, debounced' \in Texts,
           UNCHANGED active
    PROVE  /\ items' \in Seq(Codes)
           /\ items' # <<>> => active' \in 0..(Len(items') - 1)
           /\ status' \in {"idle", "loading"}
           /\ lookup' \in Lookups \cup {NoLookup}
           /\ superseded' \in SUBSET Lookups
           /\ LookupIsCurrent' /\ OnlyErrorsLeft'
           /\ ListAnswersText' /\ SearchingIsTrue'
<1>1. /\ superseded' \in SUBSET Lookups
      /\ OnlyErrorsLeft'
  BY DEF ComboInv, ComboTypeOK, OnlyErrorsLeft, LookUp, Abort
<1>2. CASE Wanted(debounced', value')
  <2>1. /\ lookup' = [text |-> Trim[debounced'], stage |-> "sent"]
        /\ status' = "loading" /\ items' = items
    BY <1>2 DEF LookUp
  <2>2. lookup' \in Lookups
    BY <2>1, ComboAssumption DEF ComboAssumption, Lookups, Stages
  <2>3. lookup' # NoLookup
    BY <2>2, NoLookupAssumption DEF NoLookupAssumption
  <2>4. /\ LookupIsCurrent' /\ ListAnswersText' /\ SearchingIsTrue'
    BY <1>2, <2>1, <2>3 DEF LookupIsCurrent, ListAnswersText, SearchingIsTrue, Wanted
  <2>5. QED
    BY <1>1, <2>1, <2>2, <2>4 DEF ComboInv, ComboTypeOK
<1>3. CASE ~Wanted(debounced', value')
  <2>1. lookup' = NoLookup /\ status' = "idle" /\ items' = <<>>
    BY <1>3 DEF LookUp
  <2>2. /\ LookupIsCurrent' /\ ListAnswersText' /\ SearchingIsTrue'
    BY <2>1 DEF LookupIsCurrent, ListAnswersText, SearchingIsTrue
  <2>3. QED
    BY <1>1, <2>1, <2>2
<1>4. QED
  BY <1>2, <1>3

\* The same when the form's origin may change.
LEMMA ChooseInv ==
    ASSUME ComboInv, NEW c \in Codes \cup {NoCode}, Choose(c),
           UNCHANGED <<debounced, active>>
    PROVE  /\ value' = c
           /\ items' \in Seq(Codes)
           /\ items' # <<>> => active' \in 0..(Len(items') - 1)
           /\ status' \in {"idle", "loading", "loaded", "error"}
           /\ lookup' \in Lookups \cup {NoLookup}
           /\ superseded' \in SUBSET Lookups
           /\ LookupIsCurrent' /\ OnlyErrorsLeft'
           /\ ListAnswersText' /\ SearchingIsTrue'
<1>1. CASE c = value
  BY <1>1 DEF Choose, lookupVars, ComboInv, ComboTypeOK, LookupIsCurrent,
     OnlyErrorsLeft, ListAnswersText, SearchingIsTrue, Wanted
<1>2. CASE c # value
  <2>1. LookUp(debounced', value') /\ value' = c /\ debounced' = debounced
    BY <1>2 DEF Choose
  <2>2. QED
    BY <2>1, EffectInv DEF ComboInv, ComboTypeOK
<1>3. QED
  BY <1>1, <1>2

\* A choice made from the list.
LEMMA SelectInv ==
    ASSUME ComboInv, NEW c \in Codes, Select(c)
    PROVE  ComboInv'
<1>1. /\ Choose(c) /\ input' = Label[c] /\ open' = FALSE
      /\ debounced' = debounced /\ active' = active
  BY DEF Select
<1>2. Label[c] \in Texts /\ Label[c] \in Labelled[c]
  BY ComboAssumption DEF ComboAssumption
<1>3. ComboTypeOK'
  <2>1. input' \in Texts /\ debounced' \in Texts /\ active' \in Int /\ active' >= -1
    BY <1>1, <1>2 DEF ComboInv, ComboTypeOK
  <2>2. UNCHANGED <<debounced, active>> /\ c \in Codes \cup {NoCode}
    BY <1>1
  <2>3. QED
    BY <1>1, <2>1, <2>2, ChooseInv DEF ComboTypeOK
<1>4. ChoiceIsShown'
  BY <1>1, <1>2 DEF Choose, ChoiceIsShown
<1>5. QED
  BY <1>1, <1>3, <1>4, ChooseInv DEF ComboInv

\* A move of the highlight that keeps it on the list.
LEMMA HighlightInv ==
    ASSUME ComboInv, NEW i \in Int, Highlight(i), open' \in BOOLEAN,
           i >= -1, items # <<>> => i \in 0..(Len(items) - 1)
    PROVE  ComboInv'
BY DEF Highlight, textVars, lookupVars, ComboInv, ComboTypeOK, LookupIsCurrent,
   OnlyErrorsLeft, ListAnswersText, ChoiceIsShown, SearchingIsTrue, Wanted

\* A lookup that settles, the current one or one left of earlier runs.
LEMMA SettleInv ==
    ASSUME ComboInv, NEW l \in Lookups, Settle(l),
           \/ l = lookup /\ lookup' = NoLookup /\ superseded' = superseded
           \/ l \in superseded /\ lookup' = lookup /\ superseded' = superseded \ {l}
    PROVE  ComboInv'
<1>1. /\ value' = value /\ input' = input /\ debounced' = debounced /\ open' = open
  BY DEF Settle, textVars
<1>2. l = lookup \/ l.stage \in {"refused", "failed"}
  BY DEF ComboInv, OnlyErrorsLeft
<1>3. /\ lookup' \in Lookups \cup {NoLookup} /\ superseded' \in SUBSET Lookups
      /\ LookupIsCurrent' /\ OnlyErrorsLeft' /\ ChoiceIsShown'
      /\ lookup = NoLookup => lookup' = NoLookup
  BY <1>1, NoLookupAssumption DEF ComboInv, ComboTypeOK, LookupIsCurrent,
     OnlyErrorsLeft, ChoiceIsShown, Wanted, NoLookupAssumption
<1>4. CASE l.stage = "ok"
  <2>1. /\ items' = Found[l.text] /\ status' = "loaded"
        /\ active' = IF Found[l.text] = <<>> THEN -1 ELSE 0
    BY <1>4 DEF Settle
  <2>2. l = lookup /\ lookup # NoLookup /\ lookup' = NoLookup
    BY <1>2, <1>4, NoLookupAssumption DEF NoLookupAssumption, ComboInv, OnlyErrorsLeft
  <2>3. l.text = Trim[debounced] /\ Wanted(debounced, value)
    BY <2>2 DEF ComboInv, LookupIsCurrent
  <2>4. Found[l.text] \in Seq(Codes)
    BY ComboAssumption DEF ComboAssumption, Lookups
  <2>5. items' # <<>> => active' \in 0..(Len(items') - 1)
    BY <2>1, <2>4
  <2>6. ListAnswersText' /\ SearchingIsTrue'
    BY <1>1, <2>1, <2>3 DEF ListAnswersText, SearchingIsTrue, Wanted
  <2>7. ComboTypeOK'
    BY <1>1, <1>3, <2>1, <2>4, <2>5 DEF ComboInv, ComboTypeOK
  <2>8. QED
    BY <1>3, <2>6, <2>7 DEF ComboInv
<1>5. CASE l.stage = "refused"
  <2>1. items' = <<>> /\ status' = "loaded" /\ active' = active
    BY <1>5 DEF Settle
  <2>2. ListAnswersText' /\ SearchingIsTrue'
    BY <1>1, <1>3, <2>1 DEF ComboInv, ListAnswersText, SearchingIsTrue, Wanted
  <2>3. ComboTypeOK'
    BY <1>1, <1>3, <2>1 DEF ComboInv, ComboTypeOK
  <2>4. QED
    BY <1>3, <2>2, <2>3 DEF ComboInv
<1>6. CASE l.stage = "failed"
  <2>1. items' = items /\ status' = "error" /\ active' = active
    BY <1>6 DEF Settle
  <2>2. ListAnswersText' /\ SearchingIsTrue'
    BY <1>1, <1>3, <2>1 DEF ComboInv, ListAnswersText, SearchingIsTrue, Wanted
  <2>3. ComboTypeOK'
    BY <1>1, <1>3, <2>1 DEF ComboInv, ComboTypeOK
  <2>4. QED
    BY <1>3, <2>2, <2>3 DEF ComboInv
<1>7. QED
  BY <1>4, <1>5, <1>6 DEF Settle

-----------------------------------------------------------------------------
(* The invariant.                                                           *)

LEMMA ComboInitInv == ComboInit => ComboInv
<1> SUFFICES ASSUME ComboInit PROVE ComboInv
  OBVIOUS
<1>1. ComboTypeOK
  <2>1. input \in Texts /\ debounced \in Texts
    BY ComboAssumption DEF ComboAssumption, ComboInit
  <2>2. <<>> \in Seq(Codes) /\ {} \in SUBSET Lookups /\ -1 \in Int
    OBVIOUS
  <2>3. /\ open \in BOOLEAN /\ items = <<>> /\ active = -1 /\ status = "idle"
        /\ lookup = NoLookup /\ superseded = {} /\ value \in Codes \cup {NoCode}
    BY DEF ComboInit
  <2>4. QED
    BY <2>1, <2>2, <2>3 DEF ComboTypeOK
<1>2. LookupIsCurrent /\ OnlyErrorsLeft /\ ListAnswersText /\ SearchingIsTrue
  BY DEF ComboInit, LookupIsCurrent, OnlyErrorsLeft, ListAnswersText, SearchingIsTrue
<1>3. ChoiceIsShown
  BY DEF ComboInit, ChoiceIsShown
<1>4. QED
  BY <1>1, <1>2, <1>3 DEF ComboInv

LEMMA ComboStep == ComboInv /\ [ComboNext]_comboVars => ComboInv'
<1> SUFFICES ASSUME ComboInv, [ComboNext]_comboVars PROVE ComboInv'
  OBVIOUS
<1>a. ComboTypeOK
  BY DEF ComboInv
<1>1. ASSUME NEW t \in Texts, Type(t) PROVE ComboInv'
  <2>1. /\ Choose(NoCode) /\ input' \in {t, Empty} /\ open' = TRUE
        /\ debounced' = debounced /\ active' = active
    BY <1>1 DEF Type
  <2>2. ComboTypeOK'
    BY <1>a, <2>1, ChooseInv, ComboAssumption DEF ComboTypeOK, ComboAssumption
  <2>3. ChoiceIsShown'
    BY <2>1 DEF Choose, ChoiceIsShown
  <2>4. QED
    BY <2>1, <2>2, <2>3, ChooseInv DEF ComboInv
<1>2. CASE ArrowDown
  BY <1>2, <1>a, HighlightInv DEF ArrowDown, ComboTypeOK
<1>3. CASE ArrowUp
  BY <1>3, <1>a, HighlightInv DEF ArrowUp, ComboTypeOK
<1>4. CASE Home
  BY <1>4, <1>a, HighlightInv DEF Home, ComboTypeOK
<1>5. CASE End
  BY <1>5, <1>a, HighlightInv DEF End, ComboTypeOK
<1>6. CASE Enter
  <2>1. items[active + 1] \in Codes
    BY <1>6, <1>a DEF Enter, ComboTypeOK
  <2>2. QED
    BY <1>6, <2>1, SelectInv DEF Enter
<1>7. ASSUME NEW i \in 0..(Len(items) - 1), Hover(i) PROVE ComboInv'
  BY <1>7, <1>a, HighlightInv DEF Hover, ComboTypeOK
<1>8. ASSUME NEW i \in 0..(Len(items) - 1), Click(i) PROVE ComboInv'
  <2>1. items[i + 1] \in Codes
    BY <1>8, <1>a DEF ComboTypeOK
  <2>2. QED
    BY <1>8, <2>1, SelectInv DEF Click
<1>9. ASSUME open' \in BOOLEAN, UNCHANGED <<textVars, lookupVars, active>> PROVE ComboInv'
  BY <1>9, HighlightInv, <1>a DEF Highlight, ComboTypeOK
<1>10. CASE Focus \/ Close
  BY <1>9, <1>10 DEF Focus, Close
<1>11. CASE Debounce
  <2>1. /\ LookUp(debounced', value') /\ debounced' = input /\ value' = value
        /\ input' = input /\ open' = open /\ active' = active
    BY <1>11 DEF Debounce
  <2>2. debounced' \in Texts /\ value' \in Codes \cup {NoCode}
    BY <1>a, <2>1 DEF ComboTypeOK
  <2>3. ComboTypeOK'
    BY <1>a, <2>1, <2>2, EffectInv DEF ComboTypeOK
  <2>4. ChoiceIsShown'
    BY <2>1 DEF ComboInv, ChoiceIsShown
  <2>5. QED
    BY <2>1, <2>2, <2>3, <2>4, EffectInv DEF ComboInv
<1>12. CASE Headers
  <2>1. /\ lookup # NoLookup /\ lookup' \in Lookups /\ lookup'.text = lookup.text
        /\ UNCHANGED <<value, input, debounced, superseded, items, status, open, active>>
    BY <1>12, <1>a DEF Headers, ComboTypeOK, Lookups, Stages, textVars
  <2>2. ListAnswersText'
    BY <2>1 DEF ComboInv, ListAnswersText, LookupIsCurrent, Wanted
  <2>3. LookupIsCurrent' /\ OnlyErrorsLeft' /\ ChoiceIsShown' /\ SearchingIsTrue'
    BY <2>1, NoLookupAssumption DEF ComboInv, LookupIsCurrent, OnlyErrorsLeft,
       ChoiceIsShown, SearchingIsTrue, Wanted, NoLookupAssumption
  <2>4. QED
    BY <2>1, <2>2, <2>3, <1>a DEF ComboInv, ComboTypeOK
<1>13. CASE Answered
  BY <1>13, <1>a, SettleInv DEF Answered, ComboTypeOK
<1>14. CASE ConnectionFails
  BY <1>14 DEF ConnectionFails, textVars, ComboInv, ComboTypeOK, LookupIsCurrent,
     OnlyErrorsLeft, ListAnswersText, ChoiceIsShown, SearchingIsTrue, Wanted
<1>15. CASE SupersededSettles
  BY <1>15, <1>a, SettleInv DEF SupersededSettles, ComboTypeOK
<1>16. CASE UNCHANGED comboVars
  BY <1>9, <1>16, <1>a DEF comboVars, ComboTypeOK
<1>17. QED
  BY <1>1, <1>2, <1>3, <1>4, <1>5, <1>6, <1>7, <1>8, <1>10, <1>11, <1>12, <1>13,
     <1>14, <1>15, <1>16 DEF ComboNext, User

LEMMA ComboInvariant == ComboSpec => []ComboInv
<1>1. QED
  BY ComboInitInv, ComboStep, PTL DEF ComboSpec

-----------------------------------------------------------------------------
\* Every component of the field keeps a value its code expects, and the
\* highlight stays on the list (AirportCombobox).
THEOREM ComboTypeCorrect == ComboSpec => []ComboTypeOK
<1>1. ComboInv => ComboTypeOK
  BY DEF ComboInv
<1>2. QED
  BY <1>1, ComboInvariant, PTL

\* However lookups overlap, fail and are aborted, a loaded list is the API's
\* answer to the text searched for, and none is left, or to come, once there is
\* nothing to search for (the effect on [debounced, value]).
THEOREM ListIsCurrent == ComboSpec => []ListAnswersText
<1>1. ComboInv => ListAnswersText
  BY DEF ComboInv
<1>2. QED
  BY <1>1, ComboInvariant, PTL

\* The form never holds an origin the field does not show (select, onChange,
\* the effect on [value]).
THEOREM OriginIsShown == ComboSpec => []ChoiceIsShown
<1>1. ComboInv => ChoiceIsShown
  BY DEF ComboInv
<1>2. QED
  BY <1>1, ComboInvariant, PTL

\* The field never says it is searching with no lookup under way (setStatus).
THEOREM SearchingIsHonest == ComboSpec => []SearchingIsTrue
<1>1. ComboInv => SearchingIsTrue
  BY DEF ComboInv
<1>2. QED
  BY <1>1, ComboInvariant, PTL
=============================================================================
