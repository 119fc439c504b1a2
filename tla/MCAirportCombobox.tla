-------------------------- MODULE MCAirportCombobox --------------------------
(* A finite instance of AirportCombobox for TLC: two airports; texts that   *)
(* find both, one or none; a blank one; two that are codes and two that are *)
(* labels, of which one is too long for the API.                            *)
EXTENDS AirportCombobox

MCCodes == {"A", "B"}
MCAllTexts == MCCodes \cup {"", " ", "a", "A-x", "B-y"}
MCTrim == [t \in MCAllTexts |-> IF t = " " THEN "" ELSE t]
MCLabel == [c \in MCCodes |-> IF c = "A" THEN "A-x" ELSE "B-y"]
MCLabelled == [c \in MCCodes |-> {MCLabel[c]}]
MCFound == [t \in MCAllTexts |->
               CASE t = "a" -> <<"A", "B">>
                 [] t = "A" -> <<"A">>
                 [] OTHER -> <<>>]
=============================================================================
