--------------------------- MODULE MCAirportImport ---------------------------
(* A finite instance of AirportImport for TLC.                              *)
EXTENDS AirportImport

CONSTANTS i1, i2

Row(x, y) == [city |-> x, zone |-> y]
At(c, x, y) == [code |-> c, row |-> Row(x, y)]

MCFiles == {
    <<At(1, 1, 1), At(2, 1, 1)>>,
    <<At(2, 1, 2), At(1, 1, 2)>>,               \* in the other order
    <<At(1, 2, 1)>>,
    <<At(1, 2, 2), At(1, 1, 1)>>,               \* contradicts itself
    <<At(1, 1, 1), At(1, 2, 1), At(1, 1, 1)>>,  \* and back again
    <<At(2, 1, 1), Rejected, At(2, 1, 1)>>}
=============================================================================
