----------------------------- MODULE MCRateLimit -----------------------------
(* A finite instance of RateLimit for TLC.  A window is 1 2/3 seconds, long *)
(* enough for a TTL to be rounded either way and for three windows to begin *)
(* at any offset.                                                           *)
EXTENDS RateLimit

CONSTANTS other, x1, x2

MCHeaders == {<<>>, <<other, NotAnIp, x1>>}
MCRoutes == {<<>>, <<x1, x2>>}
=============================================================================
