------------------------------ MODULE MCRateLimit ------------------------------
(***************************************************************************)
(* The TLC instance of RateLimit alone, for the hour of an emergency limit *)
(* next to the minute of the others.                                       *)
(***************************************************************************)
EXTENDS RateLimit

MCCategories == {"emergency", "safety"}
MCRateLimits == [emergency |-> 2, safety |-> 3]
MCTimeWindows == [emergency |-> 3, safety |-> 1]

================================================================================
