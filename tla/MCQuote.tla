------------------------------ MODULE MCQuote ------------------------------
(***************************************************************************)
(* Model checking of Quote.  The .cfg files give the constants their       *)
(* values and choose what may fail.  No step of Quote tells one time stamp *)
(* from another, so safety is checked up to their permutations.            *)
(***************************************************************************)
EXTENDS Quote, TLC

StampSymmetry == Permutations(DateTimeStamps)
=============================================================================
