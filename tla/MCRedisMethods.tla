--------------------------- MODULE MCRedisMethods ---------------------------
(* Small instances of RedisMethods for TLC. *)
EXTENDS RedisMethods

MCValues == {"u", "v"}
MCFields == {"f", "g"}

(* Integers of three bits: the list is never longer than the largest. *)
MCStops == {-4, -1, 0, 1, 3}
MCStarts == 0..7
=============================================================================
