---------------------------- MODULE MCOsekCounter ----------------------------
(* A counter of three ticks, one alarm, a single-shot table with one point *)
(* and a delay after it, and a repeating one with a point at offset zero   *)
(* and a point that ends it.  The largest tick fits TickType exactly, as   *)
(* in a free-running counter; with a larger TickType the ticks of a table  *)
(* pass maxallowedvalue ("range").  The repeating table is used by the     *)
(* owning core only.                                                       *)
EXTENDS OsekCounter

CONSTANTS a1, single, rep

MCOffsets == (single :> <<1>>) @@ (rep :> <<0, 1>>)
MCDuration == (single :> 2) @@ (rep :> 1)

\* The properties say little after these conditions.
Covered == upset \cap {"stale", "race", "range", "zero"} = {}
=============================================================================
