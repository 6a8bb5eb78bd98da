---------------------------- MODULE MCTaskRelease ----------------------------
(***************************************************************************)
(* Instances of TaskRelease: two tasks whose periods are not multiples of  *)
(* each other, and the one task that the application is built with.        *)
(***************************************************************************)
EXTENDS TaskRelease

TwoTasks == {1, 2}
TwoPeriods == <<2, 3>>

OneTask == {1}
OnePeriod == <<2>>
=============================================================================
