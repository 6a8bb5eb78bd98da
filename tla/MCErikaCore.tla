---------------------------- MODULE MCErikaCore ----------------------------
(* Instances of ErikaCore.  main.c gives task1 priority 2 and task2        *)
(* priority 1.  The third task, of MCErikaCoreThree.cfg, is there so that  *)
(* two tasks can be held back while a third one runs.                      *)
EXTENDS ErikaCore

CONSTANTS task1, task2, task3

TwoTasks   == {task1, task2}
ThreeTasks == {task1, task2, task3}
TwoPrios   == [t \in TwoTasks |-> IF t = task1 THEN 2 ELSE 1]
ThreePrios == [t \in ThreeTasks |-> CASE t = task1 -> 2 [] t = task2 -> 1
                                      [] t = task3 -> 3]
TwoInOrder   == <<task1, task2>>
ThreeInOrder == <<task1, task2, task3>>
Ceiling == 127
=============================================================================
