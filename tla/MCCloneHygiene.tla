---------------------------- MODULE MCCloneHygiene ----------------------------
(* Values of the constants of CloneHygiene for TLC. *)
EXTENDS CloneHygiene

CONSTANTS p, q, e1, e2, e3

MCPathOf == [e \in {e1, e2, e3} |-> IF e = e3 THEN q ELSE p]
MCRegionOf == [e \in {e1, e2, e3} |-> IF e = e3 THEN "q" ELSE "p"]
MCAllowedOf == [t \in {1, 2} |-> IF t = 1 THEN {p} ELSE {p, q}]
MCConflictsWith == [t \in {1, 2} |-> IF t = 1 THEN {2} ELSE {}]
MCEditsBy == [t \in {1, 2} |-> IF t = 1 THEN {e1, e3} ELSE {e2}]
Ask1(selected, stream, requested, expected) ==
  [selected |-> selected, stream |-> stream, requested |-> requested, expected |-> expected]
MCRequests == {Ask1(0, 1, {p}, <<>>), Ask1(1, 1, {p}, Calm)}
MCWorkstream == [t \in {1, 2} |-> t]
==============================================================================
