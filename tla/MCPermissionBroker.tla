-------------------------- MODULE MCPermissionBroker --------------------------
(* Two runs with workers next to a third thread that captures or installs, *)
(* and two installations next to one run.                                  *)
EXTENDS PermissionBroker

CONSTANTS r1, r2, r3, w1, w2

Ask3(a, b, c) == [r \in Runs |-> IF r = r1 THEN a ELSE IF r = r2 THEN b ELSE c]
MCAsks == {Ask3("run", "run", "hook"), Ask3("run", "hook", "broker"),
           Ask3("run", "hook", "capture"), Ask3("capture", "run", "broker")}
MCOwners == {[w \in Workers |-> r1], [w \in Workers |-> IF w = w1 THEN r1 ELSE r2]}
=============================================================================
