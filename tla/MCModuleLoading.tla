---------------------------- MODULE MCModuleLoading ----------------------------
(* A main module that may import() a file and a remote module or package,  *)
(* which the file imports too; the container of the worker is narrower.    *)
EXTENDS ModuleLoading

CONSTANTS a, b, c, main, worker

MCStatic  == [m \in Modules |-> IF m = b THEN {c} ELSE {}]
MCDynamic == [m \in Modules |-> IF m = a THEN {b, c} ELSE {}]
Scheme(s) == [m \in Modules |-> IF m = c THEN s ELSE "file"]
MCSchemes == {Scheme("remote"), Scheme("npm")}
MCGrants  == [l \in Loaders |-> IF l = main THEN Modules ELSE {a, c}]
=============================================================================
