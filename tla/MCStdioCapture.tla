--------------------------- MODULE MCStdioCapture ----------------------------
(* Two runs: a capture of both streams next to one that its prompt         *)
(* excludes, two captures of the same stream, from a thread and from a     *)
(* future, and a capture next to an ordinary run.                          *)
EXTENDS StdioCapture

CONSTANTS r1, r2

Option(streams, prompt, async_) == [streams |-> streams, prompt |-> prompt, async |-> async_]
Both(a, b) == [r \in Runs |-> IF r = r1 THEN a ELSE b]
MCOptions == {Both(Option({1, 2}, FALSE, TRUE), Option({2}, TRUE, TRUE)),
              Both(Option({1}, TRUE, FALSE), Option({1}, FALSE, TRUE)),
              Both(Option({2}, FALSE, TRUE), Option({}, FALSE, FALSE))}
=============================================================================
