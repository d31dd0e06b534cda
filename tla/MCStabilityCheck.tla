--------------------------- MODULE MCStabilityCheck ---------------------------
(***************************************************************************)
(* Two testcases over three entries with two classes of counts: one covers *)
(* a stable entry and one that is flaky, the other covers both stably and  *)
(* has its flaky entry elsewhere.                                          *)
(***************************************************************************)
EXTENDS StabilityCheck

CONSTANTS a, b, c, s, t

MCEntries == {a, b, c}
MCTestcases == {s, t}
MCCovers == [ x \in MCTestcases |-> IF x = s THEN [e \in MCEntries |-> IF e = a THEN 2 ELSE 0]
                                    ELSE [e \in MCEntries |-> IF e = c THEN 0 ELSE 1] ]
MCFlaky == [ x \in MCTestcases |-> IF x = s THEN {b} ELSE {c} ]
=============================================================================
