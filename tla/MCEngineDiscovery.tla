-------------------------- MODULE MCEngineDiscovery --------------------------
(***************************************************************************)
(* EngineDiscovery with three callers about two engines of two projects,   *)
(* two lookups and a clock of four steps, in which the default lifetime    *)
(* and a lookup take one and the longest lifetime two.                     *)
(***************************************************************************)
EXTENDS EngineDiscovery

CONSTANTS e1, e2, a1, a2, b1

MCEngines == {e1, e2}
MCCallers == {a1, a2, b1}
MCEngineOf == [c \in MCCallers |-> IF c = b1 THEN e2 ELSE e1]
MCProjectOf == [e \in MCEngines |-> e]

\* Two ordinary ones, and one for each thing that shortens a lifetime or makes
\* a response invalid.
MCResponses ==
  LET plain == [project |-> e1, complete |-> TRUE, maxAge |-> Nothing, age |-> 0, noStore |-> FALSE]
  IN  { plain,
        [plain EXCEPT !.project = e2],
        [plain EXCEPT !.maxAge = 3],
        [plain EXCEPT !.maxAge = 2, !.age = 1],
        [plain EXCEPT !.age = Nothing],
        [plain EXCEPT !.noStore = TRUE],
        [plain EXCEPT !.complete = FALSE] }
=============================================================================
