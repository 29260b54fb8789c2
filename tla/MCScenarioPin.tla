--------------------------- MODULE MCScenarioPin --------------------------
(* Two contents with as many scenarios, one with more, and one that cannot  *)
(* be loaded.                                                               *)
EXTENDS ScenarioPin

MCCountOf == [content \in Contents |-> IF content \in {"a", "b"} THEN 2 ELSE 3]
=============================================================================
