--------------------------- MODULE MCDeletePipeline ---------------------------
(* Instances of DeletePipeline for model checking: an object "a", which has *)
(* an older version, an object "ab", whose name starts like it, an object   *)
(* "aba", whose name also ends like it, and a folder "d/" with an object    *)
(* "d/x".                                                                   *)
EXTENDS DeletePipeline

CONSTANTS a, ab, aba, d, dx, new, old

MCItems == {[key |-> a, version |-> new, latest |-> TRUE],
            [key |-> a, version |-> old, latest |-> FALSE],
            [key |-> aba, version |-> new, latest |-> TRUE],
            [key |-> aba, version |-> old, latest |-> FALSE],
            [key |-> dx, version |-> new, latest |-> TRUE]}
MCFewItems == {i \in MCItems : i.key # aba}
              \cup {[key |-> ab, version |-> new, latest |-> TRUE]}
MCUnder == {<<a, a>>, <<a, ab>>, <<a, aba>>, <<d, dx>>}
MCEndsWith == {<<a, a>>, <<a, aba>>}
=============================================================================
