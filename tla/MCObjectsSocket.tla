-------------------------- MODULE MCObjectsSocket --------------------------
(* Instances of ObjectsSocket for model checking. *)
EXTENDS ObjectsSocket

(* Nothing, a full batch and one more, an error in the middle, the prefix. *)
MCContents == {<<>>, <<"object", "object", "object">>,
               <<"object", "error", "object">>, <<"self", "object">>}
MCFewContents == {<<>>, <<"object", "object", "object">>, <<"error", "self">>}
=============================================================================
