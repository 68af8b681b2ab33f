---------------------------- MODULE MCZipStream ----------------------------
(* An instance of ZipStream for model checking.                            *)
EXTENDS ZipStream

(* One file, a folder, folders and files; small objects and large ones.    *)
MCPieces == [o \in {"a", "b", "c"} |-> IF o = "a" THEN 0 ELSE IF o = "b" THEN 1 ELSE 2]
Folder(os) == [prefix |-> TRUE, objects |-> os]
File(o) == [prefix |-> FALSE, objects |-> <<o>>]
MCSelections ==
  {<<File("b")>>, <<Folder(<<"a", "b", "c">>)>>,
   <<Folder(<<"c", "a">>), Folder(<<"b">>)>>,
   <<File("a"), Folder(<<"b">>), File("c")>>,
   <<Folder(<<"a">>), File("b"), Folder(<<>>), File("c")>>}
=============================================================================
