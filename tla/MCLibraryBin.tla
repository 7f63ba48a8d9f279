---------------------------- MODULE MCLibraryBin ----------------------------
(***************************************************************************)
(* Libraries for checking ProcessLibraryBin: no blob, an empty stream,    *)
(* and every blob of up to three entries over the entries below, with a  *)
(* size that matches the entries or claims one more.  The import trees    *)
(* are a well-formed one for [_lib, module], one whose child is the       *)
(* importer itself, one naming a child past the modules, one whose        *)
(* row_ptr is one entry short, and one whose row runs past child_indices. *)
(* Without a blob the Main symbol holds nothing, the function "f" or the  *)
(* missing "g"; a blob library's Main holds "f".                          *)
(***************************************************************************)
EXTENDS LibraryBin

Entry(key) == <<Tok("str", key), Tok("mod", key)>>
Tree(rp, ch) == <<Tok("str", "_import_tree"), Tok("vu64", rp), Tok("vu64", ch)>>

MCEntries ==
  { <<Tok("str", "_lib")>>, Entry("relax.VMExecutable"), Entry("metal"),
    Tree(<<0, 1, 1>>, <<1>>), Tree(<<0, 1, 1>>, <<0>>), Tree(<<0, 1, 1>>, <<2>>),
    Tree(<<0, 1>>, <<1>>), Tree(<<0, 2, 2>>, <<1>>) }

Blob(size, es) == <<Tok("u64", size)>> \o FlattenSeq(es)

MCLibs ==
  {[bin |-> b, ctx |-> TRUE, main |-> mn, funcs |-> {"f"}] :
     b \in {NULL, <<>>}, mn \in {NULL, "f", "g"}} \cup
  {[bin |-> Blob(Len(es) + d, es), ctx |-> c, main |-> "f", funcs |-> {"f"}] :
     es \in BoundedSeq(MCEntries, 3), d \in {0, 1}, c \in BOOLEAN}
=============================================================================
