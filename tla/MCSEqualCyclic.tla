--------------------------- MODULE MCSEqualCyclic ---------------------------
(***************************************************************************)
(* A heap with a cycle: a graph node whose body refers back to itself     *)
(* (loop = fn(x) { loop }), compared with itself and with a one-step      *)
(* unrolling of itself (loop2 = fn(x) { loop }).                          *)
(***************************************************************************)
EXTENDS SEqual

CycHeap ==
  "x"     :> <<"Var", <<>>>> @@
  "px"    :> <<"Arr", <<[kind |-> "obj", val |-> "x"]>>>> @@
  "loop"  :> <<"Fn", <<[kind |-> "def", val |-> "px"], [kind |-> "obj", val |-> "loop"]>>>> @@
  "loop2" :> <<"Fn", <<[kind |-> "def", val |-> "px"], [kind |-> "obj", val |-> "loop"]>>>>

CycNode    == DOMAIN CycHeap
CycType    == [n \in CycNode |-> CycHeap[n][1]]
CycFields  == [n \in CycNode |-> CycHeap[n][2]]
CycReducer == [t \in {"Var", "Arr", "Fn"} |->
                 CASE t = "Var" -> "freevar" [] t = "Fn" -> "graph" [] OTHER -> "attrs"]
CycRoots   == {"loop", "loop2"}
=============================================================================
