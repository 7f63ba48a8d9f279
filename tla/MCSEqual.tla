------------------------------ MODULE MCSEqual ------------------------------
(***************************************************************************)
(* A small object heap for SEqual: two free variables shared by both      *)
(* sides, integer immediates, casts (an object attribute followed by a    *)
(* primitive one), additions, parameter arrays and functions whose params *)
(* are compared with DefEqual and which are graph nodes, as in relax.     *)
(*   f1  = fn(x, y) { x + y }      f2 = fn(y, x) { x + y }                 *)
(*   f3  = fn(y, x) { y + x }      f4 = fn(x) { x + 1 }                    *)
(*   f1b = a second object equal in structure to f1                        *)
(*   t11 = [f1, f1]                t1b = [f1, f1b]                         *)
(* Tensors (NDArray containers) <<device, contiguous, shape, dtype, data>>:*)
(*   ta = cpu [2] f32 d1, tb = a copy of ta, tc differs in data, td in a  *)
(*   dimension, te in rank, tf in dtype; tg lives on a GPU and th is not  *)
(*   contiguous.  ka, kg = constants holding ta and tg.                   *)
(* Prim values holding an ffi::Any: u1 = int 1, u2 = float 1 (another     *)
(* type index), uc = the object c1, ud = the object c2.                   *)
(***************************************************************************)
EXTENDS SEqual

Leaf(v) == [kind |-> "leaf", val |-> v]
Obj(n)  == [kind |-> "obj",  val |-> n]
Def(n)  == [kind |-> "def",  val |-> n]
AnyVal(tag, v) == [kind |-> "any", val |-> [tag |-> tag, v |-> v]]
Tensor(dev, contig, shape, dtype, data) ==
  <<"Tensor", <<Leaf(dev), Leaf(contig), Leaf(shape), Leaf(dtype), Leaf(data)>>>>

MCHeap ==
  "x"   :> <<"Var", <<>>>> @@
  "y"   :> <<"Var", <<>>>> @@
  "i1"  :> <<"Int", <<Leaf("i32"), Leaf(1)>>>> @@
  "i2"  :> <<"Int", <<Leaf("i32"), Leaf(2)>>>> @@
  "j1"  :> <<"Int", <<Leaf("i64"), Leaf(1)>>>> @@
  "c1"  :> <<"Cast", <<Obj("i1"), Leaf("f32")>>>> @@
  "c2"  :> <<"Cast", <<Obj("i2"), Leaf("f16")>>>> @@
  "axy" :> <<"Add", <<Obj("x"), Obj("y")>>>> @@
  "ayx" :> <<"Add", <<Obj("y"), Obj("x")>>>> @@
  "ax1" :> <<"Add", <<Obj("x"), Obj("i1")>>>> @@
  "pxy" :> <<"Arr", <<Obj("x"), Obj("y")>>>> @@
  "pyx" :> <<"Arr", <<Obj("y"), Obj("x")>>>> @@
  "px"  :> <<"Arr", <<Obj("x")>>>> @@
  "f1"  :> <<"Fn", <<Def("pxy"), Obj("axy")>>>> @@
  "f1b" :> <<"Fn", <<Def("pxy"), Obj("axy")>>>> @@
  "f2"  :> <<"Fn", <<Def("pyx"), Obj("axy")>>>> @@
  "f3"  :> <<"Fn", <<Def("pyx"), Obj("ayx")>>>> @@
  "f4"  :> <<"Fn", <<Def("px"), Obj("ax1")>>>> @@
  "t11" :> <<"Arr", <<Obj("f1"), Obj("f1")>>>> @@
  "t1b" :> <<"Arr", <<Obj("f1"), Obj("f1b")>>>> @@
  "ta"  :> Tensor("cpu", TRUE,  <<2>>,    "f32", "d1") @@
  "tb"  :> Tensor("cpu", TRUE,  <<2>>,    "f32", "d1") @@
  "tc"  :> Tensor("cpu", TRUE,  <<2>>,    "f32", "d2") @@
  "td"  :> Tensor("cpu", TRUE,  <<3>>,    "f32", "d1") @@
  "te"  :> Tensor("cpu", TRUE,  <<2, 1>>, "f32", "d1") @@
  "tf"  :> Tensor("cpu", TRUE,  <<2>>,    "f16", "d1") @@
  "tg"  :> Tensor("gpu", TRUE,  <<2>>,    "f32", "d1") @@
  "th"  :> Tensor("cpu", FALSE, <<2>>,    "f32", "d1") @@
  "ka"  :> <<"Const", <<Obj("ta")>>>> @@
  "kg"  :> <<"Const", <<Obj("tg")>>>> @@
  "u1"  :> <<"Prim", <<AnyVal("int", 1)>>>> @@
  "u2"  :> <<"Prim", <<AnyVal("float", 1)>>>> @@
  "uc"  :> <<"Prim", <<AnyVal("obj", "c1")>>>> @@
  "ud"  :> <<"Prim", <<AnyVal("obj", "c2")>>>>

MCNode    == DOMAIN MCHeap
MCType    == [n \in MCNode |-> MCHeap[n][1]]
MCFields  == [n \in MCNode |-> MCHeap[n][2]]
MCReducer == [t \in {"Var", "Int", "Cast", "Add", "Arr", "Fn", "Tensor", "Const", "Prim"} |->
                CASE t = "Var"    -> "freevar"
                  [] t = "Fn"     -> "graph"
                  [] t = "Tensor" -> "tensor"
                  [] OTHER     -> "attrs"]

\* Roots offered to Equal: pairs of these cover every scenario above.
MCRoots == {"x", "y", "c1", "c2", "i1", "j1", "px", "pxy",
            "f1", "f2", "f3", "f4", "t11", "t1b",
            "ta", "tb", "tc", "td", "te", "tf", "tg", "th", "ka", "kg",
            "u1", "u2", "uc", "ud"}

\* Roots for the runs that reuse one handler across calls.
MCReuseRoots == {"x", "y", "c1", "c2", "f1", "f2", "f3", "t11", "t1b",
                 "ta", "tc", "tg", "kg", "uc", "ud"}

\* Scenario S3 of the spec (section 8): with map_free_vars the functions
\* fn(x, y) { x + y } and fn(y, x) { x + y } over shared x, y are equal.
SpecS3RemapEqual ==
  phase = "done" /\ lhsRoot = "f1" /\ rhsRoot = "f2" /\ map_free_vars
    => result = TRUE

\* Same-typed nodes have attributes of the same kinds at each position.
ASSUME \A m, n \in MCNode :
         MCType[m] = MCType[n] =>
           \A i \in 1..Len(MCFields[m]) :
             i <= Len(MCFields[n]) => MCFields[m][i].kind = MCFields[n][i].kind
=============================================================================
