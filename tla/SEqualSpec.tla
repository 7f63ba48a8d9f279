----------------------------- MODULE SEqualSpec -----------------------------
(***************************************************************************)
(* What the structural-equality engine promises: the answer of a plain    *)
(* recursive descent.  src/node/structural_equal.cc (lines 262-270) says  *)
(* the stack-based handler calls the per-type reducers "in the same order *)
(* as if we eagerly do recursive calls in SEqualReduce"; RefRun is that   *)
(* eager recursion over the object heap, with the same remap maps.        *)
(*                                                                         *)
(* The object heap is data: Type[n] is the type tag of node n, Fields[n]  *)
(* its reflected attributes in order, each a record                       *)
(*   [kind |-> "leaf", val |-> v]  a primitive attribute (compared by =)  *)
(*   [kind |-> "obj",  val |-> m]  an ObjectRef attribute (m may be NULL) *)
(*   [kind |-> "def",  val |-> m]  an ObjectRef compared with DefEqual    *)
(*   [kind |-> "any",  val |-> [tag, v]]  an ffi::Any: a type tag and a  *)
(*                                 value, a node when tag = "obj"         *)
(* and Reducer[t] the shape of the reducer registered for type t:         *)
(*   "attrs"   compares the fields, left to right                         *)
(*   "graph"   calls MarkGraphNode, then compares the fields              *)
(*   "freevar" calls MarkGraphNode, compares the fields, then is equal    *)
(*             iff map_free_vars or both sides are the same object.       *)
(*   "tensor"  an NDArray container, Fields = <<device, contiguous,       *)
(*             shape, dtype, data>>: equal when it is the same object     *)
(*             (reflexivity, section 8 law 4), a precondition failure     *)
(*             (Fatal) unless both are contiguous CPU tensors, and else   *)
(*             equal iff shape, dtype and data agree (section 4.8).       *)
(* A path is the sequence of attribute positions from the root.           *)
(***************************************************************************)
EXTENDS Naturals, Sequences, TLC

CONSTANTS Node, NULL, Type, Fields, Reducer, Roots,
          Fatal   \* the outcome of a call that fails a precondition ICHECK

VARIABLES call, result

MarksGraph(n) == Reducer[Type[n]] \in {"graph", "freevar"}
IsFreeVar(n)  == Reducer[Type[n]] = "freevar"
IsTensor(n)   == Reducer[Type[n]] = "tensor"

TensorOf(n) == [device |-> Fields[n][1].val, contiguous |-> Fields[n][2].val,
                shape |-> Fields[n][3].val, dtype |-> Fields[n][4].val,
                data |-> Fields[n][5].val]

EmptyMap == [n \in {} |-> NULL]

\* The early answers of SEqualReduce, with the maps as they stand now.
Early(l, r, lmap, rmap) ==
  CASE l = NULL /\ r = NULL     -> TRUE
    [] l = NULL \/ r = NULL     -> FALSE
    [] Type[l] # Type[r]        -> FALSE
    [] l \in DOMAIN lmap        -> lmap[l] = r
    [] r \in DOMAIN rmap        -> FALSE
    [] OTHER                    -> NULL

Fail(st, p) == [st EXCEPT !.ok = FALSE, !.mm = IF @ = NULL THEN p ELSE @]

\* Tensor leaf equality as section 4.8 states it, reflexive on one object.
RefTensor(l, r, p, st) ==
  LET a == TensorOf(l)
      b == TensorOf(r)
  IN  CASE l = r -> st
        [] ~(a.device = "cpu" /\ b.device = "cpu" /\ a.contiguous /\ b.contiguous) ->
              [Fail(st, p) EXCEPT !.fatal = TRUE]
        [] a.shape = b.shape /\ a.dtype = b.dtype /\ a.data = b.data -> st
        [] OTHER -> Fail(st, p)

(***************************************************************************)
(* Eager recursive descent.  st = [ok, lmap, rmap, mm, order]: the answer *)
(* so far, the remap maps, the first mismatch path, the pairs whose      *)
(* reducer was invoked, in invocation order, and whether a precondition  *)
(* failed.                                                                 *)
(***************************************************************************)
RECURSIVE RefReduce(_, _, _, _, _), RefFields(_, _, _, _, _, _)

RefReduce(l, r, mfv, p, st) ==
  LET e == Early(l, r, st.lmap, st.rmap)
  IN  IF e = TRUE THEN st
      ELSE IF e = FALSE THEN Fail(st, p)
      ELSE LET s0 == [st EXCEPT !.order = Append(@, <<l, r>>)]
               s1 == IF IsTensor(l) THEN RefTensor(l, r, p, s0)
                     ELSE RefFields(l, r, mfv, p, 1, s0)
               ok == s1.ok /\ (IsFreeVar(l) => (mfv \/ l = r))
           IN  IF ~ok THEN Fail(s1, p)
               ELSE IF MarksGraph(l)
                    THEN [s1 EXCEPT !.lmap = (l :> r) @@ @, !.rmap = (r :> l) @@ @]
                    ELSE s1

RefFields(l, r, mfv, p, i, st) ==
  IF ~st.ok THEN st
  ELSE IF i > Len(Fields[l]) \/ i > Len(Fields[r])
       THEN IF Len(Fields[l]) = Len(Fields[r]) THEN st ELSE Fail(st, Append(p, i))
  ELSE LET a == Fields[l][i]
           b == Fields[r][i]
           q == Append(p, i)
       IN  RefFields(l, r, mfv, p, i + 1,
             CASE a.kind = "leaf" -> IF a.val = b.val THEN st ELSE Fail(st, q)
               [] a.kind = "obj"  -> RefReduce(a.val, b.val, mfv, q, st)
               [] a.kind = "def"  -> RefReduce(a.val, b.val, TRUE, q, st)
               [] a.kind = "any"  ->
                    CASE a.val.tag # b.val.tag -> Fail(st, q)
                      [] a.val.tag = "obj"     -> RefReduce(a.val.v, b.val.v, mfv, q, st)
                      [] a.val.v = b.val.v     -> st
                      [] OTHER                 -> Fail(st, q))

RefRun(l, r, mfv) ==
  LET st0 == [ok |-> TRUE, lmap |-> EmptyMap, rmap |-> EmptyMap,
              mm |-> NULL, order |-> <<>>, fatal |-> FALSE]
  IN  IF Type[l] # Type[r] THEN Fail(st0, <<>>) ELSE RefReduce(l, r, mfv, <<>>, st0)

\* The answer of a call: TRUE, FALSE or Fatal.
RefEqual(l, r, mfv) ==
  LET st == RefRun(l, r, mfv) IN IF st.fatal THEN Fatal ELSE st.ok

(***************************************************************************)
(* The promise as a state machine: a call is made, and returns the        *)
(* answer of the recursive descent (possibly at once).                    *)
(***************************************************************************)
Calls == [lhs : Roots, rhs : Roots, mfv : BOOLEAN]

Init == call = NULL /\ result = NULL

Begin ==
  /\ call = NULL \/ result # NULL
  /\ \E c \in Calls :
       /\ call' = c
       /\ result' \in {NULL, RefEqual(c.lhs, c.rhs, c.mfv)}

Return ==
  /\ call # NULL /\ result = NULL
  /\ result' = RefEqual(call.lhs, call.rhs, call.mfv)
  /\ UNCHANGED call

\* The caller is done with the answer.
Release ==
  /\ result # NULL
  /\ call' = NULL /\ result' = NULL

Next == Begin \/ Return \/ Release

Spec == Init /\ [][Next]_<<call, result>>
=============================================================================
