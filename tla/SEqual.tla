------------------------------- MODULE SEqual -------------------------------
(***************************************************************************)
(* The non-recursive structural-equality handler of                       *)
(* src/node/structural_equal.cc: SEqualHandlerDefault::Impl (its Equal,   *)
(* SEqualReduce, DispatchSEqualReduce, CheckResult and the RunTasks loop) *)
(* and the SEqualReducer helpers the per-type reducers call.              *)
(*                                                                         *)
(* One step of the model is one call of Equal up to the first RunTasks    *)
(* iteration, or one iteration of the RunTasks loop.  A per-type reducer  *)
(* runs to completion inside the iteration that expands its task: it      *)
(* only pushes pending tasks and records mismatches, so it is the pure    *)
(* operator Reduce.  pending_tasks_ is local to that step: it is empty    *)
(* between iterations, except after a failed dispatch, when RunTasks      *)
(* returns and the next Equal clears it.                                  *)
(*                                                                         *)
(* The heap (Node, Type, Fields, Reducer) is described in SEqualSpec.     *)
(* A path is a sequence of attribute positions; the lhs and rhs paths of  *)
(* an ObjectPathPair are extended in lockstep with the same attribute of  *)
(* two nodes of the same type (GetPathsForAttrs), so one sequence stands  *)
(* for the pair.                                                          *)
(***************************************************************************)
EXTENDS Naturals, Sequences, FiniteSets, SequencesExt, TLC

CONSTANTS Node, NULL, Type, Fields, Reducer, Roots, Fatal,
          AllowReuse     \* some caller calls Equal twice on one handler

VARIABLES
  phase,              \* "idle" | "running" | "done" | "raised" (assert mode)
                      \* | "fatal" (a precondition ICHECK failed)
  opts,               \* handler options: [assert, tracing, defer]
  lhsRoot, rhsRoot,   \* root_lhs_, root_rhs_
  map_free_vars,      \* the map_free_vars argument of Equal
  task_stack,         \* task_stack_, top of stack = last element
  equal_map_lhs,      \* equal_map_lhs_
  equal_map_rhs,      \* equal_map_rhs_
  allow_push_to_stack,\* allow_push_to_stack_
  first_mismatch,     \* *first_mismatch_ (the caller's slot)
  result,             \* the value Equal returned, NULL while running
  dispatched          \* history: pairs whose reducer was invoked, in order

vars == <<phase, opts, lhsRoot, rhsRoot, map_free_vars, task_stack,
          equal_map_lhs, equal_map_rhs, allow_push_to_stack, first_mismatch,
          result, dispatched>>

Abs == INSTANCE SEqualSpec WITH
         call   <- IF phase = "idle" THEN NULL
                   ELSE [lhs |-> lhsRoot, rhs |-> rhsRoot, mfv |-> map_free_vars],
         result <- CASE phase \in {"done", "raised"} -> result
                      [] phase = "fatal"              -> Fatal
                      [] OTHER                        -> NULL

MarksGraph(n) == Abs!MarksGraph(n)
IsFreeVar(n)  == Abs!IsFreeVar(n)
IsTensor(n)   == Abs!IsTensor(n)
TensorOf(n)   == Abs!TensorOf(n)

(***************************************************************************)
(* The handlers the registered entry points construct (lines 602-630):    *)
(* node.StructuralEqual (defer_fails = assert_mode, tracing on),          *)
(* node.GetFirstStructuralMismatch, and StructuralEqual::operator().      *)
(***************************************************************************)
EntryPoints ==
  {[assert |-> a, tracing |-> TRUE, defer |-> a] : a \in BOOLEAN}
  \cup {[assert |-> FALSE, tracing |-> TRUE,  defer |-> TRUE],
        [assert |-> FALSE, tracing |-> FALSE, defer |-> FALSE]}

\* Task constructors (lines 528-536).
NewTask(l, r, mfv, p) ==
  [lhs |-> l, rhs |-> r, paths |-> p, mfv |-> mfv,
   expanded |-> FALSE, graph |-> FALSE, force |-> FALSE]
ForceFailTask(p) ==
  [lhs |-> NULL, rhs |-> NULL, paths |-> p, mfv |-> FALSE,
   expanded |-> FALSE, graph |-> FALSE, force |-> TRUE]

\* Record paths in the slot unless one is already recorded.
Record(mm, p) == IF opts.tracing /\ mm = NULL THEN p ELSE mm

\* Mutant: CheckResult forgets to record the current paths.
CheckResultNoRecord(ok, mm, p) == mm

\* CheckResult (lines 412-416): a false result records the current paths.
CheckResult(ok, mm, p) == IF ~ok THEN Record(mm, p) ELSE mm

\* Where a failed call of Equal ends: LOG(FATAL) in assert mode (451).
Returned(ok) == IF ~ok /\ opts.assert THEN "raised" ELSE "done"

EarlyResult(l, r) ==
  CASE l = NULL /\ r = NULL          -> TRUE
    [] l = NULL \/ r = NULL          -> FALSE
    [] Type[l] # Type[r]             -> FALSE
    [] l \in DOMAIN equal_map_lhs    -> equal_map_lhs[l] = r
    [] r \in DOMAIN equal_map_rhs    -> FALSE
    [] OTHER                         -> NULL

(***************************************************************************)
(* Handler SEqualReduce (lines 298-328), reached through ObjectAttrsEqual *)
(* or the fast path of SEqualReducer::operator() / DefEqual (88-102,      *)
(* 242-260).  acc = [ok, pend, mm]: the reducer's answer so far, the      *)
(* pending tasks and the mismatch slot.                                   *)
(***************************************************************************)
SEqualReduceCall(l, r, mfv, p, acc) ==
  LET e == EarlyResult(l, r)
  IN  CASE e = NULL -> [acc EXCEPT !.pend = Append(@, NewTask(l, r, mfv, p))]
        [] e = TRUE -> acc
        [] opts.tracing /\ opts.defer /\ p # NULL ->
              [acc EXCEPT !.pend = Append(@, ForceFailTask(p))]
        [] OTHER    -> [acc EXCEPT !.ok = FALSE, !.mm = CheckResult(FALSE, @, p)]

\* Mutant: attribute positions counted from 0.
AttrPathsZeroBased(t, i) == IF t.paths = NULL THEN NULL ELSE Append(t.paths, i - 1)

\* Paths of the i-th attribute of the task's pair (GetPathsForAttrs).
AttrPaths(t, i) == IF t.paths = NULL THEN NULL ELSE Append(t.paths, i)

\* GetAttrPath (lines 69-72) for an address that is no attribute of the
\* object (a local copy, an element of the shape buffer): the reflection
\* lookup finds no key and Attr(None) appends a Missing segment (NULL).
MissingAttrPaths(t) == IF t.paths = NULL THEN NULL ELSE Append(t.paths, NULL)

\* SEqualReducer::AnyEqual (lines 174-203) as reducers call it, without
\* paths: a type-index or bitwise mismatch records nothing; an object is
\* compared through operator() (88-94), whose ObjectAttrsEqual takes the
\* attribute paths of the local ObjectRef copies (245-257).
AnyEqual(a, b, t, acc) ==
  CASE a.tag # b.tag -> [acc EXCEPT !.ok = FALSE]
    [] a.tag = "obj" -> SEqualReduceCall(a.v, b.v, t.mfv, MissingAttrPaths(t), acc)
    [] a.v = b.v     -> acc
    [] OTHER         -> [acc EXCEPT !.ok = FALSE]

\* One attribute comparison of a reducer: CompareAttributeValues (116-132)
\* for a primitive, operator() for an ObjectRef, DefEqual for "def".
CompareField(t, i, acc) ==
  LET a == Fields[t.lhs][i]
      b == Fields[t.rhs][i]
  IN  CASE a.kind = "leaf" ->
             IF a.val = b.val THEN acc
             ELSE [acc EXCEPT !.ok = FALSE, !.mm = Record(@, AttrPaths(t, i))]
        [] a.kind = "obj" -> SEqualReduceCall(a.val, b.val, t.mfv, AttrPaths(t, i), acc)
        [] a.kind = "def" -> SEqualReduceCall(a.val, b.val, TRUE, AttrPaths(t, i), acc)
        [] a.kind = "any" -> AnyEqual(a.val, b.val, t, acc)

\* A reducer's `&&` chain over the attributes; a length difference (of an
\* array) is a mismatch at the first missing position.
RECURSIVE ReduceFields(_, _, _)
ReduceFields(t, i, acc) ==
  IF ~acc.ok THEN acc
  ELSE IF i > Len(Fields[t.lhs]) \/ i > Len(Fields[t.rhs])
       THEN IF Len(Fields[t.lhs]) = Len(Fields[t.rhs]) THEN acc
            ELSE [acc EXCEPT !.ok = FALSE, !.mm = Record(@, AttrPaths(t, i))]
       ELSE ReduceFields(t, i + 1, CompareField(t, i, acc))

\* Mutant: the CPU and contiguity ICHECKs run before the identity test.
NDArrayEqualChecksFirst(t, acc) ==
  LET a == TensorOf(t.lhs)
      b == TensorOf(t.rhs)
  IN  CASE ~(a.device = "cpu" /\ b.device = "cpu" /\ a.contiguous /\ b.contiguous) ->
              [acc EXCEPT !.ok = FALSE, !.fatal = TRUE]
        [] t.lhs = t.rhs -> acc
        [] Len(a.shape) # Len(b.shape) -> [acc EXCEPT !.ok = FALSE]
        [] a.shape # b.shape ->
              [acc EXCEPT !.ok = FALSE, !.mm = Record(@, MissingAttrPaths(t))]
        [] OTHER -> [acc EXCEPT !.ok = a.dtype = b.dtype /\ a.data = b.data]

\* NDArrayEqual (lines 632-659) with compare_data, as NDArrayContainerTrait
\* calls it (661-665).  The same object is equal before the CPU and
\* contiguity ICHECKs are reached.  Dimensions are compared as int64 leaves
\* without paths: on a mismatch CompareAttributeValues records the path of
\* the shape element's address, a Missing segment.  A rank, dtype or data
\* difference returns false without recording.
NDArrayEqual(t, acc) ==
  LET a == TensorOf(t.lhs)
      b == TensorOf(t.rhs)
  IN  CASE t.lhs = t.rhs -> acc
        [] ~(a.device = "cpu" /\ b.device = "cpu" /\ a.contiguous /\ b.contiguous) ->
              [acc EXCEPT !.ok = FALSE, !.fatal = TRUE]
        [] Len(a.shape) # Len(b.shape) -> [acc EXCEPT !.ok = FALSE]
        [] a.shape # b.shape ->
              [acc EXCEPT !.ok = FALSE, !.mm = Record(@, MissingAttrPaths(t))]
        [] OTHER -> [acc EXCEPT !.ok = a.dtype = b.dtype /\ a.data = b.data]

\* The per-type reducer; a free variable is FreeVarEqualImpl.
Reduce(t) ==
  LET acc0 == [ok |-> TRUE, pend |-> <<>>, mm |-> first_mismatch, fatal |-> FALSE,
               invoked |-> TRUE]
      acc  == IF IsTensor(t.lhs) THEN NDArrayEqual(t, acc0) ELSE ReduceFields(t, 1, acc0)
  IN  [acc EXCEPT !.ok = @ /\ (IsFreeVar(t.lhs) => (t.mfv \/ t.lhs = t.rhs))]

\* The CheckResult that DispatchSEqualReduce returns through (408).
Checked(res, p) == [res EXCEPT !.mm = CheckResult(res.ok, @, p)]

\* Mutant: dispatch skips the lhs-map check (lines 392-395).
DispatchNoLhsCheck(t) ==
  LET res == CASE t.rhs \in DOMAIN equal_map_rhs ->
                    [ok |-> FALSE, pend |-> <<>>, mm |-> first_mismatch, fatal |-> FALSE,
                     invoked |-> FALSE]
               [] OTHER -> Reduce(t)
  IN  Checked(res, t.paths)

\* Mutant: dispatch skips the rhs-map check (line 396).
DispatchNoRhsCheck(t) ==
  LET res == CASE t.lhs \in DOMAIN equal_map_lhs ->
                    [ok |-> equal_map_lhs[t.lhs] = t.rhs, pend |-> <<>>,
                     mm |-> first_mismatch, fatal |-> FALSE,
                     invoked |-> FALSE]
               [] OTHER -> Reduce(t)
  IN  Checked(res, t.paths)

\* DispatchSEqualReduce (lines 387-408), CheckResult included.
Dispatch(t) ==
  LET res == CASE t.lhs \in DOMAIN equal_map_lhs ->
                    [ok |-> equal_map_lhs[t.lhs] = t.rhs, pend |-> <<>>,
                     mm |-> first_mismatch, fatal |-> FALSE,
                     invoked |-> FALSE]
               [] t.rhs \in DOMAIN equal_map_rhs ->
                    [ok |-> FALSE, pend |-> <<>>, mm |-> first_mismatch, fatal |-> FALSE,
                     invoked |-> FALSE]
               [] OTHER -> Reduce(t)
  IN  Checked(res, t.paths)

Top == task_stack[Len(task_stack)]

(***************************************************************************)
(* Equal (lines 350-384) on a handler with allow_push as given.  A call   *)
(* that would fail ICHECK(allow_push_to_stack_) (380) has no successor.   *)
(***************************************************************************)
Equal(l, r, mfv, mm0) ==
  LET p == IF opts'.tracing THEN <<>> ELSE NULL
  IN  /\ lhsRoot' = l /\ rhsRoot' = r /\ map_free_vars' = mfv
      /\ equal_map_lhs' = Abs!EmptyMap /\ equal_map_rhs' = Abs!EmptyMap
      /\ dispatched' = <<>>
      /\ IF Type[l] # Type[r]
         THEN /\ task_stack' = <<>>
              /\ result' = FALSE
              /\ first_mismatch' = IF opts'.tracing /\ mm0 = NULL THEN p ELSE mm0
              /\ phase' = IF opts'.assert THEN "raised" ELSE "done"
         ELSE /\ allow_push_to_stack'     \* ICHECK at line 380
              /\ task_stack' = <<NewTask(l, r, mfv, p)>>
              /\ result' = NULL
              /\ first_mismatch' = mm0
              /\ phase' = "running"

\* A registered entry point: a fresh handler and a fresh slot.
NewCall ==
  /\ phase = "idle"
  /\ \E o \in EntryPoints, l, r \in Roots, mfv \in BOOLEAN :
       /\ opts' = o
       /\ allow_push_to_stack' = TRUE
       /\ Equal(l, r, mfv, NULL)

\* Equal called again on the same handler (SEqualHandlerDefault::Equal).
ReuseEqual ==
  /\ AllowReuse /\ phase = "done"
  /\ \E l, r \in Roots, mfv \in BOOLEAN :
       /\ UNCHANGED <<opts, allow_push_to_stack>>
       /\ Equal(l, r, mfv, first_mismatch)

(***************************************************************************)
(* The iterations of RunTasks (lines 460-506).                            *)
(***************************************************************************)
RunUnchanged == UNCHANGED <<opts, lhsRoot, rhsRoot, map_free_vars>>

\* A deferred failure reaches the top of the stack (465-467).
ForceFail ==
  /\ phase = "running" /\ task_stack # <<>> /\ Top.force
  /\ result' = FALSE
  /\ first_mismatch' = CheckResult(FALSE, first_mismatch, Top.paths)
  /\ phase' = Returned(FALSE)
  /\ RunUnchanged
  /\ UNCHANGED <<task_stack, equal_map_lhs, equal_map_rhs, allow_push_to_stack, dispatched>>

\* Mutant: the finished task is never popped.
PostNoPop ==
  /\ phase = "running" /\ task_stack # <<>>
  /\ ~Top.force /\ Top.expanded
  /\ IF Top.graph
     THEN /\ equal_map_lhs' = (Top.lhs :> Top.rhs) @@ equal_map_lhs
          /\ equal_map_rhs' = (Top.rhs :> Top.lhs) @@ equal_map_rhs
     ELSE UNCHANGED <<equal_map_lhs, equal_map_rhs>>
  /\ task_stack' = task_stack
  /\ RunUnchanged
  /\ UNCHANGED <<phase, result, first_mismatch, allow_push_to_stack, dispatched>>

\* Mutant: only the lhs map records a graph-equal pair.
PostNoRhsInsert ==
  /\ phase = "running" /\ task_stack # <<>>
  /\ ~Top.force /\ Top.expanded
  /\ IF Top.graph
     THEN /\ equal_map_lhs' = (Top.lhs :> Top.rhs) @@ equal_map_lhs
          /\ UNCHANGED equal_map_rhs
     ELSE UNCHANGED <<equal_map_lhs, equal_map_rhs>>
  /\ task_stack' = Front(task_stack)
  /\ RunUnchanged
  /\ UNCHANGED <<phase, result, first_mismatch, allow_push_to_stack, dispatched>>

\* Children done: record the pair if graph-equal, pop (469-483).
Post ==
  /\ phase = "running" /\ task_stack # <<>>
  /\ ~Top.force /\ Top.expanded
  /\ IF Top.graph
     THEN /\ equal_map_lhs' = (Top.lhs :> Top.rhs) @@ equal_map_lhs
          /\ equal_map_rhs' = (Top.rhs :> Top.lhs) @@ equal_map_rhs
     ELSE UNCHANGED <<equal_map_lhs, equal_map_rhs>>
  /\ task_stack' = Front(task_stack)
  /\ RunUnchanged
  /\ UNCHANGED <<phase, result, first_mismatch, allow_push_to_stack, dispatched>>

\* The effect of expanding task t whose dispatch answered res; the pending
\* tasks are pushed reversed or in enqueue order.
ExpandWith(t, res, reversed) ==
  LET t1   == [t EXCEPT !.expanded = TRUE, !.graph = res.invoked /\ MarksGraph(t.lhs)]
      kept == Front(task_stack) \o <<t1>>
  IN  /\ first_mismatch' = res.mm
      /\ dispatched' = IF res.invoked THEN Append(dispatched, <<t.lhs, t.rhs>>)
                       ELSE dispatched
      /\ \/ /\ res.ok
            /\ task_stack' = kept \o (IF reversed THEN Reverse(res.pend) ELSE res.pend)
            /\ allow_push_to_stack' = TRUE
            /\ UNCHANGED <<phase, result>>
         \/ /\ ~res.ok /\ ~res.fatal
            /\ task_stack' = kept
            /\ allow_push_to_stack' = FALSE
            /\ result' = FALSE
            /\ phase' = Returned(FALSE)
         \/ /\ res.fatal
            /\ task_stack' = kept
            /\ allow_push_to_stack' = FALSE
            /\ UNCHANGED result
            /\ phase' = "fatal"

\* Mutant: pending tasks pushed in enqueue order, not reversed.
ExpandForwardPush ==
  /\ phase = "running" /\ task_stack # <<>>
  /\ ~Top.force /\ ~Top.expanded
  /\ ExpandWith(Top, Dispatch(Top), FALSE)
  /\ RunUnchanged
  /\ UNCHANGED <<equal_map_lhs, equal_map_rhs>>

\* Expand the top task: dispatch its reducer, then push the pending tasks
\* in reverse so the first one is expanded first (484-503).  An ICHECK
\* failing inside the reducer propagates with pushes still forbidden.
Expand ==
  /\ phase = "running" /\ task_stack # <<>>
  /\ ~Top.force /\ ~Top.expanded
  /\ ExpandWith(Top, Dispatch(Top), TRUE)
  /\ RunUnchanged
  /\ UNCHANGED <<equal_map_lhs, equal_map_rhs>>

\* The stack is empty: RunTasks returns true (505).
Finish ==
  /\ phase = "running" /\ task_stack = <<>>
  /\ result' = TRUE /\ phase' = "done"
  /\ RunUnchanged
  /\ UNCHANGED <<task_stack, equal_map_lhs, equal_map_rhs, allow_push_to_stack,
                 first_mismatch, dispatched>>

Init ==
  /\ phase = "idle"
  /\ opts = [assert |-> FALSE, tracing |-> FALSE, defer |-> FALSE]
  /\ lhsRoot = NULL /\ rhsRoot = NULL /\ map_free_vars = FALSE
  /\ task_stack = <<>>
  /\ equal_map_lhs = Abs!EmptyMap /\ equal_map_rhs = Abs!EmptyMap
  /\ allow_push_to_stack = TRUE
  /\ first_mismatch = NULL
  /\ result = NULL
  /\ dispatched = <<>>

\* The entry point returns, or its exception propagates, and the temporary
\* handler it constructed (lines 611-628) is destroyed with its slot.
Release ==
  /\ phase \in {"done", "raised", "fatal"}
  /\ phase' = "idle"
  /\ opts' = [assert |-> FALSE, tracing |-> FALSE, defer |-> FALSE]
  /\ lhsRoot' = NULL /\ rhsRoot' = NULL /\ map_free_vars' = FALSE
  /\ task_stack' = <<>>
  /\ equal_map_lhs' = Abs!EmptyMap /\ equal_map_rhs' = Abs!EmptyMap
  /\ allow_push_to_stack' = TRUE
  /\ first_mismatch' = NULL /\ result' = NULL /\ dispatched' = <<>>

RunStep == ForceFail \/ Post \/ Expand \/ Finish

Next == NewCall \/ ReuseEqual \/ RunStep \/ Release

\* RunTasks is a loop that runs until it returns: weak fairness on its steps.
Spec == Init /\ [][Next]_vars /\ WF_vars(RunStep)
-----------------------------------------------------------------------------
(***************************************************************************)
(* Properties                                                              *)
(***************************************************************************)
IsPath(p) == p \in Seq((Nat \ {0}) \cup {NULL})

TaskOK(t) ==
  /\ t.lhs \in Node \cup {NULL} /\ t.rhs \in Node \cup {NULL}
  /\ t.paths = NULL \/ IsPath(t.paths)
  /\ {t.mfv, t.expanded, t.graph, t.force} \subseteq BOOLEAN

\* Every variable holds a value of its kind; attribute positions are 1-based
\* and NULL is a Missing segment.
TypeOK ==
  /\ phase \in {"idle", "running", "done", "raised", "fatal"}
  /\ opts \in [assert : BOOLEAN, tracing : BOOLEAN, defer : BOOLEAN]
  /\ \A i \in 1..Len(task_stack) : TaskOK(task_stack[i])
  /\ DOMAIN equal_map_lhs \subseteq Node /\ DOMAIN equal_map_rhs \subseteq Node
  /\ allow_push_to_stack \in BOOLEAN
  /\ first_mismatch = NULL \/ IsPath(first_mismatch)
  /\ result \in BOOLEAN \cup {NULL}

RefNow == Abs!RefRun(lhsRoot, rhsRoot, map_free_vars)

\* node.GetFirstStructuralMismatch asserts (line 622) that, with path
\* tracing, Equal returns false exactly when a mismatch path was recorded:
\* every way a false result arises (leaf, early answer, deferred failure,
\* reducer) must fill the slot, and none that ends in true may.
ResultMatchesMismatchSlot ==
  phase \in {"done", "raised"} /\ opts.tracing
    => (result = FALSE <=> first_mismatch # NULL)

\* The ICHECK in RunTasks (line 476): when a task's children are done, an
\* existing lhs entry of the remap map already names this task's rhs.  It
\* relies on DispatchSEqualReduce re-checking the maps for a pair pushed
\* before an earlier sibling mapped its lhs.
PostStepConsistent ==
  phase = "running" /\ task_stack # <<>> /\ Top.expanded /\ ~Top.force
  /\ Top.lhs \in DOMAIN equal_map_lhs
    => equal_map_lhs[Top.lhs] = Top.rhs

\* equal_map_lhs_ and equal_map_rhs_ stay inverse bijections: no rhs node
\* is the image of two lhs nodes, although line 481 overwrites the rhs map
\* without checking.
MapsInverse ==
  /\ DOMAIN equal_map_rhs = {equal_map_lhs[l] : l \in DOMAIN equal_map_lhs}
  /\ \A l \in DOMAIN equal_map_lhs : equal_map_rhs[equal_map_lhs[l]] = l

\* The comment at lines 268-269: reducers run in the order eager recursive
\* calls would run them.  The reducers invoked so far are a prefix of the
\* recursive order, and all of it when the answer is true; this is what
\* the reverse push of pending tasks (lines 499-502) is for.
DispatchOrderIsRecursive ==
  phase # "idle" =>
    /\ IsPrefix(dispatched, RefNow.order)
    /\ (phase = "done" /\ result = TRUE => dispatched = RefNow.order)

Termination == phase = "running" ~> phase \in {"done", "raised", "fatal"}

\* Section 8.9 of the spec: Equal terminates within O(|nodes|) reducer
\* invocations, also on graphs with cycles.
ReducerCallsBounded == Len(dispatched) <= Cardinality(Node) * Cardinality(Node)

\* Section 8 law 4 of the spec: Equal(G, G) is true for every graph and
\* either map_free_vars.  The handler has no same-object shortcut: it
\* relies on DefEqual remapping each parameter to itself, on
\* FreeVarEqualImpl accepting the same variable, and on NDArrayEqual
\* testing identity before its CPU and contiguity ICHECKs (line 634), so a
\* GPU tensor compared with itself does not fail the precondition.
EqualReflexive ==
  phase \in {"done", "raised", "fatal"} /\ lhsRoot = rhsRoot
    => phase = "done" /\ result = TRUE

\* Equal resets the handler's stacks and maps on entry (lines 351-354), so
\* a handler is meant to be called again; its ICHECK(allow_push_to_stack_)
\* (line 380) then needs every return of Equal to leave pushes allowed.
ReturnLeavesHandlerReusable == phase = "done" => allow_push_to_stack
=============================================================================
