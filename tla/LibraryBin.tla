----------------------------- MODULE LibraryBin -----------------------------
(***************************************************************************)
(* Loading a compiled library, src/runtime/library_module.cc:             *)
(* CreateModuleFromLibrary and the ProcessLibraryBin it runs on the       *)
(* library's embedded __tvm_ffi__library_bin blob.  The blob lists the    *)
(* library's modules: "_lib" (the library itself), "_import_tree" (the    *)
(* import relation in CSR form: row_ptr and child_indices) and the        *)
(* binary modules, each read by the loader registered for its type key.   *)
(*                                                                         *)
(* The stream is a sequence of tokens, one per dmlc Read; the blob's      *)
(* 8-byte length prefix (lines 120-127) is taken to delimit it exactly.   *)
(* Module slots are 1-based positions in `modules`; Fresh is the          *)
(* LibraryModuleNode the old-format path creates (line 159).  A read      *)
(* outside row_ptr or child_indices is undefined behaviour: "oob".        *)
(***************************************************************************)
EXTENDS Integers, Sequences, SequencesExt

CONSTANTS
  NULL,
  Fresh,    \* the LibraryModuleNode n of lines 159 and 185
  Keys,     \* type keys with a registered runtime.module.loadbinary_ loader
  Main,     \* runtime::symbol::tvm_module_main
  Names,    \* other symbol names a caller may look up
  Libs      \* libraries: [bin |-> NULL or a blob, ctx |-> has the ctx symbol,
            \*   main |-> NULL or the name the Main symbol holds,
            \*   funcs |-> the function symbols]

VARIABLES
  phase,    \* "idle", or "read": inside the entry loop of ProcessLibraryBin
  lib,      \* the library being loaded
  pos,      \* the stream position
  left,     \* entries still to read (size - i)
  modules,  \* the modules vector: [type |-> "library" or a type key]
  row_ptr,  \* import_tree_row_ptr
  child,    \* import_tree_child_indices
  dso,      \* *dso_ctx_addr: NULL, a slot or Fresh
  result,   \* NULL, or the last call's [out, why, root, imports, ctx]
  lookup    \* NULL, or what GetFunction last returned on the library of
            \* the last call: "fatal", "none" (an empty ffi::Function) or
            \* the symbol it wraps; a new call starts without one

vars == <<phase, lib, pos, left, modules, row_ptr, child, dso, result, lookup>>

Tok(k, v) == [k |-> k, v |-> v]

Read(b, p, kind) ==
  IF p > Len(b) THEN [ok |-> FALSE, pos |-> p, v |-> NULL]
  ELSE [ok |-> TRUE, pos |-> p + 1, v |-> b[p].v]

IndexLT(x, n) == x >= 0 /\ x < n

Library == [type |-> "library"]

\* How a call ends.  ctx is what lines 201-204 store in the library's
\* __tvm_ffi__library_ctx symbol, when it has one.
Returned(l, root, imports) ==
  [out |-> "ok", why |-> NULL, root |-> root, imports |-> imports,
   ctx |-> [set |-> l.ctx, to |-> dso']]
Fatal(why) == [out |-> "fatal", why |-> why, root |-> NULL, imports |-> <<>>,
               ctx |-> [set |-> FALSE, to |-> NULL]]
Oob == [out |-> "oob", why |-> NULL, root |-> NULL, imports |-> <<>>,
        ctx |-> [set |-> FALSE, to |-> NULL]]

\* Each slot imports nothing yet.
NoImports(n) == [s \in (1..n) \cup {Fresh} |-> <<>>]

(***************************************************************************)
(* The import-tree loop (lines 167-174): for each module i, j runs over   *)
(* [row_ptr[i], row_ptr[i+1]); child_indices[j] is checked against the    *)
(* module count (171), the row_ptr and child_indices reads are not.       *)
(***************************************************************************)
\* Mutant: the row loop without the child_index ICHECK (171).
RECURSIVE BuildRowNoChildCheck(_, _, _, _, _, _, _)
BuildRowNoChildCheck(n, rp, ch, i, j, hi, imps) ==
  IF j >= hi THEN [out |-> "row", imps |-> imps]
  ELSE IF ~IndexLT(j, Len(ch)) THEN [out |-> "oob", imps |-> imps]
  ELSE BuildRowNoChildCheck(n, rp, ch, i, j + 1, hi,
                            [imps EXCEPT ![i + 1] = Append(@, ch[j + 1] + 1)])

\* Mutant: the row loop runs to row_ptr[i+1] inclusive.
RECURSIVE BuildRowInclusive(_, _, _, _, _, _, _)
BuildRowInclusive(n, rp, ch, i, j, hi, imps) ==
  IF j > hi THEN [out |-> "row", imps |-> imps]
  ELSE IF ~IndexLT(j, Len(ch)) THEN [out |-> "oob", imps |-> imps]
  ELSE IF ch[j + 1] >= n THEN [out |-> "fatal", imps |-> imps]
  ELSE BuildRowInclusive(n, rp, ch, i, j + 1, hi,
                         [imps EXCEPT ![i + 1] = Append(@, ch[j + 1] + 1)])

RECURSIVE BuildRow(_, _, _, _, _, _, _)
BuildRow(n, rp, ch, i, j, hi, imps) ==
  IF j >= hi THEN [out |-> "row", imps |-> imps]
  ELSE IF ~IndexLT(j, Len(ch)) THEN [out |-> "oob", imps |-> imps]
  ELSE IF ch[j + 1] >= n THEN [out |-> "fatal", imps |-> imps]
  ELSE BuildRow(n, rp, ch, i, j + 1, hi,
                [imps EXCEPT ![i + 1] = Append(@, ch[j + 1] + 1)])

RECURSIVE BuildImports(_, _, _, _, _)
BuildImports(n, rp, ch, i, imps) ==
  IF i >= n THEN [out |-> "ok", imps |-> imps]
  ELSE IF ~IndexLT(i + 1, Len(rp)) THEN [out |-> "oob", imps |-> imps]
  ELSE LET r == BuildRow(n, rp, ch, i, rp[i + 1], rp[i + 2], imps)
       IN  IF r.out # "row" THEN r ELSE BuildImports(n, rp, ch, i + 1, r.imps)

(***************************************************************************)
(* Actions                                                                 *)
(***************************************************************************)
\* CreateModuleFromLibrary (183-198) up to the size read of
\* ProcessLibraryBin (119-133).  Without a blob the library is the one
\* module, and its own ctx (196-197, 201-204).
CreateModuleFromLibrary ==
  /\ phase = "idle"
  /\ \E l \in Libs :
       /\ lib' = l
       /\ IF l.bin = NULL
          THEN /\ dso' = Fresh
               /\ result' = Returned(l, Fresh, NoImports(0))
               /\ UNCHANGED <<phase, pos, left>>
          ELSE LET sz == Read(l.bin, 1, "u64")
               IN  IF ~sz.ok
                   THEN /\ result' = Fatal("size") /\ dso' = NULL
                        /\ UNCHANGED <<phase, pos, left>>
                   ELSE /\ phase' = "read" /\ pos' = sz.pos /\ left' = sz.v
                        /\ dso' = NULL /\ result' = NULL
  /\ modules' = <<>> /\ row_ptr' = <<>> /\ child' = <<>>

\* One iteration of the entry loop (135-154) reads the type key; a failed
\* read fails ICHECK (137).
Key == Read(lib.bin, pos, "str")

Abort(why) ==
  /\ phase' = "idle" /\ result' = Fatal(why)
  /\ UNCHANGED <<lib, pos, left, modules, row_ptr, child, dso>>

ReadKeyFails ==
  /\ phase = "read" /\ left > 0 /\ ~Key.ok
  /\ Abort("tkey")

\* Mutant: the "_lib" branch without the dso store of line 142.
ReadLibNoCtx ==
  /\ phase = "read" /\ left > 0 /\ Key.ok /\ Key.v = "_lib"
  /\ IF Library \in ToSet(modules)
     THEN Abort("Multiple dso module")
     ELSE /\ modules' = Append(modules, Library)
          /\ pos' = Key.pos /\ left' = left - 1
          /\ UNCHANGED <<phase, lib, row_ptr, child, dso, result>>

\* "_lib": the library module takes this slot and becomes the dso
\* context; a second one fails ICHECK_EQ (145) after it is appended.
ReadLib ==
  /\ phase = "read" /\ left > 0 /\ Key.ok /\ Key.v = "_lib"
  /\ IF Library \in ToSet(modules)
     THEN Abort("Multiple dso module")
     ELSE /\ modules' = Append(modules, Library)
          /\ dso' = Len(modules) + 1
          /\ pos' = Key.pos /\ left' = left - 1
          /\ UNCHANGED <<phase, lib, row_ptr, child, result>>

\* "_import_tree": the two vectors, each read under ICHECK (148-149); a
\* later tree replaces an earlier one.
ReadImportTree ==
  /\ phase = "read" /\ left > 0 /\ Key.ok /\ Key.v = "_import_tree"
  /\ LET r == Read(lib.bin, Key.pos, "vu64")
         c == Read(lib.bin, r.pos, "vu64")
     IN  IF ~r.ok \/ ~c.ok THEN Abort("import tree")
         ELSE /\ row_ptr' = r.v /\ child' = c.v
              /\ pos' = c.pos /\ left' = left - 1
              /\ UNCHANGED <<phase, lib, modules, dso, result>>

\* LoadModuleFromBinary (96-107): an unregistered type key is LOG(FATAL)
\* (101); a registered loader reads its module from the stream and fails
\* if it is not there.
LoadModuleFromBinary(key, p) ==
  LET m == Read(lib.bin, p, "mod")
  IN  CASE key \notin Keys -> [ok |-> FALSE, why |-> "loader not registered"]
        [] ~m.ok -> [ok |-> FALSE, why |-> "module"]
        [] OTHER -> [ok |-> TRUE, pos |-> m.pos, v |-> [type |-> key]]

\* Any other key (150-153): its module takes the next slot.
ReadModule ==
  /\ phase = "read" /\ left > 0 /\ Key.ok /\ Key.v \notin {"_lib", "_import_tree"}
  /\ LET m == LoadModuleFromBinary(Key.v, Key.pos)
     IN  IF ~m.ok THEN Abort(m.why)
         ELSE /\ modules' = Append(modules, m.v)
              /\ pos' = m.pos /\ left' = left - 1
              /\ UNCHANGED <<phase, lib, row_ptr, child, dso, result>>

\* After the loop (156-180), then the ctx store of CreateModuleFromLibrary
\* (201-206).  Without an import tree the fresh library module imports
\* every module and is both root and dso context; with one, the tree is
\* built, modules must not be empty (176) and slot 1 is the root.
Build ==
  /\ phase = "read" /\ left = 0
  /\ phase' = "idle"
  /\ LET n == Len(modules)
         b == BuildImports(n, row_ptr, child, 0, NoImports(n))
     IN  IF row_ptr = <<>>
         THEN /\ dso' = Fresh
              /\ result' = Returned(lib, Fresh, [NoImports(n) EXCEPT ![Fresh] = [s \in 1..n |-> s]])
         ELSE /\ UNCHANGED dso
              /\ result' = CASE b.out = "oob"   -> Oob
                             [] b.out = "fatal" -> Fatal("child_index")
                             [] n = 0           -> Fatal("modules cannot be empty")
                             [] OTHER           -> Returned(lib, 1, b.imps)
  /\ UNCHANGED <<lib, pos, left, modules, row_ptr, child>>

\* LibraryModuleNode::GetFunction (50-63) on a library module of the
\* loaded root: Main is resolved through the entry name it holds, which
\* must be present (ICHECK, 54); any other name is looked up directly.  A
\* missing symbol is an empty function; a present one is wrapped (62).
GetFunction ==
  /\ phase = "idle" /\ result # NULL /\ result.out = "ok"
  /\ result.root \in {Fresh} \cup {s \in DOMAIN modules : modules[s] = Library}
  /\ \E name \in {Main} \cup Names :
       LET faddr == IF name = Main THEN lib.main ELSE name
       IN  lookup' = CASE name = Main /\ lib.main = NULL -> "fatal"
                       [] faddr \in lib.funcs           -> faddr
                       [] OTHER                         -> "none"
  /\ UNCHANGED <<phase, lib, pos, left, modules, row_ptr, child, dso, result>>

Init ==
  /\ phase = "idle" /\ lib = NULL /\ pos = 1 /\ left = 0
  /\ modules = <<>> /\ row_ptr = <<>> /\ child = <<>>
  /\ dso = NULL /\ result = NULL /\ lookup = NULL

\* The steps of a call after CreateModuleFromLibrary.
LoaderStep ==
  \/ ReadKeyFails \/ ReadLib \/ ReadImportTree \/ ReadModule
  \/ Build

Next ==
  \/ CreateModuleFromLibrary /\ lookup' = NULL
  \/ LoaderStep /\ UNCHANGED lookup
  \/ GetFunction

Spec == Init /\ [][Next]_vars

-----------------------------------------------------------------------------
(***************************************************************************)
(* Properties                                                              *)
(***************************************************************************)
Slots == (1..Len(modules)) \cup {Fresh}

\* Every variable holds a value of its kind; import lists and the dso
\* context name slots of the modules vector.
TypeOK ==
  /\ phase \in {"idle", "read"}
  /\ modules \in Seq({Library} \cup [type : Keys])
  /\ dso \in Slots \cup {NULL}
  /\ lookup \in {NULL, "fatal", "none"} \cup Names
  /\ result = NULL \/ result.out \in {"ok", "fatal", "oob"}
  /\ result # NULL /\ result.out = "ok" =>
       /\ result.root \in Slots
       /\ \A s \in DOMAIN result.imports : result.imports[s] \in Seq(Slots)

\* child_indices[rp[s] .. rp[s+1]-1] names the imports of module s: the
\* CSR reading of the tree, written over 1-based slots.
CSRRow(rp, ch, s) == [t \in 1..(rp[s + 1] - rp[s]) |-> ch[rp[s] + t] + 1]

CSRWellFormed(n, rp, ch) ==
  /\ Len(rp) > n
  /\ \A s \in 1..n : \A t \in (rp[s] + 1)..rp[s + 1] : t <= Len(ch) /\ ch[t] < n

\* The last call ended in the import-tree branch of lines 166-180.
TreeBuilt ==
  /\ phase = "idle" /\ result # NULL /\ lib.bin # NULL /\ row_ptr # <<>>
  /\ result.why \in {NULL, "child_index", "modules cannot be empty"}

\* ProcessLibraryBin with an import tree (166-180) succeeds exactly when
\* the tree is a well-formed CSR over a non-empty module vector, and then
\* gives every module the imports its CSR row names, in order.  A tree
\* that is not well-formed is rejected or read out of bounds.
ImportTreeBuiltAsCSR ==
  TreeBuilt =>
    /\ (result.out = "ok") <=> (Len(modules) > 0 /\ CSRWellFormed(Len(modules), row_ptr, child))
    /\ result.out = "ok" =>
         \A s \in 1..Len(modules) : result.imports[s] = CSRRow(row_ptr, child, s)

\* What lines 201-204 store in the library's __tvm_ffi__library_ctx
\* symbol after a load that returns: a LibraryModuleNode of this library
\* (the fresh one of lines 159/185-197, or the "_lib" slot of line 142),
\* and nullptr exactly when the blob has an import tree but no "_lib"
\* entry, because dso_ctx_addr starts as nullptr (191) and only lines
\* 142, 164 and 197 assign it.
CtxIsLibraryModule ==
  phase = "idle" /\ result # NULL /\ result.out = "ok" /\ result.ctx.set =>
    /\ (result.ctx.to = NULL) <=>
         (lib.bin # NULL /\ row_ptr # <<>> /\ Library \notin ToSet(modules))
    /\ result.ctx.to # NULL =>
         \/ result.ctx.to = Fresh /\ (lib.bin = NULL \/ row_ptr = <<>>)
         \/ result.ctx.to \in 1..Len(modules) /\ modules[result.ctx.to] = Library
=============================================================================
