----------------------------- MODULE Executable -----------------------------
(***************************************************************************)
(* The relax VM executable of src/runtime/vm/executable.cc: its binary    *)
(* codec (SaveToBinary / LoadFromBinary and their sections), instruction  *)
(* patching (SetInstructionData) and the constant-pool summary of Stats.  *)
(*                                                                         *)
(* The byte stream is abstracted to the sequence of typed writes the      *)
(* saver makes: a token [k |-> kind, v |-> value] per dmlc Write call (a  *)
(* length-prefixed string or POD vector is one token).  SaveToBinary      *)
(* wraps the inner stream in one length-prefixed string (line 181); here  *)
(* its length counts tokens.  When that outer string is read from a       *)
(* shorter stream, dmlc has already resized the string to the recorded    *)
(* length, so the missing tail reads as zero bytes: a "pad" token, which  *)
(* reads as the zero of whatever kind is read from it.  Offsets and       *)
(* indices are 0-based as in the code.                                    *)
(***************************************************************************)
EXTENDS Integers, Sequences, SequencesExt, TLC

CONSTANTS
  NULL,
  Magic, Version,   \* kTVMVMBytecodeMagic, VM_VERSION
  Garbled,          \* the value of a corrupted token
  Uninit,           \* a variable read by a failed, unchecked Read
  Execs,            \* executables a producer may build
  Indices,          \* values of i and j tried by SetInstructionData
  Words,            \* values written by SetInstructionData
  ValueBit          \* Instruction::Arg::kValueBit, scaled down from 56

VARIABLES
  exec,     \* the producer's executable
  blob,     \* the file last saved, possibly corrupted since
  loaded,   \* NULL, or [from, res]: the last LoadFromBinary and its result
  fault     \* NULL, or the ICHECK that failed in the last call

vars == <<exec, blob, loaded, fault>>

Tok(k, v) == [k |-> k, v |-> v]
Flat(f(_), s) == FlattenSeq([i \in 1..Len(s) |-> f(s[i])])

\* VMFuncInfo::FuncKind codes (vm/executable.h): kPackedFunc = 0,
\* kVMFunc = 1, kVMTIRFunc = 2.
FuncKinds == {0, 1, 2}
\* The ffi::TypeIndex written as a constant's tag.  The POD indices are
\* kTVMFFIInt = 1, kTVMFFIFloat = 3, kTVMFFIDataType = 5; the object ones
\* lie past kTVMFFIStaticObjectBegin = 64.  0 is kTVMFFINone, no tag.
TagCode == [NDArray |-> 70, Shape |-> 69, Str |-> 65, Int |-> 1, Float |-> 3,
            DType |-> 5]
ConstTags == DOMAIN TagCode
TagOf(code) == CHOOSE t \in ConstTags : TagCode[t] = code

\* The value zero bytes decode to: an empty string or vector, or 0.
ZeroOf(kind) ==
  CASE kind = "str" -> ""
    [] kind \in {"vstr", "vi64", "vword"} -> <<>>
    [] OTHER -> 0

(***************************************************************************)
(* Saving                                                                  *)
(***************************************************************************)
\* SaveHeader: the magic, then the version string.
SaveHeader == <<Tok("u64", Magic), Tok("str", Version)>>

\* Mutant: start_instr and end_instr written in the wrong order.
FuncInfoSaveSwapped(f) ==
  <<Tok("i32", f.kind), Tok("str", f.name), Tok("i64", f.end_instr),
    Tok("i64", f.start_instr), Tok("i64", f.num_args),
    Tok("i64", f.register_file_size), Tok("vstr", f.param_names)>>

\* VMFuncInfo::Save (lines 233-242).
FuncInfoSave(f) ==
  <<Tok("i32", f.kind), Tok("str", f.name), Tok("i64", f.start_instr),
    Tok("i64", f.end_instr), Tok("i64", f.num_args),
    Tok("i64", f.register_file_size), Tok("vstr", f.param_names)>>

\* SaveGlobalSection (257): a vector of classes is its size, then each Save.
SaveGlobalSection(e) ==
  <<Tok("u64", Len(e.func_table))>> \o Flat(FuncInfoSave, e.func_table)

\* One constant of SaveConstantSection (lines 261-290).
ConstSave(c) ==
  <<Tok("i32", TagCode[c.tag])>> \o
  CASE c.tag = "NDArray" -> <<Tok("tensor", c.v)>>
    [] c.tag = "Shape" ->
         <<Tok("u64", Len(c.v))>> \o [i \in 1..Len(c.v) |-> Tok("i64", c.v[i])]
    [] c.tag = "Str" ->
         <<Tok("u64", Len(c.v))>> \o [i \in 1..Len(c.v) |-> Tok("char", c.v[i])]
    [] c.tag = "Int"   -> <<Tok("i64", c.v)>>
    [] c.tag = "Float" -> <<Tok("f64", c.v)>>
    [] c.tag = "DType" -> <<Tok("dtype", c.v)>>

SaveConstantSection(e) ==
  <<Tok("u64", Len(e.constants))>> \o Flat(ConstSave, e.constants)

\* SaveCodeSection (294-297).
SaveCodeSection(e) ==
  <<Tok("vi64", e.instr_offset), Tok("vword", e.instr_data)>>

\* SaveToBinary (164-182): the sections into `code`, then `code` as one
\* length-prefixed string.
SaveToBinary(e) ==
  LET code == SaveHeader \o SaveGlobalSection(e) \o SaveConstantSection(e)
                \o SaveCodeSection(e)
  IN  <<Tok("u64", Len(code))>> \o code

(***************************************************************************)
(* Loading.  A read is [ok, v, pos]: whether it succeeded, the value read *)
(* as `kind` and the next position; a failed read leaves its target      *)
(* uninitialised.                                                        *)
(***************************************************************************)
Read(b, pos, kind) ==
  IF pos > Len(b) THEN [ok |-> FALSE, v |-> Uninit, pos |-> pos]
  ELSE [ok |-> TRUE, pos |-> pos + 1,
        v |-> IF b[pos].k = "pad" THEN ZeroOf(kind) ELSE b[pos].v]

Fatal(section) == [err |-> section]

\* The unchecked outer Read(&code) of LoadFromBinary (lines 184-186):
\* nothing if the length is missing, else the bytes there are, padded
\* with zeros to the recorded length.
ReadCode(file) ==
  IF file = <<>> THEN <<>>
  ELSE LET have == Tail(file)
       IN  have \o [i \in 1..(file[1].v - Len(have)) |-> Tok("pad", 0)]

\* LoadHeader (152-162).
LoadHeader(b) ==
  LET m == Read(b, 1, "u64")
      s == Read(b, m.pos, "str")
  IN  CASE ~m.ok \/ m.v # Magic -> Fatal("header")
        [] ~s.ok \/ s.v # Version -> Fatal("version")
        [] OTHER -> [err |-> NULL, pos |-> s.pos]

\* VMFuncInfo::Load (244-255): the fields in order, false on the first
\* failed read; the kind is cast without validation.
FuncInfoLoad(b, pos) ==
  LET r1 == Read(b, pos, "i32")    r2 == Read(b, r1.pos, "str")
      r3 == Read(b, r2.pos, "i64") r4 == Read(b, r3.pos, "i64")
      r5 == Read(b, r4.pos, "i64") r6 == Read(b, r5.pos, "i64")
      r7 == Read(b, r6.pos, "vstr")
  IN  [ok |-> r1.ok /\ r2.ok /\ r3.ok /\ r4.ok /\ r5.ok /\ r6.ok /\ r7.ok,
       pos |-> r7.pos,
       v |-> [kind |-> r1.v, name |-> r2.v, start_instr |-> r3.v,
              end_instr |-> r4.v, num_args |-> r5.v,
              register_file_size |-> r6.v, param_names |-> r7.v]]

\* dmlc's vector<VMFuncInfo> read: Load each element, stop at a false one.
RECURSIVE LoadFuncs(_, _, _, _)
LoadFuncs(b, pos, n, acc) ==
  IF n = 0 THEN [ok |-> TRUE, pos |-> pos, v |-> acc]
  ELSE LET f == FuncInfoLoad(b, pos)
       IN  IF ~f.ok THEN [ok |-> FALSE, pos |-> f.pos, v |-> acc]
           ELSE LoadFuncs(b, f.pos, n - 1, Append(acc, f.v))

\* Mutant: func_map records 1-based positions.
FuncMapOneBased(ft) ==
  [nm \in {ft[i].name : i \in 1..Len(ft)} |->
     CHOOSE i \in 1..Len(ft) :
       ft[i].name = nm /\ \A k \in i + 1..Len(ft) : ft[k].name # nm]

\* func_map as LoadGlobalSection builds it (302-304): a later entry of
\* the same name wins.
FuncMap(ft) ==
  [nm \in {ft[i].name : i \in 1..Len(ft)} |->
     LET last == CHOOSE i \in 1..Len(ft) :
                   ft[i].name = nm /\ \A k \in i + 1..Len(ft) : ft[k].name # nm
     IN  last - 1]

\* LoadGlobalSection (299-305): the vector read is checked as a whole.
LoadGlobalSection(b, pos) ==
  LET n == Read(b, pos, "u64")
      fs == IF n.ok THEN LoadFuncs(b, n.pos, n.v, <<>>)
            ELSE [ok |-> FALSE, pos |-> n.pos, v |-> <<>>]
  IN  IF ~fs.ok THEN Fatal("Global Section")
      ELSE [err |-> NULL, pos |-> fs.pos, v |-> fs.v]

\* The unchecked element reads of a Shape or String payload (328-330, 343-345).
RECURSIVE ReadElems(_, _, _, _, _)
ReadElems(b, pos, kind, n, acc) ==
  IF n = 0 THEN [pos |-> pos, v |-> acc]
  ELSE LET r == Read(b, pos, kind)
       IN  ReadElems(b, r.pos, kind, n - 1, Append(acc, r.v))

\* The payload of one constant, its tag code already read (319-364).  The
\* size, element and scalar reads are unchecked; NDArray::Load checks its
\* own magic (a zero-filled or missing tensor is fatal).
LoadPayload(b, pos, code) ==
  LET tag == IF \E t \in ConstTags : TagCode[t] = code THEN TagOf(code) ELSE NULL
  IN
  CASE tag = "NDArray" ->
         LET r == Read(b, pos, "tensor")
         IN  IF ~r.ok \/ r.v = 0 THEN Fatal("NDArray")
             ELSE [err |-> NULL, pos |-> r.pos, v |-> [tag |-> tag, v |-> r.v]]
    [] tag \in {"Shape", "Str"} ->
         LET sz == Read(b, pos, "u64")
             es == ReadElems(b, sz.pos, IF tag = "Shape" THEN "i64" ELSE "char",
                             IF sz.ok THEN sz.v ELSE 0, <<>>)
         IN  [err |-> NULL, pos |-> es.pos,
              v |-> [tag |-> tag, v |-> IF sz.ok THEN es.v ELSE Uninit]]
    [] tag \in ConstTags ->
         LET r == Read(b, pos, CASE tag = "Int" -> "i64" [] tag = "Float" -> "f64"
                                 [] tag = "DType" -> "dtype")
         IN  [err |-> NULL, pos |-> r.pos, v |-> [tag |-> tag, v |-> r.v]]
    [] OTHER -> Fatal("Constant pool can only contain NDArray and DLDataType")

RECURSIVE LoadConsts(_, _, _, _)
LoadConsts(b, pos, n, acc) ==
  IF n = 0 THEN [err |-> NULL, pos |-> pos, v |-> acc]
  ELSE LET t == Read(b, pos, "i32")
       IN  IF ~t.ok THEN Fatal("constant")
           ELSE LET p == LoadPayload(b, t.pos, t.v)
                IN  IF p.err # NULL THEN p
                    ELSE LoadConsts(b, p.pos, n - 1, Append(acc, p.v))

\* LoadConstantSection (307-366).
LoadConstantSection(b, pos) ==
  LET sz == Read(b, pos, "u64")
  IN  IF ~sz.ok THEN Fatal("constant") ELSE LoadConsts(b, sz.pos, sz.v, <<>>)

\* LoadCodeSection (368-371).
LoadCodeSection(b, pos) ==
  LET o == Read(b, pos, "vi64")
      d == Read(b, o.pos, "vword")
  IN  CASE ~o.ok -> Fatal("instr offset")
        [] ~d.ok -> Fatal("instr data")
        [] OTHER -> [err |-> NULL, v |-> [instr_offset |-> o.v, instr_data |-> d.v]]

\* LoadFromBinary (184-206): the outer string, then the sections in order;
\* the first fatal wins.
LoadFromBinary(file) ==
  LET b == ReadCode(file)
      h == LoadHeader(b)
      g == LoadGlobalSection(b, h.pos)
      c == LoadConstantSection(b, g.pos)
      k == LoadCodeSection(b, c.pos)
  IN  CASE h.err # NULL -> h
        [] g.err # NULL -> g
        [] c.err # NULL -> c
        [] k.err # NULL -> k
        [] OTHER -> [err |-> NULL,
                     v |-> [func_table |-> g.v, func_map |-> FuncMap(g.v),
                            constants |-> c.v, instr_offset |-> k.v.instr_offset,
                            instr_data |-> k.v.instr_data]]

\* An int64 Index compared with a size_t by ICHECK_LT is converted to
\* unsigned: a negative value fails the check.
IndexLT(x, n) == x >= 0 /\ x < n

(***************************************************************************)
(* Stats (lines 46-105): only which constants it can render is kept; one  *)
(* of another type is LOG(FATAL) "Unsupported constant pool type" (90).   *)
(***************************************************************************)
StatsRenders == {"NDArray", "Shape", "Str", "Int", "DType"}

Stats(e) ==
  [ok |-> \A i \in 1..Len(e.constants) : e.constants[i].tag \in StatsRenders,
   constants |-> Len(e.constants), globals |-> Len(e.func_table)]

(***************************************************************************)
(* Disassembly: GetInstruction (114-143) and the two dialects AsText      *)
(* (411-486) and AsPython (488-564).  Only the decoded structure is kept  *)
(* of the text; a run ends rendered, LOG(FATAL)/ICHECK-failed ("fatal"),  *)
(* or at a read outside instr_offset or instr_data ("oob"), which is      *)
(* undefined behaviour.                                                   *)
(***************************************************************************)
\* vm/bytecode.h: the opcode codes, and the argument kinds kRegister,
\* kImmediate, kConstIdx and kFuncIdx.
Opcode == [Call |-> 1, Ret |-> 2, Goto |-> 3, If |-> 4]
ArgKinds == 0..3

\* Instruction::Arg: the kind is the top byte of the word, the value the
\* rest, sign-extended.
ArgOf(w) ==
  LET low == w % 2^ValueBit
  IN  [kind  |-> (w \div 2^ValueBit) % 256,
       value |-> IF low >= 2^(ValueBit - 1) THEN low - 2^ValueBit ELSE low]

Rendered(v) == [out |-> "ok", why |-> NULL, v |-> v]
Failed(why) == [out |-> "fatal", why |-> why, v |-> <<>>]
OutOfBounds == [out |-> "oob", why |-> NULL, v |-> <<>>]

\* The words GetInstruction reads after the opcode word (119-136).
NumFields == [Call |-> 3, Ret |-> 1, Goto |-> 1, If |-> 2]

\* GetInstruction (114-143): no index is checked; an unknown opcode is
\* LOG(FATAL) (139).  A Call's args are only pointed at here.
GetInstruction(e, i) ==
  LET off == e.instr_offset[i + 1]
      op  == {x \in DOMAIN Opcode : Opcode[x] = e.instr_data[off + 1]}
      x   == CHOOSE y \in op : TRUE
  IN  CASE ~IndexLT(i, Len(e.instr_offset)) \/ ~IndexLT(off, Len(e.instr_data))
             -> OutOfBounds
        [] op = {} -> Failed("opcode")
        [] ~IndexLT(off + NumFields[x], Len(e.instr_data)) -> OutOfBounds
        [] OTHER -> Rendered([op |-> x, at |-> off,
                              f |-> [k \in 1..NumFields[x] |-> e.instr_data[off + 1 + k]]])

\* instr_to_str / arg_to_py_str (420-435, 497-515): a kind outside
\* ArgKinds is LOG(FATAL) "Wrong instruction kind".
ArgRenders(a) == a.kind \in ArgKinds

\* StrJoin(args, 0, num_args) (374-385): args[0] is read whenever the count
\* is not 0, so also for a negative one; then args[1 .. cnt-1].
RECURSIVE ArgsFrom(_, _, _, _)
ArgsFrom(e, at, n, acc) ==
  IF n = 0 THEN Rendered(acc)
  ELSE IF ~IndexLT(at, Len(e.instr_data)) THEN OutOfBounds
  ELSE LET a == ArgOf(e.instr_data[at + 1])
       IN  IF ~ArgRenders(a) THEN Failed("arg kind")
           ELSE ArgsFrom(e, at + 1, n - 1, Append(acc, a))

StrJoin(e, at, cnt) ==
  IF cnt = 0 THEN Rendered(<<>>) ELSE ArgsFrom(e, at, IF cnt < 1 THEN 1 ELSE cnt, <<>>)

\* The instruction loop of a VMFunc (454-482, 534-561): each instruction
\* decoded, a Call's args rendered after it.
RECURSIVE Instrs(_, _, _, _)
Instrs(e, idx, end, acc) ==
  IF idx >= end THEN Rendered(acc)
  ELSE LET g == GetInstruction(e, idx)
           a == StrJoin(e, g.v.at + 4, g.v.f[3])
       IN  CASE g.out # "ok" -> g
             [] g.v.op = "Call" /\ a.out # "ok" -> a
             [] OTHER -> Instrs(e, idx + 1, end,
                           Append(acc, [op |-> g.v.op, f |-> g.v.f,
                                        args |-> IF g.v.op = "Call" THEN a.v ELSE <<>>]))

\* The function loop of both dialects (439-453, 520-533): PackedFunc (0)
\* and VMTIRFunc (2) get a declaration line in the text dialect and none
\* in the Python one; any kind but VMFunc (1) then fails the ICHECK.
RECURSIVE Funcs(_, _, _, _)
Funcs(e, dialect, fidx, acc) ==
  IF fidx > Len(e.func_table) THEN Rendered(acc)
  ELSE LET g == e.func_table[fidx]
           body == Instrs(e, g.start_instr, g.end_instr, <<>>)
       IN  CASE g.kind \in {0, 2} ->
                  Funcs(e, dialect, fidx + 1,
                        IF dialect = "text" THEN Append(acc, [decl |-> g.name, kind |-> g.kind])
                        ELSE acc)
             [] g.kind # 1 -> Failed("func kind")
             [] body.out # "ok" -> body
             [] OTHER -> Funcs(e, dialect, fidx + 1,
                               Append(acc, [func |-> g.name, body |-> body.v]))

AsText(e) == Funcs(e, "text", 1, <<>>)
AsPython(e) == Funcs(e, "python", 1, <<>>)

(***************************************************************************)
(* Operations                                                              *)
(***************************************************************************)
\* SetInstructionData (lines 107-112).
SetInstructionData(i, j, val) ==
  /\ IF ~IndexLT(i, Len(exec.instr_offset))
     THEN fault' = "instr index" /\ UNCHANGED exec
     ELSE LET idx == exec.instr_offset[i + 1]
          IN  IF ~IndexLT(idx + j, Len(exec.instr_data))
              THEN fault' = "word index" /\ UNCHANGED exec
              ELSE /\ exec' = [exec EXCEPT !.instr_data[idx + j + 1] = val]
                   /\ fault' = NULL
  /\ UNCHANGED <<blob, loaded>>

Patch == \E i, j \in Indices, val \in Words : SetInstructionData(i, j, val)

Save ==
  /\ blob' = SaveToBinary(exec)
  /\ fault' = NULL
  /\ UNCHANGED <<exec, loaded>>

\* One fault per saved file: it is cut short, or one of its magic,
\* version, function kinds or constant tags is garbled.
Pristine == blob = SaveToBinary(exec)

Truncate ==
  /\ Pristine
  /\ \E k \in 0..Len(blob) - 1 : blob' = SubSeq(blob, 1, k)
  /\ UNCHANGED <<exec, loaded, fault>>

Garble ==
  /\ Pristine
  /\ \E k \in 2..Len(blob) :
       /\ k \in {2, 3} \/ blob[k].k = "i32"
       /\ blob' = [blob EXCEPT ![k].v = Garbled]
  /\ UNCHANGED <<exec, loaded, fault>>

Load ==
  /\ loaded' = [from |-> blob, res |-> LoadFromBinary(blob)]
  /\ fault' = NULL
  /\ UNCHANGED <<exec, blob>>

Init ==
  /\ exec \in Execs
  /\ blob = <<>>
  /\ loaded = NULL
  /\ fault = NULL

Next == Patch \/ Save \/ Truncate \/ Garble \/ Load

Spec == Init /\ [][Next]_vars

-----------------------------------------------------------------------------
(***************************************************************************)
(* Properties                                                              *)
(***************************************************************************)
Loaded == loaded # NULL /\ loaded.res.err = NULL

\* Every variable holds a value of its kind.
TypeOK ==
  /\ DOMAIN exec = {"func_table", "func_map", "constants", "instr_offset", "instr_data"}
  /\ \A k \in 1..Len(exec.instr_data) : exec.instr_data[k] \in Int
  /\ Loaded => LET ft == loaded.res.v.func_table
              IN  loaded.res.v.func_map \in
                    [{ft[i].name : i \in 1..Len(ft)} -> 0..Len(ft) - 1]
  /\ \A k \in 1..Len(blob) : DOMAIN blob[k] = {"k", "v"}
  /\ loaded = NULL \/ "err" \in DOMAIN loaded.res
  /\ fault \in {NULL, "instr index", "word index"}

\* Section 8.1 of the spec: loading what SaveToBinary wrote gives back the
\* executable, func_map rebuilt from the function table, also after the
\* producer patched instruction words with SetInstructionData.
RoundTrip ==
  loaded # NULL /\ loaded.from = SaveToBinary(exec)
    => loaded.res.err = NULL /\ loaded.res.v = exec

\* Section 7 of the spec: a truncated section is a format error, so a file
\* cut short anywhere is rejected by LoadFromBinary.
TruncatedBlobRejected ==
  loaded # NULL /\ IsStrictPrefix(loaded.from, SaveToBinary(exec))
    => loaded.res.err # NULL

\* Section 4.4 of the spec: AsPython skips functions of unknown or future
\* kinds.  Here the executable is one LoadFromBinary accepted, whose kinds
\* VMFuncInfo::Load casts without validation (line 247).
AsPythonSkipsUnknownKinds ==
  Loaded => AsPython(loaded.res.v).why # "func kind"

\* Section 7 of the spec: an unknown opcode or argument kind met while
\* disassembling is a fatal error.  So neither dialect reads outside
\* instr_offset or instr_data of an executable whose words were written
\* by SetInstructionData within its bounds checks (108-110).
DisasmInBounds ==
  AsText(exec).out # "oob" /\ AsPython(exec).out # "oob"

\* Section 4.4 of the spec: Stats summarises any executable; here one that
\* LoadFromBinary accepted.
StatsTotal == Loaded => Stats(loaded.res.v).ok
=============================================================================
