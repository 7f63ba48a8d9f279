---------------------------- MODULE MCExecutable ----------------------------
(***************************************************************************)
(* Executables for checking the codec: the scenarios S1, S2 and S6 of the *)
(* spec, and one whose constant pool holds a tensor and a Float.  Opcode  *)
(* words are those of vm/bytecode.h (Call = 1, Ret = 2, Goto = 3).        *)
(***************************************************************************)
EXTENDS Executable

\* kValueBit is 56 for 64-bit words; 8 keeps every word a TLC integer.
MCValueBit == 8

Fn(k, nm, s, e, na, rf, ps) ==
  [kind |-> k, name |-> nm, start_instr |-> s, end_instr |-> e,
   num_args |-> na, register_file_size |-> rf, param_names |-> ps]

Exe(ft, cs, off, data) ==
  [func_table |-> ft, func_map |-> FuncMap(ft), constants |-> cs,
   instr_offset |-> off, instr_data |-> data]

\* The argument i3: kind kImmediate (1) above the value bits.
I3 == 1 * 2^MCValueBit + 3

\* S1: main = [call f0 in:%0,i3 dst:%1; goto 1; ret %1].
S1 == Exe(<<Fn(1, "main", 0, 3, 1, 2, <<"x">>)>>, <<>>,
          <<0, 6, 8>>, <<1, 1, 0, 2, 0, I3, 3, 1, 2, 1>>)

\* S2: [Int64(7), String("abc"), Shape([2,3]), DataType float32].
S2 == Exe(<<>>, <<[tag |-> "Int", v |-> 7], [tag |-> "Str", v |-> <<"a", "b", "c">>],
                  [tag |-> "Shape", v |-> <<2, 3>>], [tag |-> "DType", v |-> "f32"]>>,
          <<>>, <<>>)

\* S6: only PackedFunc declarations.
S6 == Exe(<<Fn(0, "add", 0, 0, 2, 0, <<>>), Fn(0, "mul", 0, 0, 2, 0, <<>>)>>,
          <<>>, <<>>, <<>>)

\* A tensor and a Float64 constant.
SF == Exe(<<>>, <<[tag |-> "NDArray", v |-> 7], [tag |-> "Float", v |-> "1.5"]>>,
          <<>>, <<>>)

MCExecs == {S1, S2, S6, SF}
MCExecsNoFloat == {S1, S2, S6}

\* i and j of SetInstructionData: negative, in range and past the end.
MCIndices == {-1, 0, 2}
MCWords == {9}

\* For the disassembler also j = 3, a Call's num_args, and the word -1,
\* whose top byte is no argument kind and which is no opcode.
MCDisasmIndices == {-1, 0, 2, 3}
MCDisasmWords == {9, -1}
=============================================================================
