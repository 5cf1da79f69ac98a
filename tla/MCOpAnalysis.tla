--------------------------- MODULE MCOpAnalysis ---------------------------
(* Model-checking instance of OpAnalysis: 5-bit addresses, so that an      *)
(* 8-byte access at 30 wraps past the top and rsp = 5 lies below 8.  A     *)
(* pointer read succeeds at 16..20 of the memory list [16, 28) and at 0..8 *)
(* of the stack [0, 16); register value 11 puts rsp at 11, whose read      *)
(* straddles the stack's end, and an index 11 * 8 = 24 (or 22 with the     *)
(* displacement) whose read straddles the memory list's end.               *)
EXTENDS OpAnalysis

MCRegs == {"rbx", "rsp"}
MCRegValues == {0, 5, 11, 30}
MCValidSets == {{"rbx", "rsp"}, {"rsp"}, {"rbx"}}
MCDisps == {0, -2}
MCScales == {8}
MCMemSizes == {1, 8}
MCMemoryList == {[base |-> 16, size |-> 12]}
MCStackRegions == {None, [base |-> 0, size |-> 16]}
MCMemContents == [a \in 0..31 |-> (7 * a + 3) % 32]
MCBuilds == {"debug", "release"}

\* Opcodes of every class the analyzer tells apart.
MCOpcodes == {"MOV", "ADD", "CMP", "LEA", "INC", "PUSH", "POP", "CALL",
              "JMP", "RETURN", "JZ", "DIV", "HLT", "MOVS"}
\* The same with a loop instruction, a branch outside the jcc arm.
MCOpcodesWithLoop == MCOpcodes \cup {"LOOP"}
=============================================================================
