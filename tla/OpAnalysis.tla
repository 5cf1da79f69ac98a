----------------------------- MODULE OpAnalysis -----------------------------
(***************************************************************************)
(* The instruction analyzer, src/minidump-processor/src/op_analysis.rs.   *)
(*                                                                         *)
(* analyze_thread_context is a pure function; each step of this module     *)
(* feeds it one input (a decoded instruction as yaxpeax-x86 presents it,   *)
(* the thread's register file with its validity set, the memory list and  *)
(* the optional stack memory) and records what it returns.  Addresses are *)
(* W-bit words: every wrapping_add / wrapping_mul of the code is taken     *)
(* modulo 2^W, so wrap-around at the top of the address space happens in  *)
(* the model as it does at 2^64 in the code.  Bytes in memory are          *)
(* abstracted to the pointer-sized value read at an address (MemContents). *)
(* The instruction string (Display of yaxpeax) is left out.               *)
(***************************************************************************)
EXTENDS Integers, Sequences, FiniteSets

CONSTANTS
  W,            \* width of an address word in the model (64 in the code)
  PtrBytes,     \* size_of::<u64>() for get_memory_at_address
  Regs,         \* general-purpose register names the operands may use
  RegValues,    \* values a register may hold
  ValidSets,    \* validity sets of a context (MinidumpContextValidity)
  Disps,        \* signed displacements of memory operands
  Scales,       \* scales of index registers
  MemSizes,     \* access sizes of explicit memory operands
  Opcodes,      \* the opcodes enumerated
  MemoryList,   \* regions [base, size] of the dump's memory list
  StackRegions, \* the stack memory handed in (a region or None)
  MemContents,  \* the u64 stored at each address of the dump
  Builds,       \* "debug" (overflow checks) and/or "release" (wrapping)
  None,         \* Option::None
  \* the OpAnalysisError variants, and a panic of the call
  ReadThreadInstructionFailed, UnsupportedCpuArch, InstructionTruncated,
  DecodeFailed, RegisterInvalid, Panic

Modulus == 2^W
Addr == 0..(Modulus - 1)

ASSUME /\ W \in Nat \ {0} /\ "rsp" \in Regs
       /\ RegValues \subseteq Addr /\ DOMAIN MemContents = Addr
       /\ Builds \subseteq {"debug", "release"}

\* u64::wrapping_add, u64::wrapping_mul, `disp as u64` (two's complement).
WrapAdd(a, b) == (a + b) % Modulus
WrapMul(a, b) == (a * b) % Modulus
AsUnsigned(d) == d % Modulus

(***************************************************************************)
(* Opcode classes, copied from the code's match arms.                      *)
(***************************************************************************)
\* AccessDerivableOpcode (lines 690-742).
DerivableOpcodes ==
  {"ADD", "CALL", "CMP", "DEC", "INC", "JMP", "JMPF", "JO", "JNO", "JB",
   "JNB", "JZ", "JNZ", "JA", "JNA", "JS", "JNS", "JP", "JNP", "JL", "JGE",
   "JG", "JLE", "LEA", "MOV", "MOVAPS", "MOVUPS", "POP", "PUSH", "RETF",
   "RETURN", "SUB", "UCOMISS"}

\* The conditional jumps of both match arms (lines 489-504, 662-677).
JccOpcodes ==
  {"JO", "JNO", "JB", "JNB", "JZ", "JNZ", "JA", "JNA", "JS", "JNS", "JP",
   "JNP", "JL", "JGE", "JG", "JLE"}

\* is_privileged (lines 300-350); MOV is in the list as in the code.
PrivilegedOpcodes ==
  {"CLI", "CLTS", "HLT", "IN", "INS", "INT", "INTO", "INVD", "INVEPT",
   "INVLPG", "INVVPID", "IRET", "IRETD", "IRETQ", "LGDT", "LIDT", "LLDT",
   "LMSW", "LTR", "MONITOR", "MOV", "MWAIT", "OUT", "OUTS", "RDMSR",
   "RDPMC", "RDTSC", "RDTSCP", "RETF", "STI", "SWAPGS", "SYSEXIT",
   "SYSRET", "VMCALL", "VMCLEAR", "VMLAUNCH", "VMPTRLD", "VMPTRST",
   "VMREAD", "VMRESUME", "VMWRITE", "VMXOFF", "VMXON", "WBINVD", "WRMSR",
   "XSETBV"}

CallJmpOpcodes == {"CALL", "CALLF", "JMP", "JMPF", "JMPE"}
ReturnOpcodes == {"RETURN", "RETF", "IRET", "IRETD", "IRETQ"}

(***************************************************************************)
(* Decoded instructions.  Operands are registers, immediates, or memory   *)
(* operands with optional base, optional index with a scale, and a        *)
(* displacement (MemoryOperandInfo, lines 746-796: every memory form of    *)
(* yaxpeax is one of these with the absent parts None or 0).  Shapes(op)   *)
(* is the decoder's contract: which operand lists an opcode comes with.    *)
(***************************************************************************)
RegOperands == [kind: {"reg"}, reg: Regs]
ImmOperands == {[kind |-> "imm"]}
MemOperands ==
  [kind: {"mem"}, base: Regs \cup {None}, index: {None}, scale: {None},
   disp: Disps]
  \cup [kind: {"mem"}, base: Regs \cup {None}, index: Regs, scale: Scales,
        disp: Disps]
\* The implicit operands of string instructions: [rdi], [rsi].
DerefOperands ==
  [kind: {"mem"}, base: Regs, index: {None}, scale: {None}, disp: {0}]

Pairs(A, B) == {<<a, b>> : a \in A, b \in B}
Singles(A) == {<<a>> : a \in A}

Shapes(op) ==
  CASE op \in {"MOV", "MOVAPS", "MOVUPS", "ADD", "SUB", "CMP", "UCOMISS"} ->
         Pairs(RegOperands, MemOperands) \cup Pairs(MemOperands, RegOperands)
         \cup Pairs(RegOperands, RegOperands)
    [] op = "LEA" -> Pairs(RegOperands, MemOperands)
    [] op \in {"INC", "DEC", "PUSH", "POP", "DIV", "IDIV"} ->
         Singles(RegOperands) \cup Singles(MemOperands)
    [] op \in CallJmpOpcodes ->
         Singles(ImmOperands \cup RegOperands \cup MemOperands)
    [] op = "MOVS" -> Pairs(DerefOperands, DerefOperands)
    [] op \in JccOpcodes \cup {"LOOP", "JRCXZ"} -> Singles(ImmOperands)
    [] OTHER -> {<<>>}

IsMem(o) == o.kind = "mem"
HasMemOperand(ops) == \E k \in DOMAIN ops : IsMem(ops[k])

\* Instruction::mem_size: the size of the memory operands, the pointer
\* size for the stack operations, None for no memory.
MemSizeChoices(op, ops) ==
  IF HasMemOperand(ops) THEN MemSizes
  ELSE IF op \in {"PUSH", "POP", "CALL", "RETURN", "RETF"} THEN {PtrBytes}
  ELSE {None}

Instructions ==
  UNION {UNION {{[opcode |-> op, operands |-> ops, memSize |-> sz] :
                   sz \in MemSizeChoices(op, ops)} : ops \in Shapes(op)} :
         op \in Opcodes}

Contexts == [regs: [Regs -> RegValues], valid: ValidSets]

\* Inputs that reach the analysis proper, and the four that stop early.
OkInputs ==
  [arch: {"amd64"}, ipCaptured: {TRUE}, decode: {"ok"},
   instruction: Instructions, context: Contexts, stack: StackRegions,
   build: Builds]

ErrorInputs ==
  LET ins == [opcode |-> "HLT", operands |-> <<>>, memSize |-> None]
      ctx == CHOOSE c \in Contexts : TRUE
      Input(a, ip, dec) ==
        [arch |-> a, ipCaptured |-> ip, decode |-> dec, instruction |-> ins,
         context |-> ctx, stack |-> None, build |-> CHOOSE b \in Builds : TRUE]
  IN {Input("x86", TRUE, "ok"), Input("amd64", FALSE, "ok"),
      Input("amd64", TRUE, "truncated"), Input("amd64", TRUE, "invalid")}

Inputs == OkInputs \cup ErrorInputs

(***************************************************************************)
(* Reading the dump.                                                       *)
(***************************************************************************)
InRegion(r, a) == r.base <= a /\ a < r.base + r.size

\* Mutant: only the first byte of the pointer is checked against the region.
ReadPtrStartOnly(r, a) == IF InRegion(r, a) THEN MemContents[a] ELSE None

\* get_memory_at_address::<u64>: all PtrBytes bytes must lie in the region.
ReadPtr(r, a) ==
  IF InRegion(r, a) /\ a + PtrBytes <= r.base + r.size
  THEN MemContents[a] ELSE None

\* memory_list.memory_at_address(a) then get_memory_at_address::<u64>.
ReadPtrFromList(a) ==
  IF \E r \in MemoryList : InRegion(r, a)
  THEN ReadPtr(CHOOSE r \in MemoryList : InRegion(r, a), a)
  ELSE None

\* Mutant: the null flag tests the final address instead of the base.
AddressInfoNullAfterDisp(o, ctx) ==
  IF ~IsMem(o) THEN None
  ELSE IF (o.base # None /\ o.base \notin ctx.valid)
          \/ (o.index # None /\ o.index \notin ctx.valid)
  THEN RegisterInvalid
  ELSE LET base == IF o.base = None THEN 0 ELSE ctx.regs[o.base]
           scaled == IF o.index = None THEN 0
                     ELSE WrapMul(ctx.regs[o.index], o.scale)
           address == WrapAdd(WrapAdd(base, scaled), AsUnsigned(o.disp))
       IN [address |-> address, null |-> address = 0, guard |-> FALSE]

\* Mutant: the index register is added without its scale.
AddressInfoNoScale(o, ctx) ==
  IF ~IsMem(o) THEN None
  ELSE IF (o.base # None /\ o.base \notin ctx.valid)
          \/ (o.index # None /\ o.index \notin ctx.valid)
  THEN RegisterInvalid
  ELSE LET base == IF o.base = None THEN 0 ELSE ctx.regs[o.base]
           index == IF o.index = None THEN 0 ELSE ctx.regs[o.index]
       IN [address |-> WrapAdd(WrapAdd(base, index), AsUnsigned(o.disp)),
           null |-> o.base # None /\ base = 0,
           guard |-> FALSE]

(***************************************************************************)
(* MemoryAddressInfo::try_from_operand (lines 799-834) with get_regspec   *)
(* (842-845): None for a non-memory operand, RegisterInvalid when the   *)
(* base or index register is not valid, else the wrapped address and the  *)
(* null-pointer flag, set when the base register holds 0.                  *)
(***************************************************************************)
AddressInfo(o, ctx) ==
  IF ~IsMem(o) THEN None
  ELSE IF (o.base # None /\ o.base \notin ctx.valid)
          \/ (o.index # None /\ o.index \notin ctx.valid)
  THEN RegisterInvalid
  ELSE LET base == IF o.base = None THEN 0 ELSE ctx.regs[o.base]
           scaled == IF o.index = None THEN 0
                     ELSE WrapMul(ctx.regs[o.index], o.scale)
       IN [address |-> WrapAdd(WrapAdd(base, scaled), AsUnsigned(o.disp)),
           null |-> o.base # None /\ base = 0,
           guard |-> FALSE]

Access(info, size, type) ==
  [address |-> info.address, null |-> info.null, guard |-> info.guard,
   size |-> size, type |-> type]

\* The direction of the memory operand at each position (lines 450-507);
\* "none" for LEA, whose operand is not an access.
ExplicitDirections(op) ==
  CASE op \in {"ADD", "SUB"} -> <<"ReadWrite", "Read">>
    [] op \in {"CALL", "JMP", "JMPF", "PUSH"} -> <<"Read">>
    [] op \in {"CMP", "UCOMISS"} -> <<"Read", "Read">>
    [] op \in {"DEC", "INC"} -> <<"ReadWrite">>
    [] op = "POP" -> <<"Write">>
    [] op \in {"MOV", "MOVAPS", "MOVUPS"} -> <<"Write", "Read">>
    [] op = "LEA" -> <<"none", "none">>

(***************************************************************************)
(* The explicit accesses of the operands, in operand order (lines         *)
(* 424-432 and 438-518): an operand whose address cannot be computed      *)
(* fails the whole list (the `?`).                                         *)
(***************************************************************************)
ExplicitAccesses(ins, ctx, dirs) ==
  LET ops == ins.operands
      idx == SelectSeq([k \in DOMAIN ops |-> k],
                       LAMBDA k : IsMem(ops[k]) /\ dirs[k] # "none")
      infos == [j \in DOMAIN idx |-> AddressInfo(ops[idx[j]], ctx)]
  IN IF \E j \in DOMAIN infos : infos[j] = RegisterInvalid
     THEN RegisterInvalid
     ELSE [j \in DOMAIN infos |->
             Access(infos[j], ins.memSize, dirs[idx[j]])]

\* add_underivable_opcode_accesses (lines 558-599): every memory operand
\* of an opcode outside the whitelist is recorded as Underivable.
UnderivableAccesses(ins, ctx) ==
  ExplicitAccesses(ins, ctx, [k \in DOMAIN ins.operands |-> "Underivable"])

\* Lines 526-537: an implicit stack access, flagged null at address 0.
StackAccess(address, size, type) ==
  Access([address |-> address, null |-> address = 0, guard |-> FALSE],
         size, type)

(***************************************************************************)
(* add_derivable_opcode_implicit_access (lines 520-556).  The stack        *)
(* pointer is read with `if let Ok`, so an invalid rsp silently adds      *)
(* nothing.  `rsp - 8` is a plain u64 subtraction: it panics in a build    *)
(* with overflow checks and wraps in one without.                          *)
(***************************************************************************)
ImplicitAccesses(ins, ctx, build) ==
  LET rsp == ctx.regs["rsp"]
      rspOk == "rsp" \in ctx.valid
  IN CASE ins.opcode \in {"CALL", "PUSH"} /\ rspOk ->
            IF rsp < 8 /\ build = "debug" THEN Panic
            ELSE <<StackAccess((rsp - 8) % Modulus, ins.memSize, "Write")>>
       [] ins.opcode \in {"POP", "RETF", "RETURN"} /\ rspOk ->
            <<StackAccess(rsp, ins.memSize, "Read")>>
       [] OTHER -> <<>>

(***************************************************************************)
(* MemoryAccessList::from_instruction (lines 369-382) and its two paths   *)
(* (412-436, 558-578).  Both return an empty list when the instruction    *)
(* has no memory size.  The result is a list, RegisterInvalid (which    *)
(* analyze_instruction turns into None), or Panic.                       *)
(***************************************************************************)
AccessListOf(ins, ctx, build) ==
  IF ins.memSize = None THEN <<>>
  ELSE IF ins.opcode \in DerivableOpcodes
  THEN LET explicit == ExplicitAccesses(ins, ctx,
                                        ExplicitDirections(ins.opcode))
       IN IF explicit = RegisterInvalid THEN explicit
          ELSE LET implicit == ImplicitAccesses(ins, ctx, build)
               IN IF implicit = Panic THEN implicit
                  ELSE explicit \o implicit
  ELSE UnderivableAccesses(ins, ctx)

\* Mutant: the upper bound's overflow is ignored.
ContainsAccessNoWrap(list, address, type) ==
  \E j \in DOMAIN list :
     /\ list[j].size # None
     /\ list[j].type = type
     /\ list[j].address <= address
     /\ address < (list[j].address + list[j].size) % Modulus

\* MemoryAccessList::contains_access (lines 385-400), with the
\* overflowing_add of the upper bound.
ContainsAccess(list, address, type) ==
  \E j \in DOMAIN list :
     LET acc == list[j]
         upper == acc.address + acc.size
     IN /\ acc.size # None
        /\ acc.type = type
        /\ IF upper >= Modulus
           THEN acc.address <= address \/ address < upper % Modulus
           ELSE acc.address <= address /\ address < upper

(***************************************************************************)
(* InstructionPointerUpdate::from_instruction (lines 603-682) after        *)
(* `.ok().flatten()` (248-250): an update record, the NoUpdate record, or *)
(* None when the update is undetermined or an error occurred.             *)
(***************************************************************************)
NoUpdate == [kind |-> "NoUpdate", address |-> 0, null |-> FALSE]
Update(a) == [kind |-> "Update", address |-> a, null |-> a = 0]

\* Mutant: no arm for the conditional jumps, which fall to NoUpdate.
IPUpdateOfNoJccArm(ins, ctx, stack) ==
  LET op == ins.opcode
  IN CASE op \in CallJmpOpcodes ->
            LET o == ins.operands[1]
                info == AddressInfo(o, ctx)
            IN CASE o.kind = "reg" /\ o.reg \in ctx.valid ->
                      Update(ctx.regs[o.reg])
                 [] IsMem(o) /\ info # RegisterInvalid
                      /\ ReadPtrFromList(info.address) # None ->
                      Update(ReadPtrFromList(info.address))
                 [] OTHER -> None
       [] op \in ReturnOpcodes ->
            IF "rsp" \in ctx.valid /\ stack # None
               /\ ReadPtr(stack, ctx.regs["rsp"]) # None
            THEN Update(ReadPtr(stack, ctx.regs["rsp"]))
            ELSE None
       [] OTHER -> NoUpdate

IPUpdateOf(ins, ctx, stack) ==
  LET op == ins.opcode
  IN CASE op \in CallJmpOpcodes ->
            LET o == ins.operands[1]
                info == AddressInfo(o, ctx)
            IN CASE o.kind = "reg" /\ o.reg \in ctx.valid ->
                      Update(ctx.regs[o.reg])
                 [] IsMem(o) /\ info # RegisterInvalid
                      /\ ReadPtrFromList(info.address) # None ->
                      Update(ReadPtrFromList(info.address))
                 [] OTHER -> None
       [] op \in ReturnOpcodes ->
            IF "rsp" \in ctx.valid /\ stack # None
               /\ ReadPtr(stack, ctx.regs["rsp"]) # None
            THEN Update(ReadPtr(stack, ctx.regs["rsp"]))
            ELSE None
       [] op \in JccOpcodes -> None
       [] OTHER -> NoUpdate

\* get_registers (lines 848-861): base and index names of memory operands.
RegistersOf(ins) ==
  UNION {{o.base, o.index} \ {None} :
         o \in {ins.operands[k] : k \in {k \in DOMAIN ins.operands :
                                          IsMem(ins.operands[k])}}}

\* InstructionProperties::from_instruction (lines 283-360).
PropertiesOf(op) ==
  [derivable |-> op \in DerivableOpcodes,
   division |-> op \in {"DIV", "IDIV"},
   privileged |-> op \in PrivilegedOpcodes,
   onlyGpfWhenNonCanonical |-> op \in DerivableOpcodes /\ op # "MOVAPS"]

\* Mutant: the access list's error is propagated with `?` instead of
\* being turned into None by `.ok()`.
AnalyzeThreadContextListError(inp) ==
  LET ins == inp.instruction
      list == AccessListOf(ins, inp.context, inp.build)
  IN CASE ~inp.ipCaptured -> ReadThreadInstructionFailed
       [] inp.arch # "amd64" -> UnsupportedCpuArch
       [] inp.decode = "truncated" -> InstructionTruncated
       [] inp.decode = "invalid" -> DecodeFailed
       [] list \in {Panic, RegisterInvalid} -> list
       [] OTHER ->
            [properties |-> PropertiesOf(ins.opcode),
             memory_access_list |-> list,
             instruction_pointer_update |->
               IPUpdateOf(ins, inp.context, inp.stack),
             registers |-> RegistersOf(ins)]

(***************************************************************************)
(* analyze_thread_context (lines 174-214) with analyze_instruction and     *)
(* decode_instruction (226-277).  The instruction bytes are fetched before *)
(* the architecture is looked at.  A panic aborts the whole call.          *)
(***************************************************************************)
AnalyzeThreadContext(inp) ==
  LET ins == inp.instruction
      list == AccessListOf(ins, inp.context, inp.build)
  IN CASE ~inp.ipCaptured -> ReadThreadInstructionFailed
       [] inp.arch # "amd64" -> UnsupportedCpuArch
       [] inp.decode = "truncated" -> InstructionTruncated
       [] inp.decode = "invalid" -> DecodeFailed
       [] list = Panic -> Panic
       [] OTHER ->
            [properties |-> PropertiesOf(ins.opcode),
             memory_access_list |->
               IF list = RegisterInvalid THEN None ELSE list,
             instruction_pointer_update |->
               IPUpdateOf(ins, inp.context, inp.stack),
             registers |-> RegistersOf(ins)]

VARIABLES input, result
vars == <<input, result>>

Init == input = None /\ result = None

\* One call of analyze_thread_context.
Analyze ==
  /\ input = None
  /\ \E inp \in Inputs :
        /\ input' = inp
        /\ result' = AnalyzeThreadContext(inp)

\* The call has returned; its result stays.
Returned ==
  /\ input # None
  /\ UNCHANGED vars

Next == Analyze \/ Returned

Spec == Init /\ [][Next]_vars


-----------------------------------------------------------------------------
AccessTypes == {"Read", "Write", "ReadWrite", "Underivable"}
Accesses == [address: Addr, null: BOOLEAN, guard: BOOLEAN,
             size: MemSizes \cup {PtrBytes, None}, type: AccessTypes]
IPUpdates == [kind: {"Update", "NoUpdate"}, address: Addr, null: BOOLEAN]
Errors == {ReadThreadInstructionFailed, UnsupportedCpuArch,
           InstructionTruncated, DecodeFailed, RegisterInvalid, Panic}

IsAnalysis == result \notin Errors \cup {None}

(***************************************************************************)
(* Reference definitions, from the spec's text (4.2, 8.5, 8.7).            *)
(***************************************************************************)
\* address = base + index * scale + sign-extended disp, wrapping.
SpecAddress(o, ctx) ==
  ((IF o.base = None THEN 0 ELSE ctx.regs[o.base])
   + (IF o.index = None THEN 0 ELSE ctx.regs[o.index] * o.scale)
   + o.disp) % Modulus

\* The direction table of 4.2 for the operand at (1-based) position k.
SpecDirection(op, k) ==
  CASE op = "LEA" -> "none"
    [] op \in {"ADD", "SUB", "INC", "DEC"} /\ k = 1 -> "ReadWrite"
    [] op \in {"MOV", "MOVAPS", "MOVUPS", "POP"} /\ k = 1 -> "Write"
    [] op \in DerivableOpcodes -> "Read"
    [] OTHER -> "Underivable"

\* One entry per memory operand with a direction (8.7: flagged as a likely
\* null dereference when its base register holds 0), then the implicit
\* stack effect: a Write at RSP - 8 for PUSH and CALL, a Read at RSP for
\* POP, RET and RETF.  Entries are tagged with their operand position.
SpecAccessList(inp) ==
  LET ins == inp.instruction
      ctx == inp.context
      ops == ins.operands
      rsp == ctx.regs["rsp"]
      explicit == {<<k, [address |-> SpecAddress(ops[k], ctx),
                         null |-> ops[k].base # None
                                  /\ ctx.regs[ops[k].base] = 0,
                         guard |-> FALSE, size |-> ins.memSize,
                         type |-> SpecDirection(ins.opcode, k)]>> :
                   k \in {k \in DOMAIN ops :
                            IsMem(ops[k])
                            /\ SpecDirection(ins.opcode, k) # "none"}}
      implicit ==
        CASE ins.opcode \in {"PUSH", "CALL"} ->
               {<<0, [address |-> (rsp - 8) % Modulus,
                      null |-> (rsp - 8) % Modulus = 0, guard |-> FALSE,
                      size |-> ins.memSize, type |-> "Write"]>>}
          [] ins.opcode \in {"POP", "RETURN", "RETF"} ->
               {<<0, [address |-> rsp, null |-> rsp = 0, guard |-> FALSE,
                      size |-> ins.memSize, type |-> "Read"]>>}
          [] OTHER -> {}
  IN IF ins.memSize = None THEN {} ELSE explicit \cup implicit

\* The list holds exactly the spec's accesses, one entry each.
ListIsSpecList(list, inp) ==
  /\ Len(list) = Cardinality(SpecAccessList(inp))
  /\ {list[j] : j \in DOMAIN list} = {e[2] : e \in SpecAccessList(inp)}

(***************************************************************************)
(* Spec 4.2, 8.5 and 8.7: when the analysis determines the access list     *)
(* and the stack pointer is valid, the list is the one the spec derives   *)
(* from the operands: the direction table, the wrapped base + index *     *)
(* scale + disp address, the null flag of a zero base whatever the        *)
(* displacement, the stack effects at RSP - 8 and RSP, Underivable only   *)
(* for opcodes outside the whitelist.  About MemoryAccessList::            *)
(* from_instruction and MemoryAddressInfo::try_from_operand.               *)
(***************************************************************************)
AccessListMatchesSpec ==
  (IsAnalysis /\ result.memory_access_list # None
   /\ "rsp" \in input.context.valid)
    => ListIsSpecList(result.memory_access_list, input)

(***************************************************************************)
(* The same whether or not rsp is valid: a list that is Some (which the   *)
(* doc comment of memory_access_list says means "successfully             *)
(* determined") holds the stack access of PUSH, CALL, POP and RET too.     *)
(***************************************************************************)
AccessListDetermined ==
  (IsAnalysis /\ result.memory_access_list # None)
    => ListIsSpecList(result.memory_access_list, input)

(***************************************************************************)
(* The three sub-analyses fail independently (analyze_instruction, lines  *)
(* 238-250): for an instruction that was fetched and decoded on amd64,    *)
(* the call returns an analysis (unless it panicked); its access list is  *)
(* None exactly when the instruction has a memory size and some memory    *)
(* operand that is an access (not LEA's) names an invalid base or index   *)
(* register, so one invalid register discards the whole list, however     *)
(* many operands were already added, and is no error of the whole call.   *)
(***************************************************************************)
UsesInvalidRegister(inp) ==
  LET ops == inp.instruction.operands
  IN /\ inp.instruction.memSize # None
     /\ inp.instruction.opcode # "LEA"
     /\ \E k \in DOMAIN ops :
          /\ IsMem(ops[k])
          /\ ~({ops[k].base, ops[k].index} \ {None} \subseteq inp.context.valid)

SubAnalysesIndependent ==
  (input # None /\ input.ipCaptured /\ input.arch = "amd64"
   /\ input.decode = "ok" /\ result # Panic)
    => /\ IsAnalysis
       /\ (result.memory_access_list = None) <=> UsesInvalidRegister(input)

(***************************************************************************)
(* contains_access(address, type) holds exactly when some access of that  *)
(* type and of known size covers address, the size bytes from its start   *)
(* counted modulo 2^W: an access that runs past the top of the address    *)
(* space covers the bytes up to the top and from 0 on.  About the         *)
(* overflowing_add branch of MemoryAccessList::contains_access.            *)
(***************************************************************************)
ContainsAccessMatchesSpan ==
  (IsAnalysis /\ result.memory_access_list # None) =>
    LET list == result.memory_access_list
    IN \A a \in Addr, t \in AccessTypes :
          ContainsAccess(list, a, t)
            <=> \E j \in DOMAIN list :
                   /\ list[j].type = t /\ list[j].size # None
                   /\ (a - list[j].address) % Modulus < list[j].size

(***************************************************************************)
(* Spec 4.2, instruction-pointer update: a register operand of CALL/JMP   *)
(* gives its value, a memory operand the pointer read at its address when *)
(* the memory list holds it, RET the pointer at RSP in the stack memory;  *)
(* conditional branches and undeterminable targets give None, every other *)
(* opcode NoUpdate.  About InstructionPointerUpdate::from_instruction.     *)
(***************************************************************************)
\* A u64 read: all PtrBytes bytes lie in one of the regions.
SpecReadU64(regions, a) ==
  IF \E r \in regions : r.base <= a /\ a + PtrBytes <= r.base + r.size
  THEN MemContents[a] ELSE None

SpecIPUpdate(inp) ==
  LET ins == inp.instruction
      ctx == inp.context
      o == ins.operands[1]
      RegsValid(x) == {x.base, x.index} \ {None} \subseteq ctx.valid
  IN CASE ins.opcode \in CallJmpOpcodes /\ o.kind = "reg" ->
            IF o.reg \in ctx.valid THEN Update(ctx.regs[o.reg]) ELSE None
       [] ins.opcode \in CallJmpOpcodes /\ o.kind = "mem" ->
            IF RegsValid(o) /\ SpecReadU64(MemoryList, SpecAddress(o, ctx)) # None
            THEN Update(SpecReadU64(MemoryList, SpecAddress(o, ctx))) ELSE None
       [] ins.opcode \in ReturnOpcodes ->
            IF "rsp" \in ctx.valid /\ inp.stack # None
               /\ SpecReadU64({inp.stack}, ctx.regs["rsp"]) # None
            THEN Update(SpecReadU64({inp.stack}, ctx.regs["rsp"])) ELSE None
       [] ins.opcode \in JccOpcodes \cup CallJmpOpcodes -> None
       [] OTHER -> NoUpdate

IPUpdateMatchesSpec ==
  IsAnalysis => result.instruction_pointer_update = SpecIPUpdate(input)

(***************************************************************************)
(* The doc comment of instruction_pointer_update: Some(NoUpdate) means it *)
(* was determined that the instruction does not move the instruction      *)
(* pointer.  So no instruction that can branch reports NoUpdate.  About   *)
(* the catch-all arm of InstructionPointerUpdate::from_instruction.        *)
(***************************************************************************)
BranchOpcodes ==
  CallJmpOpcodes \cup ReturnOpcodes \cup JccOpcodes
  \cup {"LOOP", "LOOPZ", "LOOPNZ", "JRCXZ", "JECXZ", "SYSCALL", "SYSENTER",
        "INT", "INTO", "UD2"}

NoUpdateOnlyWithoutBranch ==
  (IsAnalysis /\ result.instruction_pointer_update = NoUpdate)
    => input.instruction.opcode \notin BranchOpcodes

(***************************************************************************)
(* Spec 7: no panics on malformed input.  A crash on PUSH or CALL with a  *)
(* stack pointer below 8 is analyzed like any other.  About `rsp - 8` in  *)
(* add_derivable_opcode_implicit_access.                                   *)
(***************************************************************************)
NoPanic == result # Panic

=============================================================================
