------------------------- MODULE MCOpAnalysisTests -------------------------
(***************************************************************************)
(* The amd64 memory-access unit tests of op_analysis.rs (mod tests::amd64, *)
(* lines 864-1190) replayed on OpAnalysis.  The model's words are 24 bits: *)
(* every value of a test is taken mod 2^24 (0xbadc0ffebadc0ffe is         *)
(* \hdc0ffe), and as the address computation is wrapping addition and    *)
(* multiplication, the expected addresses are exactly the tests' mod       *)
(* 2^24.  A test's instruction is the decoded form of its bytes; the      *)
(* register file is CONTEXT_AMD64::default() with the test's registers    *)
(* set, all valid (MinidumpContext::from_raw).                             *)
(***************************************************************************)
EXTENDS OpAnalysis, TLC

\* The registers the tests name, rax as the destination of the loads.
TestRegs == {"rax", "rbx", "rcx", "rsi", "rdi", "rbp", "r9", "r12", "r13",
             "r14", "rsp"}

MCTestRegValues == {0, 10, \h234, \h1000, \h2000, \h4000, \h8000, \h10000,
                    \h100001, \hdc0ffe}
MCTestValidSets == {TestRegs}
MCTestDisps == {0, 16, -16, \h800, -\h800, \h100000, -\h100000,
                \h7fffffff, -\h7fffffff}
MCTestScales == {1, 2, 4, 8}
MCTestOpcodes == {"MOV", "MOVS"}
MCTestMemoryList == {}
MCTestStackRegions == {None, [base |-> 0, size |-> 16]}
MCTestMemContents == [a \in Addr |-> 0]
MCTestBuilds == {"debug", "release"}

Reg(r) == [kind |-> "reg", reg |-> r]
Mem(base, index, scale, disp) ==
  [kind |-> "mem", base |-> base, index |-> index, scale |-> scale,
   disp |-> disp]

\* access_test: data.regs set on a default context, all registers valid.
TestContext(set) ==
  [regs |-> [r \in TestRegs |-> IF r \in DOMAIN set THEN set[r] ELSE 0],
   valid |-> TestRegs]

\* `mov {al, ax, eax, rax}, [mem]` for each size of the test; the loads'
\* cases share the registers and the expected address.
Loads(mem, set, sizes, address) ==
  {[ins |-> [opcode |-> "MOV", operands |-> <<Reg("rax"), mem>>,
             memSize |-> sz],
    context |-> TestContext(set), size |-> sz, addrs |-> {address}] :
   sz \in sizes}

AllSizes == {1, 2, 4, 8}

AccessTests ==
  \* test_reg_deref
  Loads(Mem("rbx", None, None, 0), "rbx" :> \hdc0ffe, AllSizes, \hdc0ffe)
  \* test_base_disp
  \cup Loads(Mem("rbp", None, None, \h800), "rbp" :> \h1000, AllSizes, \h1800)
  \cup Loads(Mem("rbp", None, None, -\h800), "rbp" :> \h1000, {8}, \h800)
  \* test_index_scale
  \cup Loads(Mem(None, "rsi", 4, 0), "rsi" :> \h1000, AllSizes, \h4000)
  \* test_base_index
  \cup Loads(Mem("rbx", "rcx", 1, 0), ("rbx" :> \h1000 @@ "rcx" :> \h234),
             AllSizes, \h1234)
  \* test_base_index_disp
  \cup Loads(Mem("rcx", "r9", 1, 16), ("rcx" :> \h4000 @@ "r9" :> \h2000),
             AllSizes, \h6010)
  \cup Loads(Mem("rcx", "r9", 1, -16), ("rcx" :> \h4000 @@ "r9" :> \h2000),
             {8}, \h5ff0)
  \* test_index_scale_disp: 0xfffffffffff08000 is \hf08000 mod 2^24
  \cup Loads(Mem(None, "r13", 8, \h100000), "r13" :> \h1000, AllSizes,
             \h108000)
  \cup Loads(Mem(None, "r13", 8, -\h100000), "r13" :> \h1000, {8}, \hf08000)
  \* test_base_index_scale
  \cup Loads(Mem("r12", "r14", 2, 0), ("r12" :> \h8000 @@ "r14" :> \h10000),
             AllSizes, \h28000)
  \* test_base_index_scale_disp: 0x80108000 and 0xffffffff80108002 mod 2^24
  \cup Loads(Mem("r9", "rbx", 8, \h7fffffff),
             ("r9" :> \h100001 @@ "rbx" :> \h1000), AllSizes, \h108000)
  \cup Loads(Mem("r9", "rbx", 8, -\h7fffffff),
             ("r9" :> \h100001 @@ "rbx" :> \h1000), {8}, \h108002)
  \* test_string_copy: movs{b,w,d,q} and rep movsb, [rdi] then [rsi]
  \cup {[ins |-> [opcode |-> "MOVS",
                  operands |-> <<Mem("rdi", None, None, 0),
                                 Mem("rsi", None, None, 0)>>,
                  memSize |-> sz],
         context |-> TestContext("rsi" :> \h1000 @@ "rdi" :> \h2000
                                 @@ "rcx" :> 10),
         size |-> sz, addrs |-> {\h2000, \h1000}] : sz \in AllSizes}

TestInstructions == {t.ins : t \in AccessTests}
TestContexts == {t.context : t \in AccessTests}

\* analyze_instruction of each test, in a debug build (cargo test) or a
\* release one, with or without stack memory: none of these may matter.
TestInputs ==
  {[arch |-> "amd64", ipCaptured |-> TRUE, decode |-> "ok",
    instruction |-> t.ins, context |-> t.context, stack |-> s, build |-> b] :
   t \in AccessTests, s \in StackRegions, b \in Builds}

(***************************************************************************)
(* access_test passes on every test: the analysis succeeds, its access    *)
(* list is determined, every access has the test's size, and the         *)
(* accesses' addresses are exactly the expected ones, each once           *)
(* (expected_set.remove for each access, then the set is empty).          *)
(***************************************************************************)
AccessTestsPass ==
  input # None =>
    \E t \in AccessTests :
      /\ t.ins = input.instruction /\ t.context = input.context
      /\ IsAnalysis
      /\ LET list == result.memory_access_list
         IN /\ list # None
            /\ \A j \in DOMAIN list : list[j].size = t.size
            /\ Len(list) = Cardinality(t.addrs)
            /\ {list[j].address : j \in DOMAIN list} = t.addrs
=============================================================================
