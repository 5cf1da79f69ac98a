--------------------------- MODULE MCWalkerTests ---------------------------
(***************************************************************************)
(* The walks of the x86 stack-walker unit tests (stackwalker/             *)
(* x86_unittest.rs, spec S1) on StackWalker, scaled to 5-bit addresses    *)
(* and one-unit pointers: module1 at 4..7 and module2 at 8..11 stand for   *)
(* 0x40000000 and 0x50000000 (0x10000 bytes each), the stack starts at 16 *)
(* for 0x80000000, and a D32 is one slot.  The tests' symbolizer has no   *)
(* symbol files and no unwind rules; here the provider's files vary over  *)
(* a few layouts and no address has a rule, so the outcome must not       *)
(* depend on the files.                                                    *)
(***************************************************************************)
EXTENDS StackWalker

\* TestFixture::new: the two modules.
FixtureModules ==
  << [base |-> 4, size |-> 4, debugFile |-> "relative", codeHasParent |-> TRUE],
     [base |-> 8, size |-> 4, debugFile |-> "none", codeHasParent |-> TRUE] >>

AllFiles == [exists |-> Paths, parses |-> Paths, syms |-> Paths]
CodeOnly == [exists |-> {"code"}, parses |-> {}, syms |-> {"code"}]
NoFiles == [exists |-> {}, parses |-> {}, syms |-> {}]
DebugSymbols == [exists |-> {"debug", "code"}, parses |-> {"code"},
                 syms |-> {"debug"}]

FixtureFiles ==
  {<<a, b>> : a, b \in {AllFiles, CodeOnly, NoFiles, DebugSymbols}}

NoRules == {[a \in Addr |-> "none"]}

\* test_simple: an end-of-stack marker of two zero words, eip in module1,
\* ebp at the stack start, esp left at its default 0.
SimpleInput ==
  [ctx |-> [ip |-> 6, sp |-> 0, bp |-> 16, bpValid |-> TRUE],
   mem |-> (16 :> 0 @@ 17 :> 0)]

\* test_traditional: frame 0 has three words of space, then the saved ebp
\* (frame1_ebp) and the return address 0x40008679; frame 1 two words of
\* space, then a zero saved ebp and a zero return address.
TraditionalInput ==
  [ctx |-> [ip |-> 6, sp |-> 16, bp |-> 19, bpValid |-> TRUE],
   mem |-> (16 :> 0 @@ 17 :> 0 @@ 18 :> 0 @@ 19 :> 23 @@ 20 :> 5
            @@ 21 :> 0 @@ 22 :> 0 @@ 23 :> 0 @@ 24 :> 0)]

TestInputs == {SimpleInput, TraditionalInput}

\* The frames the tests assert: trust and instruction, frame by frame.
Expected(in) ==
  IF in = SimpleInput
  THEN << [trust |-> "context", instruction |-> 6] >>
  ELSE << [trust |-> "context", instruction |-> 6],
          [trust |-> "fp", instruction |-> 4] >>

(***************************************************************************)
(* A returned walk has the frames the unit tests assert: one frame for    *)
(* test_simple, and for test_traditional the context frame and a frame-   *)
(* pointer frame whose instruction is the return address minus one, every *)
(* frame in module1, whatever debug files the provider finds.            *)
(***************************************************************************)
UnitTestOutcomes ==
  wphase = "done" =>
    \E in \in TestInputs :
      /\ mem = in.mem /\ frames[1].bp = in.ctx.bp
      /\ [j \in DOMAIN frames |->
            [trust |-> frames[j].trust,
             instruction |-> frames[j].instruction]] = Expected(in)
      /\ \A j \in DOMAIN frames : InModule(Modules[1], frames[j].instruction)
=============================================================================
