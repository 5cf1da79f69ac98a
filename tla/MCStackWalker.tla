--------------------------- MODULE MCStackWalker ---------------------------
(***************************************************************************)
(* Model-checking instance of StackWalker: 4-bit addresses, pointers of   *)
(* one unit, a stack of four slots at 8..11 or no stack memory, and two  *)
(* modules: A at 4..5 with a relative debug file, and B at 14..15, the    *)
(* top of the address space.  Slot values are a zero, a return address  *)
(* into each module and a stack address, so CFI, frame-pointer and scan  *)
(* callers, the end of the stack and a zero rip all occur.               *)
(***************************************************************************)
EXTENDS StackWalker

MCModules ==
  << [base |-> 4, size |-> 2, debugFile |-> "relative", codeHasParent |-> TRUE],
     [base |-> 14, size |-> 2, debugFile |-> "none", codeHasParent |-> TRUE] >>

\* Every file present and usable, or only the code file, unparseable by
\* object but a symbol source for wholesym.
AllFiles == [exists |-> Paths, parses |-> Paths, syms |-> Paths]
CodeOnly == [exists |-> {"code"}, parses |-> {}, syms |-> {"code"}]

\* Module A's files vary; module B's are all present.
MCFileFactChoices == {<<a, AllFiles>> : a \in {AllFiles, CodeOnly}}

RuleKinds == {"none", "OffsetSp", "UseFramePointer"}

\* framehop's rule for each instruction of module A; none elsewhere.
MCRuleChoices ==
  { [a \in Addr |-> CASE a = 4 -> x [] a = 5 -> y [] OTHER -> "none"] :
      x \in RuleKinds, y \in RuleKinds }

MCContexts == [ip: {5, 2}, sp: {8, 9}, bp: {9}, bpValid: BOOLEAN]

MCMemValues == {0, 5, 9, 15}

\* Stack memory of four slots at 8..11, or none at all.
StackAddrs == 8..11
NoStack == [a \in {} |-> 0]

MCInputs == [ctx: MCContexts, mem: [StackAddrs -> MCMemValues] \cup {NoStack}]
=============================================================================
