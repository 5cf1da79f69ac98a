----------------------------- MODULE DebugInfo -----------------------------
(***************************************************************************)
(* The local debug-info symbol provider of minidump-unwind                 *)
(* (src/minidump-unwind/src/symbols/debuginfo.rs), for x86_64.             *)
(*                                                                         *)
(* DebugInfoSymbolProvider::new walks the module list once; for each       *)
(* module it maps the file with unwind information into the framehop      *)
(* unwinder and loads a symbol map keyed by the module's base address.    *)
(* Afterwards the provider is read-only: unwind_frame (walk_frame) steps  *)
(* one frame with framehop, fill_symbol looks an instruction up in the    *)
(* module's symbol map, get_file_path reports a module's files.            *)
(*                                                                         *)
(* Files are abstracted to the three candidate paths effective_debug_file *)
(* looks at; the file system is a set of facts about them chosen in Init. *)
(* framehop is an external library: FramehopUnwind states its contract on *)
(* the two rule kinds its x86_64 unwinder evaluates.                       *)
(***************************************************************************)
EXTENDS Naturals, Sequences, FiniteSets, TLC

CONSTANTS
  W,               \* width of an address in bits (u64 is 64)
  Ptr,             \* size of a pointer in address units
  Modules,         \* the module list: <<[base, size, debugFile, codeHasParent]>>
  FileFactChoices, \* the file-system facts the modules' files may have
  RuleChoices,     \* the unwind rules framehop may find, by address
  WinX64,          \* cfg!(all(windows, target_arch = "x86_64"))
  Build,           \* "debug" (overflow checks on) or "release"
  None, Panic,
  NoSymbol,        \* fill_symbol found no symbol (Ok with nothing filled)
  FillSymbolError  \* Err(FillSymbolError): no symbol map for the module

Modulus == 2^W
Addr == 0..(Modulus - 1)

\* The candidate files of a module: the debug file anchored in the code
\* file's directory, the debug file as given, and the code file.
Paths == {"joined", "debug", "code"}

\* What exists, what object::read::File::parse accepts (after a successful
\* mmap), and what wholesym loads a symbol map from.
FileFacts == [exists: SUBSET Paths, parses: SUBSET Paths, syms: SUBSET Paths]

VARIABLES
  provider,  \* "loading", "ready", or Panic when new() panicked
  files,     \* files[k]: the facts about module k's files (fixed)
  rules,     \* the rule kind of the unwind info at each address (fixed)
  k,         \* the next module of the loop in new()
  unwinder,  \* the framehop modules added so far: ranges [lo, hi)
  symbols    \* ModuleKey (base address) -> index of the module whose map

pvars == <<provider, files, rules, k, unwinder, symbols>>

(***************************************************************************)
(* effective_debug_file (lines 189-216).  Unwind info on Windows x86_64   *)
(* is only in the binary; otherwise a relative debug file is first looked *)
(* for next to the code file, then as given, then the code file is used.  *)
(***************************************************************************)
EffectiveDebugFile(m, f, unwindInfo) ==
  LET ignoreDebugFile == unwindInfo /\ WinX64
  IN CASE ~ignoreDebugFile /\ m.debugFile = "relative" /\ m.codeHasParent
            /\ "joined" \in f.exists -> "joined"
       [] ~ignoreDebugFile /\ m.debugFile # "none"
            /\ "debug" \in f.exists -> "debug"
       [] OTHER -> "code"

(***************************************************************************)
(* load_unwind_module (lines 218-255): open, map and parse the file, then *)
(* give framehop the range base..base + size.  The addition is a plain    *)
(* u64 addition: it panics with overflow checks on and wraps without.     *)
(***************************************************************************)
LoadUnwindModule(m, f) ==
  LET path == EffectiveDebugFile(m, f, TRUE)
  IN IF path \notin f.exists \/ path \notin f.parses THEN None
     ELSE IF m.base + m.size >= Modulus /\ Build = "debug" THEN Panic
     ELSE [lo |-> m.base, hi |-> (m.base + m.size) % Modulus]

\* ModuleKey::for_module (lines 140-159): a module's key is its base
\* address alone.
ModuleKey(m) == m.base

ProviderInit ==
  /\ provider = "loading"
  /\ files \in FileFactChoices
  /\ rules \in RuleChoices
  /\ k = 1
  /\ unwinder = {}
  /\ symbols = [b \in {} |-> 0]

(***************************************************************************)
(* One iteration of the loop in DebugInfoSymbolProvider::new (268-281):   *)
(* the unwind module is added when it loads, and the symbol map of the    *)
(* symbol file is inserted under the module's base address, replacing any *)
(* map already there (HashMap::insert).  A panic of load_unwind_module    *)
(* ends the construction.                                                 *)
(***************************************************************************)
LoadModule ==
  /\ provider = "loading"
  /\ LET m == Modules[k]
         u == LoadUnwindModule(m, files[k])
     IN /\ provider' = CASE u = Panic -> Panic
                          [] k = Len(Modules) -> "ready"
                          [] OTHER -> "loading"
        /\ unwinder' = IF u \in {None, Panic} THEN unwinder
                       ELSE unwinder \cup {u}
        /\ symbols' = IF EffectiveDebugFile(m, files[k], FALSE) \in files[k].syms
                      THEN (ModuleKey(m) :> k) @@ symbols
                      ELSE symbols
  /\ k' = k + 1
  /\ UNCHANGED <<files, rules>>

(***************************************************************************)
(* framehop::Unwinder::unwind_frame, as this provider uses it: the rule   *)
(* for the instruction's address is found only inside a module of the     *)
(* unwinder; OffsetSp finds the return address at sp, UseFramePointer at  *)
(* bp + Ptr with the caller's bp at bp.  Memory is read through the       *)
(* walker's get_register_at_address (line 121), which fails outside the   *)
(* stack.  A zero return address is the end of the stack: Ok(None).      *)
(***************************************************************************)
InUnwinder(a) == \E r \in unwinder : r.lo <= a /\ a < r.hi

FramehopUnwind(instruction, regs, mem) ==
  LET Readable(a) == a \in DOMAIN mem
      Read(a) == mem[a]
      rule == IF InUnwinder(instruction) THEN rules[instruction] ELSE "none"
      raAt == IF rule = "OffsetSp" THEN regs.sp ELSE regs.bp + Ptr
      cfa == IF rule = "OffsetSp" THEN regs.sp + Ptr ELSE regs.bp + 2 * Ptr
      bp == IF rule = "OffsetSp" THEN regs.bp ELSE Read(regs.bp)
  IN IF rule = "none" \/ ~Readable(raAt)
        \/ (rule = "UseFramePointer" /\ ~Readable(regs.bp))
     THEN None
     ELSE [ra |-> IF Read(raAt) = 0 THEN None ELSE Read(raAt),
           sp |-> cfa, bp |-> bp]

\* regs_from_walker for x86_64 (lines 64-69): rsp, rbp and rip of the
\* callee must all be valid.
RegsFromWalker(w) ==
  IF w.bpValid THEN [ip |-> w.ip, sp |-> w.sp, bp |-> w.bp] ELSE None

\* Mutant: the caller's rip is set even when framehop found no return
\* address, to the callee's rip.
UnwindFrameRaDefault(w, mem) ==
  LET regs == RegsFromWalker(w)
      r == FramehopUnwind(w.instruction, regs, mem)
  IN CASE regs = None -> None
       [] w.hasGrandCallee /\ (w.instruction + 1) % Modulus = 0 -> Panic
       [] r = None -> None
       [] OTHER -> [ra |-> IF r.ra = None THEN w.ip ELSE r.ra,
                    cfa |-> r.sp, bp |-> r.bp]

(***************************************************************************)
(* UnwinderImpl::unwind_frame (lines 109-136), reached through walk_frame *)
(* (353-359).  w is the walker's view of the callee frame.  The frame     *)
(* address is from_return_address(instruction + 1) when the callee has a  *)
(* callee of its own, else from_instruction_pointer(instruction); framehop *)
(* looks both up at `instruction`.  `instruction + 1` overflows at the top *)
(* of the address space: a panic with overflow checks, and without them   *)
(* from_return_address(0) is None and the unwrap panics.  A framehop       *)
(* error is None (logged); a missing return address leaves the caller's   *)
(* rip unset; update_walker sets the CFA and rbp.                          *)
(***************************************************************************)
UnwindFrame(w, mem) ==
  LET regs == RegsFromWalker(w)
      r == FramehopUnwind(w.instruction, regs, mem)
  IN CASE regs = None -> None
       [] w.hasGrandCallee /\ (w.instruction + 1) % Modulus = 0 -> Panic
       [] r = None -> None
       [] OTHER -> [ra |-> r.ra, cfa |-> r.sp, bp |-> r.bp]

(***************************************************************************)
(* fill_symbol (lines 293-351): the symbol map is found by the module's   *)
(* base address; the instruction's offset in the module is a plain u64     *)
(* subtraction, and an offset that does not fit in u32 gives no symbol.   *)
(* The map consulted (under its mutex, released before the external       *)
(* lookup) is the one new() stored under that base: the result names the  *)
(* module whose map it is.                                                 *)
(***************************************************************************)
FillSymbol(m, instruction) ==
  CASE ModuleKey(m) \notin DOMAIN symbols -> FillSymbolError
    [] instruction < m.base /\ Build = "debug" -> Panic
    [] instruction < m.base -> NoSymbol
    [] OTHER -> symbols[ModuleKey(m)]

====
