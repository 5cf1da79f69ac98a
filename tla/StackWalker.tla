---------------------------- MODULE StackWalker ----------------------------
(***************************************************************************)
(* One stack walk (spec 4.1) over the debug-info symbol provider of       *)
(* DebugInfo: the provider is built first (DebugInfoSymbolProvider::new), *)
(* then the walker seeds the context frame and adds one caller at a time, *)
(* trying walk_frame (CFI through UnwinderImpl::unwind_frame), the frame  *)
(* pointer and a stack scan in that order; the first strategy that yields *)
(* a caller decides, and the stop conditions may then end the walk.       *)
(*                                                                         *)
(* The walker's own code is not part of this repository; its strategies   *)
(* and stop conditions follow spec.md 4.1.  The input (Inputs) is the     *)
(* thread context and the stack memory, pointer-sized slots or none at    *)
(* all; the x86_64 registers are ip, sp and bp (rip, rsp, rbp), with rbp's *)
(* validity tracked.                                                       *)
(***************************************************************************)
EXTENDS DebugInfo

CONSTANTS
  Inputs,      \* the walks' inputs: [ctx |-> [ip, sp, bp, bpValid],
               \*   mem |-> the stack memory, slot address -> value]
  MaxFrames    \* the walker's frame limit

VARIABLES
  mem,         \* the stack memory (fixed; empty when the dump has none)
  frames,      \* the frames so far, innermost first
  wphase       \* "idle", "walking" or "done"

vars == <<pvars, mem, frames, wphase>>

\* The module list's lookup by address (no overlapping modules).
InModule(m, a) == m.base <= a /\ a < m.base + m.size
InAnyModule(a) == \E j \in DOMAIN Modules : InModule(Modules[j], a)

\* fill_symbol on the frame's module, when its instruction has one; the
\* walker tolerates a FillSymbolError.
Symbolicate(f) ==
  LET js == {j \in DOMAIN Modules : InModule(Modules[j], f.instruction)}
      r == IF js = {} THEN None
           ELSE FillSymbol(Modules[CHOOSE j \in js : TRUE], f.instruction)
  IN [f EXCEPT !.func = IF r = FillSymbolError THEN None ELSE r]

\* Frame 0: the context, trust Context, instruction = the context's ip.
Frame0(ctx) ==
  [ip |-> ctx.ip, sp |-> ctx.sp, bp |-> ctx.bp, bpValid |-> ctx.bpValid,
   instruction |-> ctx.ip, trust |-> "context", func |-> None]

\* What the FrameWalker callbacks show unwind_frame of the callee frame.
WalkerView(callee, n) ==
  [ip |-> callee.ip, sp |-> callee.sp, bp |-> callee.bp,
   bpValid |-> callee.bpValid, instruction |-> callee.instruction,
   hasGrandCallee |-> n > 1]

\* Strategy 1: walk_frame; a caller needs the rip set by set_ra and the
\* CFA set by update_walker.
CallerByCfi(callee, n) ==
  LET r == UnwindFrame(WalkerView(callee, n), mem)
  IN CASE r = Panic -> Panic
       [] r = None -> None
       [] r.ra = None -> None
       [] OTHER -> [ip |-> r.ra, sp |-> r.cfa, bp |-> r.bp, bpValid |-> TRUE,
                    trust |-> "cfi"]

\* Strategy 2: the saved bp at bp, the return address above it.
CallerByFramePointer(callee) ==
  IF callee.bpValid /\ callee.bp \in DOMAIN mem
     /\ callee.bp + Ptr \in DOMAIN mem
  THEN [ip |-> mem[callee.bp + Ptr], sp |-> callee.bp + 2 * Ptr,
        bp |-> mem[callee.bp], bpValid |-> TRUE, trust |-> "fp"]
  ELSE None

\* Strategy 3: the first slot at or above sp that points into a module.
CallerByScan(callee) ==
  LET hits == {a \in DOMAIN mem : a >= callee.sp /\ InAnyModule(mem[a])}
      a == CHOOSE x \in hits : \A y \in hits : x <= y
  IN IF hits = {} THEN None
     ELSE [ip |-> mem[a], sp |-> a + Ptr, bp |-> callee.bp,
           bpValid |-> callee.bpValid, trust |-> "scan"]

\* The strategy chain: the first one that yields a caller wins.
CallerFrame(callee, n) ==
  LET cfi == CallerByCfi(callee, n)
  IN IF cfi # None THEN cfi
     ELSE IF CallerByFramePointer(callee) # None
          THEN CallerByFramePointer(callee)
          ELSE CallerByScan(callee)

\* Mutant: a zero instruction pointer does not end the walk.
StopsWalkNonZero(caller, callee) ==
  \/ caller.sp <= callee.sp
  \/ ~InAnyModule(caller.ip) /\ callee.trust # "context"

\* The stop conditions of spec 4.1 on the caller a strategy found.
StopsWalk(caller, callee) ==
  \/ caller.ip = 0
  \/ caller.sp <= callee.sp
  \/ ~InAnyModule(caller.ip) /\ callee.trust # "context"

\* Mutant: the limit is checked one frame late.
FrameLimitReachedLate == Len(frames) > MaxFrames

FrameLimitReached == Len(frames) >= MaxFrames

Init ==
  /\ ProviderInit
  /\ \E in \in Inputs : mem = in.mem /\ frames = <<Frame0(in.ctx)>>
  /\ wphase = "idle"

\* A step of DebugInfoSymbolProvider::new.
BuildProvider == LoadModule /\ UNCHANGED <<mem, frames, wphase>>

\* walk_stack starts: frame 0 is symbolicated before anything else.
StartWalk ==
  /\ provider = "ready" /\ wphase = "idle"
  /\ frames' = <<Symbolicate(frames[1])>>
  /\ wphase' = "walking"
  /\ UNCHANGED <<pvars, mem>>

\* Mutant: the caller's instruction is its return address itself.
CallerEntryNoAdjust(c) ==
  Symbolicate([ip |-> c.ip, sp |-> c.sp, bp |-> c.bp, bpValid |-> c.bpValid,
               trust |-> c.trust, instruction |-> c.ip, func |-> None])

\* The frame added for a caller the strategies found: its instruction is
\* the return address minus one, and it is symbolicated.
CallerEntry(c) ==
  Symbolicate([ip |-> c.ip, sp |-> c.sp, bp |-> c.bp, bpValid |-> c.bpValid,
               trust |-> c.trust,
               instruction |-> (c.ip + Modulus - 1) % Modulus,
               func |-> None])

\* The caller of the outermost frame, as a one-element set: the actions
\* below bind it once with \E.
FoundCaller == {CallerFrame(frames[Len(frames)], Len(frames))}

\* The caller found passes the stop conditions and is added.
AddCaller ==
  /\ wphase = "walking" /\ ~FrameLimitReached
  /\ \E c \in FoundCaller :
       /\ c \notin {None, Panic}
       /\ ~StopsWalk(c, frames[Len(frames)])
       /\ frames' = Append(frames, CallerEntry(c))
  /\ UNCHANGED <<pvars, mem, wphase>>

\* No strategy yields a caller, or the one found stops the walk.  When
\* unwind_frame panics (the caller is Panic) the walk takes no step: the
\* panic unwinds out of walk_stack.
EndOfStack ==
  /\ wphase = "walking" /\ ~FrameLimitReached
  /\ \E c \in FoundCaller :
       IF c \in {None, Panic} THEN c = None
       ELSE StopsWalk(c, frames[Len(frames)])
  /\ wphase' = "done"
  /\ UNCHANGED <<pvars, mem, frames>>

\* The maximum frame count is reached.
FrameLimit ==
  /\ wphase = "walking" /\ FrameLimitReached
  /\ wphase' = "done"
  /\ UNCHANGED <<pvars, mem, frames>>

\* The walk has returned, or new() has panicked; nothing changes.
Returned ==
  /\ wphase = "done" \/ provider = Panic
  /\ UNCHANGED vars

Next ==
  \/ BuildProvider \/ StartWalk
  \/ AddCaller \/ EndOfStack \/ FrameLimit
  \/ Returned

Spec == Init /\ [][Next]_vars

-----------------------------------------------------------------------------
Trusts == {"context", "cfi", "fp", "scan"}

Frames == [ip: Addr, sp: Nat, bp: Nat, bpValid: BOOLEAN, instruction: Addr,
           trust: Trusts, func: {None, NoSymbol, Panic} \cup DOMAIN Modules]

TypeOK ==
  /\ provider \in {"loading", "ready", Panic}
  /\ k \in 1..(Len(Modules) + 1)
  /\ unwinder \subseteq [lo: Addr, hi: Addr]
  /\ DOMAIN symbols \subseteq Addr
  /\ mem \in [DOMAIN mem -> Addr]
  /\ frames \in Seq(Frames) /\ Len(frames) \in 1..MaxFrames
  /\ wphase \in {"idle", "walking", "done"}

(***************************************************************************)
(* unwind_frame never panics during a walk.  Its `instruction + 1` (line   *)
(* 115) overflows only for the all-ones instruction, the one a zero       *)
(* return address gives after the walker subtracts one; the walker must   *)
(* stop at a zero rip before that frame is unwound.  Stated of the next   *)
(* step of every walk in progress.                                         *)
(***************************************************************************)
NoUnwindPanic ==
  wphase = "walking" /\ ~FrameLimitReached => Panic \notin FoundCaller

(***************************************************************************)
(* Every caller's rip was read from the stack at or above its callee's    *)
(* stack pointer: unwind_frame sets the rip only when framehop found a     *)
(* return address (lines 131-133), and the walker discards a CFI result    *)
(* without one rather than keep the callee's stale rip.                    *)
(***************************************************************************)
ReturnAddressesFromStack ==
  \A j \in 2..Len(frames) :
    \E a \in DOMAIN mem : a >= frames[j - 1].sp /\ mem[a] = frames[j].ip

(***************************************************************************)
(* Every module whose unwind file loaded is unwound over its whole range   *)
(* base..base + size (load_unwind_module, line 251).                       *)
(***************************************************************************)
UnwinderCoversLoadedModules ==
  \A j \in 1..(k - 1) :
    LoadUnwindModule(Modules[j], files[j]) \notin {None, Panic} =>
      \A a \in Addr : InModule(Modules[j], a) => InUnwinder(a)

====
