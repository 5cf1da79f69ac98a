# TLA+ models of minidump-processor

This directory holds TLA+ specifications of the minidump processor in
`src/`. TLC checks them. Every definition is translated from the Rust source
and `PROJECT.json` maps it to the lines it models. The stack walker is the
one exception: its code is not under `src/`, so `StackWalker` follows `spec.md` §4.1 and are marked `spec_modelled`, and so
are framehop's rules (an external library).

## The system and its parts

| Part | Source | State and operations | Module |
|---|---|---|---|
| Processor orchestrator | `minidump-processor/src/processor.rs` | `process_minidump_with_options`: reads the required thread-list and system-info streams, defaults the optional ones, walks the thread list once (skipping the dump-writing thread, choosing the exception or the thread's own context, recording `requesting_thread`, falling back to the memory list for stack memory) and assembles a `ProcessState` | `Processor`, `MCProcessor` |
| Instruction analyzer | `minidump-processor/src/op_analysis.rs` | `analyze_thread_context`: fetches the bytes at the instruction pointer, decodes them, and derives the instruction's properties, its memory access list, its instruction-pointer update and the registers it uses. It is a pure function of the context and the memory. | `OpAnalysis`, `MCOpAnalysis`, `MCOpAnalysisTests` |
| Stack walker | not in `src/` (a unit test and a fuzz target are) | `walk_stack`: from a context and optional stack memory, produces a `CallStack` | `StackWalker` (spec-modelled); the x86 unit tests in `MCWalkerTests`; contract `WalkStack` in `Processor` |
| Debug-info symbol provider | `minidump-unwind/src/symbols/debuginfo.rs` | `new` loads each module's unwind file into framehop and its symbol map; `walk_frame` unwinds one frame; `fill_symbol` looks an instruction up | `DebugInfo`, composed into `StackWalker` |
| Linux string helpers | `minidump/src/strings.rs` | Pure byte-slice splitting and trimming of `LinuxOsStr` | `Strings`, `MCStrings` |
| SystemInfo | `minidump-processor/src/system_info.rs`, `processor.rs` 105-171 | The struct, and its assembly in `process_minidump_with_options`: the OS version string, the microcode version from the Linux cpuinfo stream, the lsb-release fields | `ProcessSystemInfo`, `MCProcessSystemInfo` |
| Integration tests | `minidump-processor/tests/test_processor.rs` | `test_processor`'s assertions on the system info | `ProcessSystemInfo` (`TestProcessorSystemInfo`) |

How they interact: the processor calls `walk_stack` once per thread that is
not skipped. The walker asks a symbol provider (such as the debug-info
provider) to unwind and symbolize frames: `StackWalker` composes the walk
with the debug-info provider, whose `unwind_frame` is the walk's CFI step and
whose `fill_symbol` symbolicates every frame. `spec.md` §4.3 says the processor
also runs the instruction analyzer on the crashing thread. This version of
`processor.rs` never calls it; see "Divergences" below.

## Modules

### `Processor` — the orchestrator (processor.rs 82-310)

* **Behaviour:** one behaviour is one call. `Init` picks the dump from
  `Dumps`, every combination the stream readers can hand over:
  * the thread list and system info each present or missing;
  * up to `MaxThreads` threads whose ids come from `ThreadIds` (duplicates included);
  * each thread with or without a context, and with an inline stack, a stack found in the memory list, or none;
  * Breakpad `dump_thread_id` and `requesting_thread_id`, each optional;
  * an optional exception stream with an optional context.
* **State:**
  * `phase`: where the call is. The error values `MissingThreadList` and
    `MissingSystemInfo` are the early `Err` returns.
  * `i`: the loop index.
  * `threads`: the pushed `CallStack`s.
  * `requesting_thread`.
* **Actions:**
  * `MissingThreadList`, `MissingSystemInfo`: the `?` on the required streams.
  * `ReadStreams`: the optional streams default (95-232).
  * `SkipDumpThread`: 236-240.
  * `WalkThread`: 241-272. It chooses the context with
    `crashing_thread_id.or(requesting_thread_id)` (`ThreadContext`), records
    `requesting_thread` (`RecordRequesting`), and pushes the walker's result.
  * `Finish`: 275-309.
  * `Returned`: the stutter after the call returns.
* **Left out:** names, `last_error`, module lists and the evil JSON do not
  affect control and are abstracted away. The system-info assembly
  (105-171) is the module `ProcessSystemInfo`.

### `ProcessSystemInfo` — SystemInfo and the Linux standard base (processor.rs 105-171)

* **Shape:** `Assemble` takes the streams from `Inputs` and sets `result` to
  the `SystemInfo` record and the `linux_standard_base`, which is what
  lines 105-171 compute before the thread loop. `Returned` stutters.
* **Strings:** a byte string is a sequence of tokens. `"bad"` is a byte that
  is not UTF-8. `ToStr` is `to_str().ok()`; `ToStringLossy` replaces each
  bad byte.
* **Operators:**
  * `OsVersion`: the `format!` of major.minor.build, plus a space and the
    CSD version (105-114).
  * `ParseMicrocode`, `FromStrRadix16`, `Accumulate`: `to_str`,
    `strip_prefix("0x")`, and `u64::from_str_radix(_, 16)` with its rules:
    an empty string or a lone sign is an error, one leading `+` is
    accepted, and each digit is a checked multiply-and-add. u64 is scaled
    to `Bits` bits.
  * `MicrocodeLoop`: the cpuinfo loop, which breaks at the first
    `microcode` key (129-139).
  * `KeyField`, `LinuxStandardBase`: the match arms and the fold from
    `LinuxStandardBase::default()` (141-158).
  * `SystemInfoOf`: the struct literal (160-171). It sets no `os_build`,
    and the model gives that field `None`.

### `OpAnalysis` — the instruction analyzer (op_analysis.rs 174-861)

* **Shape:** `Analyze` takes an input from `Inputs` and sets `result` to
  `AnalyzeThreadContext(input)`. An input is:
  * an instruction, as an opcode with decoded operands and a memory-operand size;
  * a context, as register values and the set of valid registers;
  * the optional stack memory;
  * the build;
  * or one of the four inputs that fail before decoding.
* **Decoder:** yaxpeax is an external library. `Shapes(op)` states only the
  operand shapes it can return.
* **Arithmetic:** words have `W` bits. `WrapAdd`, `WrapMul` and `AsUnsigned`
  are the code's `wrapping_add`, `wrapping_mul` and `as u64`.
* **Overflow on `rsp - 8`:** modelled per build. In a `"debug"` build
  (overflow checks on, as in the fuzz targets) a negative result is `Panic`.
  In a `"release"` build it wraps.
* **Definitions and the code they follow:**
  * `AddressInfo`: `MemoryAddressInfo::try_from_operand`.
  * `ExplicitAccesses` and `ExplicitDirections`: the per-opcode direction table.
  * `UnderivableAccesses`: opcodes outside the whitelist.
  * `ImplicitAccesses`: the PUSH/CALL/POP/RET stack slot.
  * `AccessListOf`: `MemoryAccessList::from_instruction`.
  * `ContainsAccess`: `contains_access`, including its overflow arm.
  * `IPUpdateOf`: `InstructionPointerUpdate::from_instruction`.
  * `PropertiesOf`: the division, privileged and only-GPF tests.
  * `RegistersOf`: `get_registers`.
* **Error order:** `AnalyzeThreadContext` returns errors in the code's order:
  1. instruction pointer not captured;
  2. unsupported architecture;
  3. truncated bytes;
  4. decode failure.

  After decoding, each sub-analysis fails on its own into `None` and does
  not affect the others (lines 238-250).
* **Reference definitions:** `SpecAccessList`, `SpecIPUpdate` and the span
  inside `ContainsAccessMatchesSpan` are written independently from
  spec.md §4.2 and §8. They are not written from the code.

### `Strings` — the LinuxOsStr helpers (strings.rs 64-131)

* **Results are slices:** every helper borrows from its input. A result is
  therefore a slice `Sl(from, to)`, a 0-based start and a length. Content
  alone would hide an off-by-one that shifts a slice.
* **Definitions:**
  * `SplitOnce` and `RSplitOnce`: `position` and `rposition` (SequencesExt's
    `SelectInSeq` and `SelectLastInSeq`).
  * `SplitFrom`: RECURSIVE; it is `<[u8]>::split`.
  * `Split`, `Lines`.
  * `SplitAsciiWhitespace`: split plus the filter on empty pieces.
  * `TrimAsciiWhitespace`: the two scans and `first..=last`, or `0..0`.
* **Call:** one `Call` applies every helper to an input of at most `MaxLen`
  bytes and a separator.
* **Whitespace:** `AsciiWhitespace` is the set `u8::is_ascii_whitespace`
  accepts, given as a constant.
* **Reference definitions:** the properties compare each result with one:
  * `CutsAt`: left ++ sep ++ right is the input, with no separator on the
    near side.
  * `Gaps`: the slices between the sorted separator positions.
  * `IsWord`: maximal whitespace-free runs.
  * Trimming: only whitespace outside the slice, non-whitespace at its ends.

### `DebugInfo` — the debug-info provider (debuginfo.rs 63-351)

* **State:** `provider` (loading, ready or `Panic`), `k` (the loop index of
  `new`), `unwinder` (the framehop ranges `[lo, hi)` added so far) and
  `symbols` (base address to the index of the module whose map it is). The
  file-system facts `files` and framehop's rules `rules` are chosen in
  `ProviderInit` and never change.
* **Files:** a module's candidate paths are abstracted to three: the debug
  file joined to the code file's directory, the debug file, and the code
  file. `EffectiveDebugFile` is lines 189-216. `LoadUnwindModule` is
  open/mmap/parse, then `base + size` as a plain u64 addition: it wraps in a
  release build and panics with overflow checks (`Build`).
* **`LoadModule`:** one iteration of the loop in `new` (268-281). The unwind
  module is added when it loads. The symbol map is inserted under the base
  address, replacing any map already there (`HashMap::insert`).
* **`UnwindFrame`:** lines 109-136, for x86_64. `RegsFromWalker` needs rbp
  valid. With a grand-callee the frame address is `instruction + 1`, which
  overflows for the all-ones instruction (a panic either way: overflow check
  or the `unwrap` of `from_return_address(0)`). A framehop error is `None`.
  `Ok(None)` (a zero return address) leaves the rip unset but still sets the
  CFA and rbp.
* **`FramehopUnwind`** is framehop's contract (spec-modelled): the rule for
  an address is found only in a module of the unwinder; `OffsetSp` finds the
  return address at sp, `UseFramePointer` at bp + Ptr with the saved bp at bp.
* **`FillSymbol`:** the map is found by base address
  (`FillSymbolError` if none). An instruction below the base underflows
  (a panic with overflow checks, no symbol without); the result names the
  module whose map was consulted.

### `StackWalker` — one walk over the provider (spec 4.1, spec-modelled)

* **Composition:** `EXTENDS DebugInfo`. `BuildProvider` steps `new`; then
  `StartWalk` symbolicates frame 0 (trust context, instruction = ip).
* **Input:** `Inputs` is a set of records `[ctx, mem]`: the thread context
  (ip, sp, bp, rbp's validity) and the stack memory, a function from slot
  addresses to values. A dump without stack memory has the empty function,
  so every memory read of every strategy fails.
* **The strategies**, first success wins (`CallerFrame`):
  * `CallerByCfi`: `UnwindFrame` on `WalkerView` of the callee. A result
    without a return address is not a caller.
  * `CallerByFramePointer`: return address at bp + Ptr, saved bp at bp.
  * `CallerByScan`: the lowest slot at or above sp holding an address in a
    module. The call-site check is left out.
* **Stop conditions** (`StopsWalk`), read from spec 4.1 as: the caller's ip
  is 0; or its sp is not above the callee's; or its ip is in no module and
  the callee is not the context frame. Under the other reading of that
  sentence (a zero ip only stops after a non-context frame), a zero return
  address found from the context frame is accepted, and the next
  `unwind_frame` panics at line 115.
* **Actions:** `AddCaller` (the caller passes and is appended with
  instruction = ip - 1, wrapping, and symbolicated), `EndOfStack`,
  `FrameLimit`, and `Returned` (a stutter once the walk returned or `new`
  panicked). A caller that is `Panic` enables no step: the panic leaves
  `walk_stack`. `FoundCaller` binds the caller once for both actions.

## Runs

| Run | Config | Expect | What it shows |
|---|---|---|---|
| `processor` | `MCProcessor.cfg` | pass | `StacksMatchThreads`: the k-th stack belongs to the k-th thread, and only the dump thread is `DumpThreadSkipped` (with 0 frames). On success there is one stack per thread. `CrashingThreadRecorded`: the exception context is used for exactly the walked threads that the tie-break (exception id, else Breakpad id) names. `requesting_thread` indexes such a stack, and it is `None` at the end only if every crashing thread was the dump thread. |
| `system_info` | `MCProcessSystemInfo.cfg` | pass | `TypeOK`: every field is set, the microcode version fits in a u64, and no lsb field keeps an invalid byte. `MicrocodeOfFirstEntry`: the microcode version is the first `microcode` entry's hex value when it fits, and `None` when that entry is malformed, even if a later one is valid. `LsbOfLastLines`: each lsb field is the last line naming it by either its lsb-release or its os-release key. 10,777 distinct states. |
| `system_info_test_processor` | `MCProcessSystemInfoTest.cfg` | violation | `TestProcessorSystemInfo` fails: for Windows 5.1.2600 with CSD version "Service Pack 2", `os_version` is "5.1.2600 Service Pack 2" and `os_build` is unset. |
| `op_analysis` | `MCOpAnalysis.cfg` | pass | `SubAnalysesIndependent`: a fetched and decoded amd64 instruction that does not panic always gives an analysis. Its access list is `None` exactly when a memory operand other than LEA's names an invalid register, and then the whole list is dropped. `AccessListMatchesSpec`: when the list is `Some` and rsp is valid, it equals the reference list. That list holds the wrapped base+index·scale+disp addresses with null flags, directions from the table, and the stack slot at rsp-8 or rsp. `ContainsAccessMatchesSpan`: `contains_access` is membership in the wrapped byte span. `IPUpdateMatchesSpec`: the IP update agrees with the reference, including pointer reads that straddle the end of the stack or of the memory list. The reference's read is its own "all eight bytes in one region" test. 145,349 distinct states. |
| `strings` | `MCStrings.cfg` | pass | On every input of up to 5 bytes over {a, b, space, LF} and every separator: every slice is in bounds (`TypeOK`, so no slicing panic); `SplitOnceSpec`, `SplitSpec` (including the trailing empty line after a final LF), `WordsSpec` and `TrimSpec` agree with the references. |
| `stack_walker` | `MCStackWalker.cfg` | pass | Release build. `NoUnwindPanic`: no walk reaches an `unwind_frame` that would panic at line 115. `ReturnAddressesFromStack`: every caller's rip was read from a stack slot at or above its callee's sp. |
| `op_analysis_unit_tests` | `MCOpAnalysisTests.cfg` | pass | `AccessTestsPass`: every instruction of the amd64 access tests of `op_analysis.rs` (`test_reg_deref` … `test_string_copy`) each get a determined access list whose accesses all have the test's size and whose addresses are exactly the expected ones. This holds in both builds, with or without stack memory. 161 distinct states, about 45 s. |
| `walker_unit_tests` | `MCWalkerTests.cfg` | pass | `UnitTestOutcomes`: the walks of `x86_unittest.rs` `test_simple` and `test_traditional`, scaled down, return exactly the asserted frames for every layout of the provider's files. `test_simple` gives one context frame. `test_traditional` gives a context frame and a frame-pointer frame whose instruction is the return address minus one, both in module1. 176 distinct states. |
| `stack_walker_top_module` | `MCStackWalkerTop.cfg` | violation | `UnwinderCoversLoadedModules` fails: module B at 14..15 is given the range `[14, 0)`, which is empty. |
| `op_analysis_panic` | `MCOpAnalysisPanic.cfg` | violation | `NoPanic` fails: CALL/PUSH with rsp < 8 in a debug build. |
| `op_analysis_rsp_invalid` | `MCOpAnalysisRspInvalid.cfg` | violation | `AccessListDetermined` fails: CALL/PUSH with rsp invalid gives a `Some` list without the stack write. |
| `op_analysis_loop` | `MCOpAnalysisLoop.cfg` | violation | `NoUpdateOnlyWithoutBranch` fails: LOOP is reported as `NoUpdate`. |

Each property of a passing run has a mutant in `PROJECT.json`. A mutant is a
plausible bug in the mapped code, and TLC finds it:

| Mutant | Property it breaks |
|---|---|
| A skip path that does not push | `StacksMatchThreads` |
| The Breakpad id preferred | `CrashingThreadRecorded` |
| The thread id recorded instead of the index | `TypeOK` |
| `from_str_radix` without the overflow checks | `TypeOK` (`system_info`) |
| The cpuinfo loop without its `break` | `MicrocodeOfFirstEntry` |
| Only the `DISTRIB_` keys matched | `LsbOfLastLines` |
| The null flag taken after the displacement | `AccessListMatchesSpec` |
| The access list's error propagated with `?` | `SubAnalysesIndependent` |
| A pointer read checking only its first byte | `IPUpdateMatchesSpec` |
| `contains_access` without its overflow arm | `ContainsAccessMatchesSpan` |
| No Jcc arm | `IPUpdateMatchesSpec` |
| Trim slicing `..=last+1` | `TypeOK` |
| `split_once` at the last separator | `SplitOnceSpec` |
| `split` dropping a trailing empty piece | `SplitSpec` |
| Empty words not filtered | `WordsSpec` |
| Trim with an exclusive end | `TrimSpec` |
| Frame limit checked one frame late (`>`) | `TypeOK` |
| No stop at a zero rip | `NoUnwindPanic` |
| `unwind_frame` setting the callee's rip when framehop found none | `ReturnAddressesFromStack` |
| An index register added without its scale | `AccessTestsPass` |
| A caller's instruction not adjusted to return address - 1 | `UnitTestOutcomes` |

### Bounds and why they suffice

* **`MCProcessor`:**
  * Two thread ids (symmetric model values) and up to three threads. This
    covers duplicate ids, a dump thread equal to the crashing thread, and an
    exception id that differs from the Breakpad id.
  * Walks yield 1-2 frames.
  * 713,439 distinct states, about 10 s.
* **`MCProcessSystemInfo`:**
  * `Bits` = 4, so a microcode value of two hex digits overflows and a
    leading zero does not.
  * Microcode values are every string of up to four tokens over
    {0, x, f, +}, plus `0xF` and one with a bad byte. They cover "0x"
    alone, "0x+", "0x++", "0x0f", "0xff" (overflow) and strings without
    the prefix.
  * cpuinfo lists of up to two entries over the keys `microcode` and
    `model`, so a second microcode entry follows a first one.
  * lsb-release streams are absent or up to three lines over `DISTRIB_ID`,
    `ID`, `PRETTY_NAME` and an unknown key, with a plain and an invalid
    value. Both names of one field therefore occur in either order.
  * The CSD version is absent or "Service Pack 2".
* **`MCOpAnalysis`:**
  * 5-bit words, so wrap-around is reachable with small numbers.
  * Registers `rbx` and `rsp` with values {0, 5, 11, 30}:
    * 0 exercises the null flag and `rsp < 8`;
    * 11 puts rsp where a pointer read straddles the stack's end (11..18
      against [0, 16)). As an index it gives 11·8 = 24 (22 with the
      displacement), where a read straddles the memory list's end;
    * 30 sits near the top, so `+ disp` and `+ size` wrap;
    * displacements are {0, -2}.
  * Scale 8, access sizes {1, 8}.
  * One memory-list region [16, 28) and an optional stack region [0, 16).
    A pointer read succeeds at 16..20 of the list and 0..8 of the stack.
  * 14 opcodes, covering every class the code distinguishes: derivable with
    each direction, stack ops, call/jmp, return, Jcc, division, privileged,
    and underivable (MOVS).
  * 145,349 distinct states, about 25 s.

* **`MCOpAnalysisTests`:** the access tests on 24-bit words.
  * Truncation mod 2^24 commutes with wrapping addition and multiplication,
    so each expected address is exactly the test's, mod 2^24. For example,
    `0xfffffffffff08000` is `0xf08000`, and `0xbadc0ffebadc0ffe` in rbx
    is `0xdc0ffe`. The displacements (up to ±0x7fffffff) are kept as they
    are.
  * A test's bytes are given by their decoded form: `mov rax-sized, [mem]`
    with the test's size, or MOVS with `[rdi]`, `[rsi]` (`rep movsb`
    decodes to the same operands).
  * The cfg overrides `Instructions`, `Contexts` and `Inputs` with the
    tests' own sets. The full 24-bit register file would be too large to
    enumerate.

* **`MCStrings`:**
  * Inputs of up to 5 bytes over four byte values: two ordinary ones, a
    space and LF.
  * That is every placement of up to five separators and whitespace: leading
    and trailing, adjacent, all-whitespace and empty inputs.
  * 5,461 distinct states.

* **`MCStackWalker`:**
  * 4-bit addresses and one-unit pointers, so the top of the address space
    (15, and the wrap of `0 - 1`) is reachable.
  * Module A at 4..5 with a relative debug file; module B at 14..15, the top.
  * The stack memory is either absent or four slots 8..11, each holding 0 (end of stack), 5 (into A),
    15 (into B) or 9 (a stack address, a saved bp). Every strategy succeeds
    and fails somewhere, walks reach the frame limit of 4 frames, and the
    sp check, the zero-ip stop and the out-of-module stop all fire.
  * framehop's rule at 4 and 5 is none, `OffsetSp` or `UseFramePointer`.
  * Contexts: ip 5 or 2 (in A, in no module), sp 8 or 9, bp 9, rbp valid or
    not.
* **`MCWalkerTests`:** the x86 unit tests' fixture on 5-bit addresses.
  * module1 (0x40000000) is 4..7 and module2 (0x50000000) is 8..11. The
    stack (0x80000000) starts at 16, and one D32 is one slot.
  * `test_traditional`'s 12 bytes of space are three slots, its 8 bytes two.
    eip 0x4000c7a5 becomes 6 and the return address 0x40008679 becomes 5,
    so the expected instruction 0x40008678 is 4.
  * The tests are 32-bit x86, while the model walks an x86_64-style frame
    chain. The tests use only the frame-pointer layout (saved bp at bp,
    return address above it), which both share.
  * The tests' symbolizer has no symbol files. Here each module's files
    vary over four layouts and no address has an unwind rule, so the
    asserted outcome is shown not to depend on the provider.

### Fairness

No property is a liveness property, so no module assumes fairness. Every
component is sequential code. Its termination (a bounded loop over the
thread list, the walker's frame limit) follows from the shape of the loops.

## Findings

1. **Panic on `rsp - 8`** (`op_analysis.rs:543`, code bug). A debug or fuzz
   build panics on PUSH/CALL when rsp < 8. spec.md §7 says there are no
   panics on malformed input, and the rest of the file uses wrapping
   arithmetic.
2. **Invalid rsp** (`op_analysis.rs:541`, divergence). `if let Ok(rsp)` drops
   the implicit access, but the list stays `Some`. That contradicts the doc
   comment on `memory_access_list` and scenario S3.
3. **Non-Jcc branches** (`op_analysis.rs:679`, code bug). LOOP, JRCXZ and
   similar fall into `_ => NoUpdate`, which the doc comment defines as "does
   not change the instruction pointer".

4. **Module end overflow** (`debuginfo.rs:251`, code bug). `base +
   module.size()` is a plain u64 addition. For a module that ends at the top
   of the address space, or has a corrupt size, a release build gives
   framehop an empty range, so the module's unwind info is never used. A
   build with overflow checks panics in `new`, against spec.md §7.

5. **`os_build` never set** (`processor.rs:111`, divergence). The CSD
   version is appended to `os_version` (111-113), and the `SystemInfo`
   literal (163-170) has no `os_build`. The doc comment in `system_info.rs`
   (7-15) says that `os_version` looks like "5.1.2600" and that `os_build`
   is the CSD version on Windows. `test_processor` asserts both. As
   written, the literal also omits a field the struct declares.

Divergences noted but not checked:

* **Duplicate base addresses** (`debuginfo.rs:279`). `new` keys each symbol
  map by the module's base address only (`ModuleKey`, line 145), so a
  later module at the same base would replace an earlier module's map.
  spec.md §3 rules such module lists out, and the module list's code is not
  in this repository, so no run checks it.

* `process_minidump_with_options` never calls `analyze_thread_context`,
  although spec.md §4.3 says the processor attaches the analysis to the
  crashing thread.
* `is_privileged` lists `MOV`, which makes every MOV "privileged". The spec
  leaves this as an open question.

## Not modelled (yet), and the plan

* **Debug-info provider:**
  * the aarch64 registers (lines 78-93);
  * the `unimplemented!()` for other CPUs;
  * `get_file_path`, a query of file existence with no state;
  * the inline frames and source lines that `fill_symbol` fills.
* **`PerThread` cache (line 178):** the unwinder cache per OS thread is only
  touched inside `with`, whose callback neither awaits nor re-enters, and the
  walk is single-threaded (spec §5). No interleaving can reach it.
* **The `fill_symbol` mutex:** the processor walks threads one after the
  other, so the lock is never contended.
* **The walk's termination and an abstract walk specification:** the
  walker's own loop is not in this repository. In the model its
  termination only restates the frame limit, and a refinement would only
  restate its guards, so neither is checked.
* **The debug build of the walk:** every walker run uses `Build =
  "release"`. With overflow checks on, `new` panics where a release build
  wraps (finding 4), and `fill_symbol`'s `instruction - base` cannot
  underflow because a frame is only symbolicated in the module that
  contains its instruction. Otherwise the walk is the same as in release.
* **The walker:** inline-frame expansion, the scan's call-site check, and
  the other architectures.
* **Integration tests:** only `test_processor`'s assertions on
  `os_version` and `os_build` are checked. Its thread assertions restate
  what `StacksMatchThreads` and `CrashingThreadRecorded` check on every dump.
  The other assertions (frame contents, modules, symbols, the Linux sidecar
  files of real minidumps) need the stream parser and the walker, which are
  not in this repository.
* **Composition:** `Processor` still uses the `WalkStack` contract, not
  `StackWalker`.

Out of scope:

* The minidump stream parser (it is not in this repository).
* Symbol files and the symbol supplier, I/O.
* JSON output and formatting.
* Thread names, the evil JSON and exploitability (data only).
