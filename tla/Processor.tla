----------------------------- MODULE Processor -----------------------------
(***************************************************************************)
(* The orchestrator of minidump-processor: process_minidump_with_options  *)
(* in src/minidump-processor/src/processor.rs.                             *)
(*                                                                         *)
(* A behaviour is one call.  The dump is chosen in Init from every dump    *)
(* the stream readers can hand over (with small thread lists), and stays   *)
(* fixed.  The call checks its two required streams, then walks the thread *)
(* list in order, one step per thread, and finally assembles the state.    *)
(* The stack walker is an external collaborator here: WalkStack states its *)
(* contract only (context or MissingContext), the walker itself is the     *)
(* subject of its own module.  Strings, names, time stamps, Linux sidecars *)
(* and the exploitability pass are data the properties never tell apart.  *)
(***************************************************************************)
EXTENDS Naturals, Sequences, SequencesExt

CONSTANTS
  ThreadIds,       \* thread ids that occur in the dump (model values)
  None,            \* Option::None
  MaxThreads,      \* bound on the length of the thread list
  MaxWalkFrames    \* bound on the frames a successful walk yields

ASSUME None \notin ThreadIds
ASSUME MaxThreads \in Nat /\ MaxWalkFrames \in Nat \ {0}

(***************************************************************************)
(* The dump as the stream readers present it.  A thread has an optional   *)
(* captured context and an optional inline stack descriptor; when the      *)
(* descriptor is missing, its stack range may or may not start inside a    *)
(* region of the memory list.  The Breakpad-info stream yields two         *)
(* optional ids, the exception stream an id and an optional context.       *)
(***************************************************************************)
Thread == [id: ThreadIds, hasContext: BOOLEAN,
           stack: {"inline", "memlist", "none"}]

Exception == [threadId: ThreadIds, hasContext: BOOLEAN]

Dumps == [hasThreadList: BOOLEAN, hasSystemInfo: BOOLEAN,
          threads: BoundedSeq(Thread, MaxThreads),
          dumpThreadId: ThreadIds \cup {None},
          requestingThreadId: ThreadIds \cup {None},
          exception: Exception \cup {None}]

\* CallStack as the walker or the skip path produces it.
CallStacks == [info: {"Ok", "MissingContext", "DumpThreadSkipped"},
               context: {"exception", "thread", "none"},
               stack: {"inline", "memlist", "none"},
               frames: 0..MaxWalkFrames]

VARIABLES
  dump,               \* the input, fixed for the behaviour
  phase,              \* "start", "threads", "done" or an error name
  i,                  \* 1-based index of the next thread of the loop
  threads,            \* the CallStacks pushed so far
  requesting_thread   \* index of the crashing thread, or None

vars == <<dump, phase, i, threads, requesting_thread>>

(***************************************************************************)
(* Derived values, computed once before the loop (lines 189-209).          *)
(***************************************************************************)
\* Mutant: the Breakpad-info id preferred over the exception stream's.
CrashingIdBreakpadFirst(d) ==
  IF d.requestingThreadId # None THEN d.requestingThreadId
  ELSE IF d.exception # None THEN d.exception.threadId ELSE None

\* crashing_thread_id.or(requesting_thread_id): the exception stream's id
\* wins over the Breakpad-info requesting id.
CrashingId(d) ==
  IF d.exception # None THEN d.exception.threadId ELSE d.requestingThreadId

HasExceptionContext(d) == d.exception # None /\ d.exception.hasContext

(***************************************************************************)
(* The stack walker's contract (spec 4.1): no context gives               *)
(* MissingContext with no frames; otherwise the walk succeeds with at     *)
(* least the context frame, with or without stack memory.                 *)
(***************************************************************************)
WalkStack(context, stack) ==
  IF context = "none"
  THEN {[info |-> "MissingContext", context |-> context,
         stack |-> stack, frames |-> 0]}
  ELSE {[info |-> "Ok", context |-> context, stack |-> stack,
         frames |-> n] : n \in 1..MaxWalkFrames}

Init ==
  /\ dump \in Dumps
  /\ phase = "start"
  /\ i = 1
  /\ threads = <<>>
  /\ requesting_thread = None

\* Lines 92-94: the thread list is read first and is required.
MissingThreadList ==
  /\ phase = "start"
  /\ ~dump.hasThreadList
  /\ phase' = "MissingThreadList"
  /\ UNCHANGED <<dump, i, threads, requesting_thread>>

\* Lines 101-103: system info is required too.
MissingSystemInfo ==
  /\ phase = "start"
  /\ dump.hasThreadList
  /\ ~dump.hasSystemInfo
  /\ phase' = "MissingSystemInfo"
  /\ UNCHANGED <<dump, i, threads, requesting_thread>>

\* Lines 95-232: every optional stream defaults; the loop starts.
ReadStreams ==
  /\ phase = "start"
  /\ dump.hasThreadList /\ dump.hasSystemInfo
  /\ phase' = "threads"
  /\ UNCHANGED <<dump, i, threads, requesting_thread>>

\* Mutant: the skip path continues without pushing a stack.
SkipDumpThreadNoPush ==
  /\ phase = "threads"
  /\ i <= Len(dump.threads)
  /\ dump.dumpThreadId # None
  /\ dump.dumpThreadId = dump.threads[i].id
  /\ i' = i + 1
  /\ UNCHANGED <<dump, phase, threads, requesting_thread>>

\* Lines 236-240: the thread that wrote the dump is not walked.
SkipDumpThread ==
  /\ phase = "threads"
  /\ i <= Len(dump.threads)
  /\ dump.dumpThreadId # None
  /\ dump.dumpThreadId = dump.threads[i].id
  /\ threads' = Append(threads, [info |-> "DumpThreadSkipped",
                                 context |-> "none", stack |-> "none",
                                 frames |-> 0])
  /\ i' = i + 1
  /\ UNCHANGED <<dump, phase, requesting_thread>>

\* Lines 244-253: the crashing thread is walked from the exception
\* context when the exception stream has one, otherwise from its own.
IsCrashing(t) == CrashingId(dump) # None /\ CrashingId(dump) = t.id

ThreadContext(t) ==
  CASE IsCrashing(t) /\ HasExceptionContext(dump) -> "exception"
    [] t.hasContext -> "thread"
    [] OTHER -> "none"

\* Mutant: the thread id is recorded instead of its index.
RecordRequestingId(k, t) ==
  IF IsCrashing(t) THEN t.id ELSE requesting_thread

\* Line 249: requesting_thread = Some(i) for the crashing thread.
RecordRequesting(k, t) ==
  IF IsCrashing(t) THEN k ELSE requesting_thread

\* Lines 241-272: choose the context and the stack memory, walk, push.
\* thread.stack.or_else(memory_at_address(..)) is the input's "stack".
WalkThread ==
  /\ phase = "threads"
  /\ i <= Len(dump.threads)
  /\ LET t == dump.threads[i]
     IN /\ ~(dump.dumpThreadId # None /\ dump.dumpThreadId = t.id)
        /\ \E cs \in WalkStack(ThreadContext(t), t.stack) :
              threads' = Append(threads, cs)
        /\ requesting_thread' = RecordRequesting(i, t)
  /\ i' = i + 1
  /\ UNCHANGED <<dump, phase>>

\* Lines 275-309: the loop is over; the ProcessState is assembled.
Finish ==
  /\ phase = "threads"
  /\ i > Len(dump.threads)
  /\ phase' = "done"
  /\ UNCHANGED <<dump, i, threads, requesting_thread>>

\* The call has returned (Ok or Err); nothing changes any more.
Returned ==
  /\ phase \notin {"start", "threads"}
  /\ UNCHANGED vars

Next ==
  \/ MissingThreadList \/ MissingSystemInfo \/ ReadStreams
  \/ SkipDumpThread \/ WalkThread \/ Finish
  \/ Returned

Spec == Init /\ [][Next]_vars

-----------------------------------------------------------------------------
TypeOK ==
  /\ dump \in Dumps
  /\ phase \in {"start", "threads", "done",
                "MissingThreadList", "MissingSystemInfo"}
  /\ i \in 1..(MaxThreads + 1)
  /\ threads \in Seq(CallStacks)
  /\ requesting_thread \in (1..MaxThreads) \cup {None}

IsDumpThread(k) ==
  dump.dumpThreadId # None /\ dump.threads[k].id = dump.dumpThreadId

(***************************************************************************)
(* Spec 8.1 and 8.8: the k-th stack reports the k-th thread of the list,   *)
(* the dump-writing thread as DumpThreadSkipped with zero frames and no    *)
(* other one; when the call succeeds there are exactly as many stacks as   *)
(* threads.  About the skip path's push-then-continue (processor.rs        *)
(* 237-240) and the loop's one push per thread.                            *)
(***************************************************************************)
StacksMatchThreads ==
  /\ Len(threads) = i - 1
  /\ Len(threads) <= Len(dump.threads)
  /\ \A k \in 1..Len(threads) :
        (threads[k].info = "DumpThreadSkipped") <=> IsDumpThread(k)
  /\ \A k \in 1..Len(threads) :
        threads[k].info = "DumpThreadSkipped" => threads[k].frames = 0
  /\ phase = "done" => Len(threads) = Len(dump.threads)

(***************************************************************************)
(* The crashing thread (spec 4.3 steps 2 and 5, tie-break of 6): the       *)
(* exception context is used for exactly the walked stacks of the thread   *)
(* the exception stream names, or, without an exception stream, the one    *)
(* Breakpad info names; requesting_thread is the index of such a stack,    *)
(* and when the loop is over it is None only if no walked stack is the     *)
(* crashing thread.  About crashing_thread_id.or(requesting_thread_id)     *)
(* and the requesting_thread assignment (processor.rs 244-253).            *)
(***************************************************************************)
\* Spec 6, thread-id tie-break: the exception stream's id when there is
\* an exception stream, otherwise the Breakpad-info requesting id.
ExceptionThreadIds ==
  IF dump.exception # None THEN {dump.exception.threadId}
  ELSE {dump.requestingThreadId} \ {None}

IsCrashingThread(k) == dump.threads[k].id \in ExceptionThreadIds

CrashingThreadRecorded ==
  /\ \A k \in 1..Len(threads) :
        threads[k].context = "exception"
          <=> (IsCrashingThread(k) /\ ~IsDumpThread(k)
               /\ HasExceptionContext(dump))
  /\ requesting_thread # None =>
        /\ requesting_thread <= Len(threads)
        /\ IsCrashingThread(requesting_thread)
        /\ threads[requesting_thread].info # "DumpThreadSkipped"
  /\ (phase = "done" /\ requesting_thread = None) =>
        \A k \in 1..Len(threads) : IsCrashingThread(k) => IsDumpThread(k)

=============================================================================
