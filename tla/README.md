# UniHook in TLA+

UniHook injects a DLL into a process, lists the subroutines of the process and
hooks any of them without knowing its type. Modules here model what the
program does concurrently and what it does to code and pointers in memory: the
shared-memory queue between the loader and the DLL, the two programs around it, the
session of a user at the console, the callback the DLL assembles for a hooked
function, and the three families of hooks of PolyHook (detours, exception hooks,
swapped pointers). TLC checks small instances; TLAPS proves the main facts about the
queue, the two programs, the list of subroutines, the callback, detours, exception hooks and
swapped pointers for every value of the constants, among them that the queue implements a
pair of atomic stacks and that swapped pointers implement chains of callbacks.

## The system

| part | source | state it keeps | operations | hard because |
|---|---|---|---|---|
| SharedMemQueue | `Common/IPC/SharedMemQueue.h` | per direction: message count, end offset, data area, an event; a callback | constructor, PushMessage, PopMessage, ManualLock/Unlock, counts, WaitForMessage | two processes, a lock that some pushes do not hold, kills between any two stores, a half that fills |
| SharedMemMutex, SharedSignal | `Common/IPC/` | owner and depth; set or not set | lock, unlock; Signal, Wait, Reset | abandonment, recursion, signals that coalesce |
| UniHookLoader | `UniHookLoader/*.cpp` | the injector's handle | main loop, ExecuteCommands, PrintDllMessages on the message thread | starts pushing before it has a callback, may kill the DLL's process |
| UniHook DLL | `UniHook/dllmain.cpp` | Results, m_Hooks, MemClient | InitThread, ParseAndExecuteCommands, PrintFoundSubs | the callback is set after the message thread runs; one pop per event |
| HookHandler | `UniHook/HookHandler64.h`, `HookHandler86.h` | the callback buffer | HookFunctionAtRuntime, the Write... functions, the intercepts | hand-written machine code, installed before it is written |
| Detour | `PolyHook/PolyHook.cpp:70-473` | m_hkLength, m_OriginalCode, the trampoline | Hook, UnHook, relocation | threads run the code that is overwritten, hooks on hooks |
| VEHHook, MemoryProtect | `PolyHook/PolyHook.cpp:716-970`, `PolyHook.h:380-478` | m_HookTargets under m_TargetMutex, page protections, debug registers | Hook, UnHook, VEHHandler, GetProtectionObject | exceptions on several threads, an unlocked re-arm |
| VFuncSwap, VFuncDetour, VTableSwap, IATHook | `PolyHook.cpp:475-708` | vtables, a copied vtable, import entries, originals | Hook, UnHook, HookAdditional | threads call between two writes; hooks over each other; a copy that is freed |
| InstructionSearcher | `UniHook/DissasemblyRoutines.cpp` | m_Results | SearchForInstruction | results of earlier searches stay while hooks overwrite the code that is searched |
| Injector | `UniHookLoader/Injector.*` | m_Target | OpenTarget, OpenTargetPath, Inject, KillTarget | every step may fail and leave the handle of another process |
| CmdLineParser | `UniHookLoader/CmdLineParser.h` | m_RegArgs, m_FoundArgs, m_Args | RegisterArgs, Parse, ResetArguments | one index advanced in two nested loops; used again for every line |
| Utilities, PDBReader, Tools, Capstone headers | | | | strings, one call of DbgHelp, a console; vendored |

The loader (server) and the DLL (client) share one mapping with two halves,
`ServerToClient` and `ClientToServer`, one mutex and one event per half. The
loader pushes commands; the message thread of the DLL is woken by the event and
calls `ParseAndExecuteCommands`, which pops one message, and answers with pushes
that wake the message thread of the loader, which pops until the half is empty.
A hook command ends in `HookFunctionAtRuntime`, which sets a PolyHook detour to
a callback and then assembles the callback. The hooked function's threads
run: patched entry, callback, first intercept, trampoline, rest of the function,
back to the callback, second intercept, caller. An index the user types refers to
`Results` of the DLL that executes the command, which the searcher fills and which a
list on the console has shown.

## Modules

* `QueueLayout`: sizes and offsets of the mapping in DWORDs, and which half a
  process writes or reads.
* `MessageStack`: the promise of the queue: two bounded stacks whose operations
  are atomic.
* `SharedMemQueue`: the queue, one step per access of shared memory. `count`,
  `end`, `mem`, `owner`/`depth`, `signal` are the mapping, the mutex and the events;
  `pc`, `msg`, `at`, `size`, `reg` are the locals of each thread; `stack` is
  history. `m_MessageCount++` and `m_OffsetToEndOfLastMessage += ...` are a load
  and a store. A push with `ManualLocking = false` acquires and releases the mutex
  in its first line, because its `lock_guard` is the body of an `if`; the rest
  runs unlocked. `Kill` and `Start` end and restart the processes in `Mortal`.
* `SharedMemQueueInv`: the inductive invariants, `LockedInv` and, where processes are
  killed, `SurvivorInv`.
* `UniHookIPC`: the programs of the loader and the DLL composed with
  `SharedMemQueue` (`EXTENDS`): each thread has a program counter `control`, and
  the steps inside a queue operation are those of `SharedMemQueue`. The queue's own
  `Pushers` and `Poppers` are empty there, since the programs decide what is called.
* `CallbackStub`: `HookFunctionAtRuntime`. A piece of code is its length in bytes and its
  instructions by their offset; `p ++ q` is q written behind p, and `buffer` is what is
  written of the callback, `buffer.bytes` being `WriteOffset`. The pieces are written in the
  order of the code; a thread executes
  the callback instruction by instruction on a stack of words. The intercepts and
  the original function change every volatile register, the stack below them and
  (x64) the home space of their caller, as the calling conventions allow. The XMM registers, which
  the callback does not save, are one variable, `xmm`; whether the intercepts were compiled to use
  them is `simd`, chosen at the beginning.
* `Detour`: `X86Detour` and `X64Detour`. Code is a partial function from addresses
  to instructions (a body of `Bodies` is any function of whole instructions, one behind the
  other); the trampoline, the relocation, the jump table, the jump to the
  callback and the nops are computed as the code computes them, with displacements
  of 8 or 32 bits, which are truncated (`Wrap`): on x64 those of 32 bits reach `Reach` bytes, on x86 they
  reach every address. `CalculateLength` sees `Disassembled` = 256 bytes, as the code does, and
  trampolines lie `Far` = 10000 bytes apart, which is more than one can take up. A thread carries, as history, where it would be without hooks.
* `VEHHook`: Hook, UnHook and the handler of `VEHHook` for the three methods, the
  protection object, and `MemoryProtect` as three steps (protect, write, restore). `UnHookGuard`
  reads the page under `m_TargetMutex`; if its guard is armed, the handler locks that `std::mutex` a
  second time (`HandlerRelock`), which is undefined and ends the process.
* `SwapHooks`: `VFuncSwap`, `VFuncDetour`, `VTableSwap` with `HookAdditional`, and
  `IATHook`: the vtables, the vtable pointers, the import entries, the patched entries of
  functions and the members of the hooks; Hook and UnHook write by write, and calls that
  load the vtable pointer, then the entry, then pass callbacks. `chain`, `always`,
  `during`, `passed` and `exposed` are history.
* `HookChains`: the promise of `SwapHooks`: a call passes a chain of callbacks, into which
  Hook inserts one and from which UnHook takes those of one hook, with the others left in
  the order they had (`Without`).
* `CmdLine`: `CmdLineParser::Parse` as an operator, and how a reader of the help
  understands a line.
* `Subroutines`: the searcher, instruction by instruction, and the tasks of the DLL (list,
  hook by index, hook by address) for any number of processes.
* `HookSession`: `EXTENDS` both: the loader's loop over lines, every command of
  `ExecuteCommands`, the injector with its failures, `KillTarget` at the end of the batch, and
  the DLL in each injected process. The queue between them is here a reliable stack, which
  `LockedRefinement` justifies for pushes that hold the mutex.
* `SharedMemQueueProofs`, `UniHookIPCProofs`, `HookSessionProofs`, `SwapHooksProofs`,
  `HookChainsProofs`, `VEHHookProofs`, `DetourProofs`, `CallbackStubProofs`: theorems.
* `MC...`: instances for TLC.

An operator whose comment begins with "Faulty variant" is a plausible mistake of
the code, kept beside the right definition: with it in place of the right one,
TLC finds a property violated, which shows that the property depends on the code.

## Runs

Runs that pass:

| run | what it asks | bounds, and why they are enough |
|---|---|---|
| `QueueOneWay` | two server threads push under `ManualLock`, the client pops: `LockedInv` (with `LockBalanced` in it), `Synchronized`, `QuiescentHeader`, `FramesIntact`, and the refinement `AbstractSpec` | two messages, one longer, in a half that holds two short frames or a long one: full, just fitting and refused all happen |
| `QueueTorn` | each side pushes and pops under the mutex, the client is killed at any step and started again: DWORDs stay in range, the mutex is never leaked, and the server pops nothing but messages (`TypeOK`, `LockBalanced`, `SurvivorReads`) | a half that holds a torn frame and a whole one; one message waiting for the client (`ServerBound`), which may be away |
| `IPCCommands` | a user who lists twice, one who hooks twice and one who hooks from a file, kill and injection at any time: the listings are sent one after the other, the loader prints answers only, all of them, and the mutex is given back, also when the unlocked answers to hook commands corrupt the header | two commands are needed for one to race the answers to the other; a half for two messages makes the DLL fill it inside a batch |
| `VEHSingle` | one thread, a guarded page that holds a breakpoint as well, two functions for one debug register, any order of Hook, call, UnHook: the process ends only by UnHook of a guarded page that is armed still (`TypeOK`, `Survives`, `Armed`, `Clean`) | three calls; one register, so that "none free" happens at the second hook |
| `VEHThreads` | two threads on two breakpoints of one page, each hooked once and unhooked whoever is in a call (`Armed`, `CallsReturn`; the process may end, by a breakpoint whose hook is gone or by a protection object whose page was made unwritable under it) | two calls each: one may trap while the other arms; no hook is set again (`Rehooks`), since one that saves the breakpoint left behind as its byte makes its call nest for ever |
| `StubCalls` | both builds, intercepts that use XMM registers and intercepts that do not; a call made before, during or after the installation, and a recursive one | two calls, one inside the other; 48 words of stack |
| `DetourThreads` | every function of a few instructions, both builds, two hooks set and taken away while a thread runs it | bodies of up to three instructions of each length and kind and four endings: lengths that fit the jump exactly and lengths that need nops; a hook over a hook; one function whose data the second trampoline does not reach |
| `SwapHooks` | three hooks of every mixture of kinds on one or two objects of one class, or on the imports of two modules, set and removed while a thread calls | three hooks: one under and one over the one in the middle; two objects of one class, so that one sees the class's vtable change and not the other's copy; an import that the first descriptor does not hold, so that Hook fails |
| `HookSession` | lines that open, start, inject, list, hook and kill, for two processes of one program | four lines: open, list, hook, list again or hook by an index of the first list; two subroutines, one of whose hooks overwrites the call by which the other was found |

Runs in which TLC finds what the repository says violated:

| run | property | what happens |
|---|---|---|
| `QueueUnlocked` | `Synchronized` | `if(!ManualLocking) std::lock_guard<...> Lock(m_Mutex);` (SharedMemQueue.h:165) unlocks at the end of the line; the loader's push and the DLL's pop update the header at once, and one update is lost |
| `IPCStranded` | `NoCommandLeft` | the event is manual-reset and announces any number of pushes, the DLL pops one message per event: of two commands pushed before it wakes, one waits for a signal that may never come; likewise the greeting when it is consumed before `SetCallback` |
| `StubOverflow` | `WritesInside` | 156 bytes are written to 146 (x64), 34 to 29 (x86) |

What the properties mean:

* `Synchronized`: no two threads are inside the accesses of pushes and pops to
  one half (whoever owns the mutex is what `LockBalanced` says). `QuiescentHeader`, `FramesIntact`: when nobody works on a half, its
  count and end offset describe the messages pushed and not popped, and their
  frames are in memory as they were written. `AbstractSpec`: the queue is a pair
  of atomic stacks. `SurvivorReads`: whatever a killed pusher left, the survivor
  pops only messages that were pushed, and does not fault or stop at the mutex.
* `OnlyReplies`, `AnswersPrinted`: the loader never prints garbage and prints
  everything in the end, provided the DLL's answers are those of `ListSubs`, which
  are locked. `MutexReleased`: whoever owns the mutex gives it back.
* `Transparent`: at the return to its caller a hooked call has passed the first
  intercept, the original, the second intercept, and result (in ax), stack pointer and
  non-volatile general registers are as the original left them. `OriginalUndisturbed`: the
  original starts with every general register (on x86 the flags too) as the caller left it. XMM
  registers, which carry arguments and results on x64, are promised only when the intercepts use
  none: src/README.md:22 says that the saving sequence does not restore them. `Aligned`: it and
  the intercepts start with an aligned stack (x64) and the right parameter.
* `Follows`: a thread that was not inside overwritten or freed bytes executes the
  instructions it would have executed without hooks, with the same operands. It speaks of functions
  that are `Hookable` and, like the next two, `InReach`: on x64 the relocated displacements and the
  short jump through a trampoline fit 32 bits, which the code does not see to (it warns, PolyHook.cpp:377, 435).
  `Intercepted`: a call passes the callback of each hook in place once, newest
  first. `Diverted`: the first instruction of the function leads to the callback of
  the newest hook, also after newer ones have gone. `Restored`: with the last hook gone,
  memory is as before.
* `Armed`: a breakpoint that is hooked and with which nobody is busy is there.
  `Survives`: with one thread, no exception of the program's calls goes unhandled and no write faults; the
  process ends nowhere but in UnHook of a guarded page that is armed still.
  `Clean`: after the last UnHook code, registers, protections and m_HookTargets are
  as before, but for pages a guard hook has made writable. `CallsReturn`: every call
  returns or the process has crashed.

* `AnswersSynchronized`: as long as the user only lists, no two threads access the half
  of the answers at once, though the commands in the other half are pushed without the mutex.
* `NeverWild`: no call follows a pointer that was freed or never written, but for a thread
  that had the copied vtable, or was in the callback of a detour, when that was freed
  (`exposed`; the code does not wait for such a thread). `RightFunction`: a call ends
  in the function it was meant for. `PassedOnce`: it passes no callback twice. `CallsOnce`: it
  passes every callback that was in its way all the time, and none that was never in its
  way. `AllRestored`: with every hook removed,
  pointers and code are as at the beginning. `AbstractSpec`: each write of Hook or UnHook
  changes the chains of all call sites as `HookChains` says, in one step or not at all.
  `CallsEnd`: no callback is ever its own original.
* `ListedHooked`: an index hooks the subroutine of the line the user saw under it, whatever
  was hooked and searched since. `ListedOnce`: no subroutine has two numbers, and no
  number two subroutines, in all the lists of a process. `ResultsStable`: no step drops or moves
  a result. `ReadAsTyped`: a line is read as the help says, unless a parameter is itself the
  name of an option registered later than the one it belongs to.

Fairness. `IPCSpec` assumes weak fairness of each of the four threads' steps (a
thread of a live process that can run does; the user is not assumed to type), and
`FairSpec` of `VEHHook` of each thread that is in the middle of something, `FairSpec` of
`SwapHooks` of each thread that is inside a call. No strong fairness is assumed, though threads compete for a mutex: commands and calls
are finitely many, so that the competition ends. In `IPCCommands` a header that is
wrong makes the popper fault; the process then ends, which releases the mutex.

`CHECK_DEADLOCK FALSE` stands where programs end: every call made, every
command typed, a thread that has executed garbage.

## Proofs

`SharedMemQueueProofs` (no assumption beyond `QueueAssumption` and `LayoutAssumption`; pushes locked or not,
processes killed or not):

* `TypeCorrect`: `Spec => []TypeOK`, with header fields below `DWordRange`.
* `LocksBalanced`: `Spec => []LockBalanced`: owner and depth of the mutex agree with
  where the threads are. `TypeOK /\ LockBalanced` is inductive; each operation is
  one lemma.

The same module, under the two assumptions `PushModes \subseteq {TRUE}`
(every push is made under ManualLock) and `Mortal = {}` (nobody is killed), stated
in each theorem:

* `LockedAlways`: `Spec => []LockedInv`.
* `LockedSynchronized`, `LockedHeader`, `LockedFrames`: `Synchronized`,
  `QuiescentHeader`, `FramesIntact`.
* `LockedRefinement`: `Spec => AbstractSpec`.

None of these is inductive. `LockedInv` adds what each thread knows in the middle of
an operation: between the stores of end and count the two disagree by one frame, which
only the owner of the mutex can be responsible for; `at`, `reg`, `size` repeat the header
as long as the mutex is held; the frames of the stack lie one behind the other without
overlap, so that a push behind the last one disturbs none. With `LockBalanced` two
threads in an operation are one (`Exclusive`), so that a step changes at most its own
part. The refinement maps the store of the count to the abstract push or pop, the refusal
and the empty pop to themselves, and every other step to a stutter.

The same module, when the client may be killed at any step and started again (`PushModes
\subseteq {TRUE}`, `Mortal \subseteq {"Client"}`; `KillTarget` ends the DLL's process, nothing in
the repository ends the loader's):

* `SurvivorsSound`, `SurvivorsRead`: `SurvivorInv` and `SurvivorReads`. A killed pusher leaves a half
  in which the count is less than the number of frames, since a push stores frame, end and
  count in this order. So the half is only `Sound`: its frames are those of some stack of
  messages, the end offset is where they end, and the count promises no more than
  there are, but for the one a reader has popped and not yet counted. The reader of such a half
  finds a whole frame as long as the count is not zero. Frames behind the count are never popped
  again; that nothing is lost is therefore not claimed. The history variable `stack` plays no part.

`UniHookIPCProofs`, for any messages, any mapping, any number of commands and lines, with
the target killed at any time (assumptions `ProgramAssumption`, which says which thread is
which, and `DistinctAssumption`: the four threads differ, and HookAt is no other message):

* `ProgramsBalanced`: `IPCSpec => []LockBalanced`. A step of the programs is an operation of the
  queue or none (`ProgramsOperate`), so the queue's inductive invariant carries over;
  `SharedMemQueueProofs` states its lemmas for the operations of a queue (`OperationOf(M)`),
  whoever calls them, so that both specifications can cite them.
* `AnswersExclude`: `IPCSpec => []AnswersSynchronized`. The invariant `IPCInv` adds `Roles`
  (which thread is ever inside which operations: one thread pushes answers, one pops them),
  and, as long as nothing is hooked, `Listed`: no HookAt is anywhere in memory, in a local or
  popped (`Absent`: PopMessage does not invent a message, though it may read garbage from a
  half that unlocked pushes have corrupted), so that the DLL never takes the branch that pushes without
  the mutex. TLC has checked `IPCInv` on the instance of `IPCCommands`.
* `ProgramTypes`: `ProgramTypeOK`.
* `RepliesOnly`: `IPCSpec => []OnlyReplies`. `RepliesInv` adds to `IPCInv` that, as long as nothing is
  hooked, the half of the answers is `Sound` for the messages `Replies`: it is pushed under the
  mutex only, by a process that may be killed, which is the case of the survivors above with
  the smaller set of messages; the lemmas about survivors are stated for any such set and
  any caller.

`HookSessionProofs`, for any processes, any code, any options and lines (assumptions
`CodeAssumption`: addresses and displacements are integers; `SessionAssumption`):

* `IndexKeepsMeaning`, `SubroutinesOnce`, `NoResultLost`: `ListedHooked`, `ListedOnce`,
  `ResultsStable`. The invariant `ListInv`: `Results` repeats a beginning of `m_Results`
  (`Beginning`), which holds every destination once (`Distinct`), and what was shown, and
  what was hooked by an index that had been shown, is in `Results` under its index (`ShownIn`,
  `HookedIn`). That the searcher keeps what it found, though the calls it found are
  overwritten, is what makes it inductive.

`SwapHooksProofs`, for any hooks, objects, imports and threads (assumptions
`SwapAssumption`: hooks are numbers, which give their order, and finitely many, which bounds the
way of a call; `SiteAssumption`: an entry of a vtable is none of an import table;
`ImportAssumption`: a descriptor of a module imports a function once; `CodeAssumption`: functions are not callbacks;
`SetupAssumption`: a hook of a virtual function names an object and an entry of its vtable):

* `EverythingRestored`: `Spec => []AllRestored`. The invariant `SwapInv` says of every word a
  hook may write (a vtable pointer, an entry of the class's vtable or of an import table, the
  first bytes of a function) that it is `Layered`: the newest hook that wrote it has its value
  there, each of the others has its value saved by the next newer one, and the oldest
  has saved what was there at the beginning. Between two writes of a hook, `BusyOK` keeps that what it has saved
  is still there, and that it is the oldest of the new hooks, or the newest of those that are set
  (`InOrder`). `LayerAdded` and `LayerRemoved` are all that is needed of the order; the
  rest says which words a step leaves alone. TLC has checked `SwapInv` on the instance of the run.
* `CallsNeverWild`, `CallsRightFunction`, `CallsPassOnce`: `NeverWild`, `RightFunction`, `PassedOnce`. What a
  thread meets depends on every word it may load and on every original a callback may have saved,
  of hooks that are gone as well, since a thread may still be in their callbacks. `CallInv`
  adds to `SwapInv` that all of these lead on (`AllLead`): to the same function, and through
  callbacks of older hooks only (`LeadingBelow`), but for memory that is freed. With the order
  of hooks, the callbacks a thread has passed are newer than the place where it is (`CallsOK`),
  so that it passes none again. A thread at a freed place is `exposed` or was never led there.
* `CallsInTheWay`: `CallsOnce`. Which callbacks are in the way is what the recursive function
  `Way` collects; `StepsLeft` decreases along it, over detours of older and older hooks, so that it
  ends in the function within `MaxWay` steps (`WayOf`), and as a set, `Passes`, it is what a place adds and
  what the next place passes. The invariant `OnceInv` says of every call (`OnWay`) that what has been in its way
  all the time is behind it or ahead of it, and that both have been in the way of the
  function. A write may take out of a way only the callbacks of its hook, or put them in
  front of what was there; to know that, `OnceInv` adds to `CallInv` that a detour is of older code
  (`SourceOlder`), which vtable a VFuncSwap writes into (`SwapVtable`), and that the hooks which
  wrote an entry of a copy on top of HookAdditional are `Layered` as well (`MoreLayers`).
  `RemovedSwap` and `RemovedDetour` are the two ways of removing a hook from below others: the next hook's
  original leads there still, or the function's bytes do. TLC has checked a stronger
  `OnceInv`, with the order of the callbacks in it, on the instance of the run.

`HookChainsProofs`, under the same assumptions:

* `HooksChain`: `Unambiguous => (Spec => AbstractSpec)`: `SwapHooks` implements `HookChains`. That a
  write adds one callback to the set of those on a way, or takes those of its hook out of it,
  comes from the proof of `CallsInTheWay`; a chain is a sequence, and what is new here is
  its order. Hooks do not change it: callbacks on a way are sorted (`WaysSorted`) by what
  they lead to, and the detours of one piece of code by age (`Later`). A sorted sequence is
  determined by its members (`SortedSame`), so that a chain with one member more is the old
  one with that callback put in somewhere (`SortedInserted`), and one with some members fewer is the old one
  without them (`SortedWithout`). The invariant `ChainsInv` adds to `OnceInv` that the history variable `chain` is what
  the pointers say (`ChainIs`), and `CopiesBeneath`: the entries of the vtable a hook has copied, and those of the
  copy, are layered over one entry that both have in common. That is needed for `RestoreClass`, which
  makes an object use the vtable beneath the copy again, whatever VFuncSwaps have written into either of them
  since. A step that puts a callback in must also put it into the chain of its own site
  (`PutHome`), and there names can mislead, which is what `Unambiguous` excludes: `FindIATFunc` compares
  the name of the function and not the library, so that a hook of a function that the first descriptor
  of a module has under the same name from another library ends up there; and
  `HookAdditional` of the entry that Hook has diverted already puts a second callback over the first. `NamesAssumption`
  in `MCSwapHooks` has TLC check that the setups of the run are `Unambiguous`.

`VEHHookProofs`, for any threads, hooks, functions and pages, with hooks set and removed any
number of times, `Rehooks` or not (assumption `VEHAssumption`: no two hooks of one function):

* `BreakpointsArmed`: `Spec => []Armed`. The invariant `ArmInv` says that whoever searches
  `m_HookTargets` or writes a byte for Hook, UnHook or the handler holds `m_TargetMutex`
  (`Holds`), what each thread is in the middle of (`Doing`: Hook still finds the
  breakpoint it wrote, the handler still finds the context it stopped at), and that every
  breakpoint of a hook that is out is owed by a thread: one that has just taken it out, or is in a callback
  whose protection object has not written yet (`Owes`, `Owed`). The protection object does not
  hold the mutex; that it writes nothing but breakpoints is what keeps the others' claims
  (`Respects`). Per step, `Pays` says that a claim is handed on or settled. TLC has checked
  `ArmInv` on the instances of both runs.
* `HooksTyped`: `TypeOK`, from `ArmInv` and what the contexts of exceptions and of the protection
  object hold (`Machine`, `Saved`, `Task`).
* `LoneSurvives`, `LoneClean`: `Survives` and `Clean`, under the assumption `Threads = {Installer}`: one
  thread sets, calls and removes. It is needed: with two threads the process may end and leave a
  page unwritable, as `VEHThreads` shows. `AloneInv` says (`Ended`) that the process has ended only where the
  thread has locked the mutex again in UnHook of an armed guarded page, and what the single
  thread knows of registers, protections and `m_HookTargets` at each of its steps; each
  hook out of its place is on the thread's own stack of tasks, which unwinds in order.

`DetourProofs`, for any hooks and threads and any bodies of any length (assumption
`DetourAssumption`: hooks are numbered from 1, which tells their trampolines apart, a displacement of
32 bits reaches `Far` at least, and a body is a sequence of whole instructions of 1 to 15 bytes, a `Body`, and a whole function, `Closed`:
its jumps stay in it, and it does not end in an instruction that goes on to the next; a function that
ends in a jump to another one is not covered):

* `FunctionRestored`, `NewestFirst`: `Restored` and `Diverted`, whether the function is `Hookable` or not;
  `Diverted` for functions in reach (`InReach`), since the short jump of x64 is truncated otherwise.
  `Restored` speaks of no hook in place; its reason is what hooks over hooks have
  saved. `HookInv` says there are layers s[0], ..., s[n] of the function's bytes, one more
  than hooks in place: s[0] is the unhooked function, each s[i] begins with the jump of the i-th
  hook (`Entrance`), and what the i-th hook has saved, put back into s[i], gives s[i-1] (`Undone`). The
  function is the last layer, or, while somebody writes, what is left of it (`Now`); trampolines exist
  for hooks in place only, each in the span of its own (`Placed`), and the pointer of a
  short jump is where the jump looks (`Pointed`). That a saved piece fits back exactly rests
  on `LengthFits`: `CalculateLength` cuts no instruction in two; that trampolines are apart
  on `TableBounded`: the jump table of at most 256 conditional jumps is short of `Far`.
  TLC has checked `HookInv` on the bodies of the run with three hooks.
* `CallsIntercepted`: `Intercepted`, for functions in reach, `Hookable` or not. `PassInv` says of every
  thread that was not caught in bytes overwritten or freed what is still before it (`Passing`): all the
  callbacks, when it is at the entry; those of the first i hooks, when it is in the callback of the i-th
  or in the trampoline that leads there (`Remaining`); none, when it is in the function or in
  a copy of it (`Loose`). A jump that is copied with a displacement of 8 bits leads anywhere, but never to
  the entry, a callback or another trampoline: that bounds where `Loose` code can lead (`LooseLeads`).
* `CopiesFollow`: `Follows`, for functions that are `Hookable` and in reach. `CopyInv` says which bytes are where while hooks come and go: the
  first hook has saved the function's instructions, each other one the jump of the hook below it
  (`Copies`); each trampoline is what Hook built of what was saved (`Built`); what is left of
  the function is as it was (`Rest`). `FollowInv` says of every thread where it is and where it would be
  (`Following`): in what is left, in the copy of the oldest hook at the same offset, or on the way there.
  `CopyKeeps` and `CopyFollows` are the reason: an instruction relocated by Wrap computes the target of the
  original one, when the result fits its width (`WrapFits`, `CopiesReach`, `SlotInReach` get that from
  `InReach`, which the copies of copies inherit), and falls through to the copy of the next one.
  TLC has checked `CopyInv`, `PassInv` and `FollowInv` on the instance of `DetourThreads`.

`CallbackStubProofs`, for both builds, any threads and any number of calls, one inside the
other or not (assumption `StubAssumption`: the stack has 14 words for each call, which is
what a call and its callback take up; on a shorter stack the process ends):

* `CallsTransparent`, `OriginalsUndisturbed`, `EntriesAligned`: `Transparent`,
  `OriginalUndisturbed`, `Aligned`. The invariant `StubInv` has three parts. `BufferInv`: the
  pieces written so far lie at fixed offsets (`Starts`), so that whatever a thread executes is
  the instruction of the finished callback at that place, or leads to `Lost`. For the
  innermost call of a thread, `Innermost` says at each instruction where the stack pointer
  is, which registers are on the stack and in which word, and which of them still hold what
  the caller left there (`Half64` for the first and the second half of the callback alike,
  counted from its first push; `Middle64` for the way to the original; `Half86`). For the
  outer calls, `Chain` and `Standing` say that each is in its original, has saved its bx,
  and that the frames do not overlap, so that what an inner call or an intercept
  overwrites is below them. `Matters` is why the two halves differ: the first must keep every
  general register, the second only ax and those a call may not change. `VectorInv` does the same for
  the XMM registers, which no instruction of the callback touches, when the intercepts use none. TLC has checked `StubInv` on the instance of
  `StubCalls`.

Only model-checked: liveness (`AnswersPrinted`, `MutexReleased`, `CallsReturn`, `CallsEnd`) and
`ReadAsTyped` (the parser is a recursion over the words of a line). `ENABLED`, fairness and
induction over data are beyond TLAPS.

## Abstractions

* A message is a model value with a size in DWORDs (at least one); an area of memory
  says which frame's text or length word each DWORD belongs to.
* What FindSubRoutines finds is the number `MaxSubs` of lines it sends.
* A debug register, a page and a function's first byte are what VEHHook touches of the
  machine; an instruction is executed as a whole.
* In `Detour` a call instruction and the callee are one step; the return address a
  callee holds into a trampoline that is freed is therefore not seen. While Hook or
  UnHook writes over a function, its first bytes are no instruction at all. Hooks of
  one function are taken away newest first.
* In `CallbackStub` the function has no arguments on the stack and its result is in ax or in XMM
  registers; the flags are modelled on x86, where they are saved. The detour itself is
  a jump to the callback.
* `Hookable` (in `Detour`) is where `Follows` speaks: no conditional or short jump in the bytes
  copied, no jump into the middle of them. The jump table is modelled as built, with the
  jump back behind it and not, as the comment at PolyHook.cpp:320-326 has it, before; a
  conditional jump that is not taken therefore runs into entry 1. `Intercepted`, `Diverted` and
  `Restored` are checked for such functions too. A function with less than 16 bytes on x64
  can be hooked and not unhooked (`m_OriginalLength` is 0): the properties stop at its
  UnHook.

* In `SwapHooks` each hook is used once, the newest is removed first, and an import hook is
  removed only from the executable: the other orders are hazards in `PROJECT.json`. A callback asks for its
  original when it is called (`GetOriginal`, as the demo does). The word behind a vtable is
  taken to be no pointer. The writes of a detour are one step, module `Detour` has them apart.
* In `HookSession` lines and messages are split into words already. A hook at an
  address where no instruction begins ends the process; what the overwritten bytes would
  mean is left out. `cs_disasm` stops at data, and an overwritten call is a jump. The
  list is sent in one step (`UniHookIPC` sends it line by line). Processes do
  not come back with the same number. `Inject` may fail for a target that runs, at any of its error
  returns, which are one.

## Not modelled

* Capstone: 8096 of the 11265 lines of implementation are its vendored headers, tables of
  constants of a disassembler. The lines of the program itself are about 3170, and the map
  covers the greater part of those that change state; the share over everything stays
  low for that reason and cannot be raised by modelling.
* `Utilities.h` (split), `Tools.h` (a console, conversions of strings) and `PDBReader` (one
  call of DbgHelp for the text of a list): no state that anything depends on.
* `HookMethod::INT3_BP` of `HookHandler`, which no caller passes; the memory the injector
  allocates and its wait of five seconds, whose outcome it ignores; the destructors,
  which run when a process ends; `MemMessage` with a text that does not fit.

`PROJECT.json` lists each component with the reason, and every hazard no property covers with a note.

## Plan

1. Done: the queue, the two programs, the session of a user, VEHHook, the callback, the
   detours, the hooks that swap pointers; proofs about all of them.
2. Worth adding in exchange for simpler runs: hooks destroyed in the order of `m_Hooks` and not
   newest first; the protection object of one thread, which does not hold `m_TargetMutex` and
   faults when the handler of another restores the page in between; arguments on the stack of a hooked function;
   conditional jumps in the copied bytes; a restart of the server.
3. Proofs: nothing that a run checks and TLAPS could state is left; what is added to the models
   will need its own.
