------------------------------ MODULE Embedding ------------------------------
(***************************************************************************)
(* Host threads that call the library through its C API: psic_compile,     *)
(* psic_execute and psic_prepare_jit (c_api.cpp), which run the pipeline   *)
(* of compiler.cpp and the JIT of codegen.cpp.  JIT-compiled code may call *)
(* host functions, which may call the library again on the same thread.    *)
(*                                                                         *)
(* The state the calls share:                                              *)
(*   once       the std::once_flag around LLVM's target registration:      *)
(*              NoThread, the thread that runs it, or "done"               *)
(*   jitMutex   the thread that holds executeJit's static mutex            *)
(* and the thread-local state of one thread (logging.cpp, c_api.cpp):      *)
(*   sink       diagnosticSink: the open call whose diagnostics vector it  *)
(*              points to, 0 for none                                      *)
(*   errors     errors > 0 (nothing asks for more)                         *)
(*   lastError  lastErrorMessage is not empty                              *)
(* The rest describes the calls and what the host sees of them:            *)
(*   stack      the open calls of the thread, innermost last               *)
(*   returned   what the last call to return on the thread returned        *)
(*   printed    whether the thread wrote a diagnostic to standard error    *)
(*   budget     the calls the thread may still make (a bound of the model) *)
(***************************************************************************)
EXTENDS Naturals, Sequences, FiniteSets

CONSTANTS
  Thread,
  NoThread,
  MaxDepth,    \* how deep calls may nest on a thread
  MaxCalls     \* how many calls each thread makes

ASSUME ThreadAssumption ==
  NoThread \notin Thread /\ "done" \notin Thread /\ NoThread # "done"
ASSUME BoundAssumption == MaxDepth \in Nat \ {0} /\ MaxCalls \in [Thread -> Nat]

VARIABLES once, jitMutex, sink, errors, lastError, stack, returned, printed, budget

shared == <<once, jitMutex>>
vars == <<shared, sink, errors, lastError, stack, returned, printed, budget>>

Api == {"compile", "execute", "prepare"}
Severity == {"error", "warning"}

(***************************************************************************)
(* Where a call stands:                                                    *)
(*   "request"  buildJit checks the request and the subtarget              *)
(*   "open"     compile() is about to open its capture scope               *)
(*   "front"    options, target, lexer, parser, validation, IR generation  *)
(*   "backend"  optimizeIR or compileToObjectMemory                        *)
(*   "close"    compile() is about to close its capture scope              *)
(*   "entry"    buildJit checks the signature of the entry                 *)
(*   "lock"     executeJit waits for jitMutex                              *)
(*   "setup"    executeJit builds the engine and generates native code     *)
(*   "run"      the entry runs                                             *)
(*   "done"     the result is returned to the host                         *)
(***************************************************************************)
Stages == {"request", "open", "front", "backend", "close", "entry", "lock",
           "setup", "run", "done"}
Capturing == {"front", "backend", "close"}

Frame == [api     : Api,
          stage   : Stages,
          success : BOOLEAN,                             \* result.success
          diags   : SUBSET ((1 .. MaxDepth) \X Severity), \* result.diagnostics
          sink    : 0 .. MaxDepth,                       \* previousSink
          errors  : BOOLEAN,                             \* previousErrors
          failed  : BOOLEAN,   \* history: a step of this call failed
          lost    : BOOLEAN,   \* history: a message could not be stored
          reported : BOOLEAN,  \* history: LLVM reported an error in "setup"
          nested  : BOOLEAN]   \* history: a call made inside it returned null

TypeOK ==
  /\ once \in Thread \cup {NoThread, "done"}
  /\ jitMutex \in Thread \cup {NoThread}
  /\ sink \in [Thread -> 0 .. MaxDepth]
  /\ errors \in [Thread -> BOOLEAN]
  /\ lastError \in [Thread -> BOOLEAN]
  /\ stack \in [Thread -> Seq(Frame)]
  /\ \A t \in Thread : Len(stack[t]) <= MaxDepth
  /\ returned \in [Thread -> {"nothing", "result", "null"}]
  /\ printed \in [Thread -> BOOLEAN]
  /\ budget \in [Thread -> Nat]
  /\ \A t \in Thread : budget[t] <= MaxCalls[t]

Init ==
  /\ once = NoThread
  /\ jitMutex = NoThread
  /\ sink = [t \in Thread |-> 0]
  /\ errors = [t \in Thread |-> FALSE]
  /\ lastError = [t \in Thread |-> FALSE]
  /\ stack = [t \in Thread |-> <<>>]
  /\ returned = [t \in Thread |-> "nothing"]
  /\ printed = [t \in Thread |-> FALSE]
  /\ budget = MaxCalls

-----------------------------------------------------------------------------
(* The innermost call of a thread.                                         *)

Depth(t) == Len(stack[t])
Top(t) == stack[t][Depth(t)]
At(t, stage) == stack[t] # <<>> /\ Top(t).stage = stage
HostCodeRuns(t) == stack[t] = <<>> \/ At(t, "run")

Outer(t) == SubSeq(stack[t], 1, Depth(t) - 1)
SetTop(t, frame) == stack' = [stack EXCEPT ![t] = Append(Outer(t), frame)]
GoTo(t, stage) == SetTop(t, [Top(t) EXCEPT !.stage = stage])

\* A diagnostic pushed straight into the result by buildJit.
FailWith(t) ==
  SetTop(t, [Top(t) EXCEPT !.stage = "done", !.failed = TRUE,
                           !.diags = @ \cup {<<Depth(t), "error">>}])

\* emitDiagnostic: to the vector the sink points to, or to standard error.
Emit(t, severity, frame) ==
  IF sink[t] = 0
  THEN /\ printed' = [printed EXCEPT ![t] = TRUE]
       /\ SetTop(t, frame)
  ELSE /\ stack' = [stack EXCEPT ![t] =
            [Append(Outer(t), frame) EXCEPT ![sink[t]].diags =
               @ \cup {<<Depth(t), severity>>}]]
       /\ UNCHANGED printed

\* logError counts the error first; ErrorStream keeps the count if storing
\* the message runs out of memory.
LogError(t, frame) ==
  /\ errors' = [errors EXCEPT ![t] = TRUE]
  /\ \/ Emit(t, "error", frame)
     \/ /\ SetTop(t, [frame EXCEPT !.lost = TRUE])
        /\ UNCHANGED printed

-----------------------------------------------------------------------------
(* A call begins and ends (c_api.cpp).                                     *)

NewFrame(api) ==
  [api |-> api, stage |-> IF api = "compile" THEN "open" ELSE "request",
   success |-> FALSE, diags |-> {}, sink |-> 0, errors |-> FALSE,
   failed |-> FALSE, lost |-> FALSE, reported |-> FALSE, nested |-> FALSE]

MayCall(t) == HostCodeRuns(t) /\ budget[t] > 0

ClearLastError(t) == lastError' = [lastError EXCEPT ![t] = FALSE]

\* setLastErrorMessage, which gives up if the text cannot be copied.
SetLastError(t) ==
  \E stored \in BOOLEAN : lastError' = [lastError EXCEPT ![t] = stored]

\* Slip: the error of an earlier call is not cleared.
BeginUncleared(t) ==
  /\ MayCall(t)
  /\ Depth(t) < MaxDepth
  /\ \E api \in Api : stack' = [stack EXCEPT ![t] = Append(@, NewFrame(api))]
  /\ budget' = [budget EXCEPT ![t] = @ - 1]
  /\ UNCHANGED <<shared, sink, errors, lastError, returned, printed>>

Begin(t) ==
  /\ MayCall(t)
  /\ Depth(t) < MaxDepth
  /\ \E api \in Api : stack' = [stack EXCEPT ![t] = Append(@, NewFrame(api))]
  /\ ClearLastError(t)
  /\ budget' = [budget EXCEPT ![t] = @ - 1]
  /\ UNCHANGED <<shared, sink, errors, returned, printed>>

\* The calls around one that returned null remember it.
NoteNull(frames) == [i \in DOMAIN frames |-> [frames[i] EXCEPT !.nested = TRUE]]

\* An invalid source pointer, length or options structure.
RefuseArguments(t) ==
  /\ MayCall(t)
  /\ SetLastError(t)
  /\ stack' = [stack EXCEPT ![t] = NoteNull(@)]
  /\ returned' = [returned EXCEPT ![t] = "null"]
  /\ budget' = [budget EXCEPT ![t] = @ - 1]
  /\ UNCHANGED <<shared, sink, errors, printed>>

Return(t) ==
  /\ At(t, "done")
  /\ stack' = [stack EXCEPT ![t] = Outer(t)]
  /\ returned' = [returned EXCEPT ![t] = "result"]
  /\ UNCHANGED <<shared, sink, errors, lastError, printed, budget>>

-----------------------------------------------------------------------------
(* The capture scope of compile() (logging.cpp).                           *)

\* Slips: the sink is one vector off; the count goes on; the sink is not set.
OpenScopeWith(t, newSink, newErrors) ==
  /\ At(t, "open")
  /\ SetTop(t, [Top(t) EXCEPT !.stage = "front", !.sink = sink[t],
                              !.errors = errors[t]])
  /\ sink' = [sink EXCEPT ![t] = newSink]
  /\ errors' = [errors EXCEPT ![t] = newErrors]
  /\ UNCHANGED <<shared, lastError, returned, printed, budget>>
OpenScopeOffByOne(t) == OpenScopeWith(t, Depth(t) + 1, FALSE)
OpenScopeCountingOn(t) == OpenScopeWith(t, Depth(t), errors[t])
OpenScopeUnset(t) == OpenScopeWith(t, sink[t], FALSE)

\* The constructor of DiagnosticCaptureScope.
OpenScope(t) ==
  /\ At(t, "open")
  /\ SetTop(t, [Top(t) EXCEPT !.stage = "front", !.sink = sink[t],
                              !.errors = errors[t]])
  /\ sink' = [sink EXCEPT ![t] = Depth(t)]
  /\ errors' = [errors EXCEPT ![t] = FALSE]
  /\ UNCHANGED <<shared, lastError, returned, printed, budget>>

\* Slip: the destructor leaves the sink.
RestoreErrorsOnly(t) ==
  /\ errors' = [errors EXCEPT ![t] = Top(t).errors]
  /\ UNCHANGED sink

\* Its destructor.
RestoreScope(t) ==
  /\ sink' = [sink EXCEPT ![t] = Top(t).sink]
  /\ errors' = [errors EXCEPT ![t] = Top(t).errors]

\* Where buildJit goes on from compile()'s result, if it does.
AfterCompile(frame) ==
  IF frame.api = "compile" \/ ~frame.success THEN "done"
  ELSE IF frame.api = "execute" THEN "entry" ELSE "lock"

CloseScope(t) ==
  /\ At(t, "close")
  /\ SetTop(t, [Top(t) EXCEPT !.stage = AfterCompile(Top(t)),
                              !.success = @ /\ Top(t).api = "compile"])
  /\ RestoreScope(t)
  /\ UNCHANGED <<shared, lastError, returned, printed, budget>>

-----------------------------------------------------------------------------
(* compile().                                                              *)

\* initializeAllTargetComponents, the first time it is reached; the other
\* threads that reach it wait in call_once.
BeginTargets(t) ==
  /\ At(t, "front") \/ At(t, "setup")
  /\ once = NoThread
  /\ once' = t
  /\ UNCHANGED <<jitMutex, sink, errors, lastError, stack, returned, printed, budget>>

FinishTargets(t) ==
  /\ once = t
  /\ once' = "done"
  /\ UNCHANGED <<jitMutex, sink, errors, lastError, stack, returned, printed, budget>>

\* An option, the target, the source or the program is not accepted: the
\* exception is caught and logged.
FrontThrows(t) ==
  /\ At(t, "front")
  /\ once # t
  /\ LogError(t, [Top(t) EXCEPT !.stage = "close", !.failed = TRUE])
  /\ UNCHANGED <<shared, sink, lastError, returned, budget>>

\* Slip: a flag that is set before the registration stands in for call_once,
\* and a thread that finds it set does not wait.
GenerateOnFlag(t) ==
  /\ At(t, "front")
  /\ once \notin {NoThread, t}
  /\ \/ LogError(t, [Top(t) EXCEPT !.stage = "close", !.failed = TRUE])
     \/ /\ GoTo(t, IF errors[t] THEN "close" ELSE "backend")
        /\ UNCHANGED <<errors, printed>>
  /\ UNCHANGED <<shared, sink, lastError, returned, budget>>

\* compileProgram, which may log errors and return.
Generate(t) ==
  /\ At(t, "front")
  /\ once = "done"
  /\ \/ LogError(t, [Top(t) EXCEPT !.stage = "close", !.failed = TRUE])
     \/ /\ GoTo(t, IF errors[t] THEN "close" ELSE "backend")
        /\ UNCHANGED <<errors, printed>>
  /\ UNCHANGED <<shared, sink, lastError, returned, budget>>

\* Slip: error text from the backend is not logged.
EmissionUnlogged(t) ==
  LET finished == [Top(t) EXCEPT !.stage = "close", !.success = ~errors[t]] IN
  /\ At(t, "backend")
  /\ \/ SetTop(t, finished) /\ UNCHANGED <<errors, printed>>
     \/ /\ SetTop(t, [finished EXCEPT !.success = FALSE, !.failed = TRUE])
        /\ UNCHANGED <<errors, printed>>
  /\ UNCHANGED <<shared, sink, lastError, returned, budget>>

\* optimizeIR or compileToObjectMemory: quietly, with a warning from LLVM, or
\* with an error that LLVM reports or that is returned as text.
Emission(t) ==
  LET finished == [Top(t) EXCEPT !.stage = "close", !.success = ~errors[t]] IN
  /\ At(t, "backend")
  /\ \/ SetTop(t, finished) /\ UNCHANGED <<errors, printed>>
     \/ Emit(t, "warning", finished) /\ UNCHANGED errors
     \/ LogError(t, [finished EXCEPT !.success = FALSE, !.failed = TRUE])
  /\ UNCHANGED <<shared, sink, lastError, returned, budget>>

-----------------------------------------------------------------------------
(* buildJit and executeJit.                                                *)

\* Object output, or a subtarget that is not the host's.
RefuseRequest(t) ==
  /\ At(t, "request")
  /\ FailWith(t)
  /\ UNCHANGED <<shared, sink, errors, lastError, returned, printed, budget>>

AcceptRequest(t) ==
  /\ At(t, "request")
  /\ GoTo(t, "open")
  /\ UNCHANGED <<shared, sink, errors, lastError, returned, printed, budget>>

\* validateJitEntrySignature.
CheckEntry(t) ==
  /\ At(t, "entry")
  /\ FailWith(t) \/ GoTo(t, "lock")
  /\ UNCHANGED <<shared, sink, errors, lastError, returned, printed, budget>>

Lock(t) ==
  /\ At(t, "lock")
  /\ jitMutex = NoThread
  /\ jitMutex' = t
  /\ GoTo(t, "setup")
  /\ UNCHANGED <<once, sink, errors, lastError, returned, printed, budget>>

\* Native code generation runs the handler that parseIRModule installed.
ReportInSetup(t) ==
  /\ At(t, "setup")
  /\ once = "done"
  /\ \/ /\ LogError(t, [Top(t) EXCEPT !.reported = TRUE])
        /\ UNCHANGED <<shared, sink, lastError, returned, budget>>
     \/ /\ Emit(t, "warning", Top(t))
        /\ UNCHANGED <<shared, sink, errors, lastError, returned, budget>>

\* Slip: an early return keeps the mutex.
FailSetupLocked(t) ==
  /\ At(t, "setup")
  /\ once = "done"
  /\ FailWith(t)
  /\ UNCHANGED <<shared, sink, errors, lastError, returned, printed, budget>>

\* A mapping, the ABI, the engine or an address is refused, or a step throws.
FailSetup(t) ==
  /\ At(t, "setup")
  /\ once = "done"
  /\ FailWith(t)
  /\ jitMutex' = NoThread
  /\ UNCHANGED <<once, sink, errors, lastError, returned, printed, budget>>

\* Slip: the entry is called under the mutex.
FinishSetupLocked(t) ==
  /\ At(t, "setup")
  /\ once = "done"
  /\ IF Top(t).api = "prepare"
     THEN /\ SetTop(t, [Top(t) EXCEPT !.stage = "done", !.success = TRUE])
          /\ jitMutex' = NoThread
     ELSE GoTo(t, "run") /\ UNCHANGED jitMutex
  /\ UNCHANGED <<once, sink, errors, lastError, returned, printed, budget>>

\* prepareJit keeps the module; execute unlocks before it calls the entry.
FinishSetup(t) ==
  /\ At(t, "setup")
  /\ once = "done"
  /\ IF Top(t).api = "prepare"
     THEN SetTop(t, [Top(t) EXCEPT !.stage = "done", !.success = TRUE])
     ELSE GoTo(t, "run")
  /\ jitMutex' = NoThread
  /\ UNCHANGED <<once, sink, errors, lastError, returned, printed, budget>>

\* Slip: success is not recorded.
EntryReturnsUnrecorded(t) ==
  /\ At(t, "run")
  /\ GoTo(t, "done")
  /\ UNCHANGED <<shared, sink, errors, lastError, returned, printed, budget>>

EntryReturns(t) ==
  /\ At(t, "run")
  /\ SetTop(t, [Top(t) EXCEPT !.stage = "done", !.success = TRUE])
  /\ UNCHANGED <<shared, sink, errors, lastError, returned, printed, budget>>

\* An allocation failure unwinds the call: the scope and the lock are given
\* back by destructors, and the wrapper returns null.
Unwind(t) ==
  /\ \E stage \in {"request", "front", "backend", "close", "setup"} : At(t, stage)
  /\ once # t
  /\ IF Top(t).stage \in Capturing THEN RestoreScope(t) ELSE UNCHANGED <<sink, errors>>
  /\ jitMutex' = IF jitMutex = t THEN NoThread ELSE jitMutex
  /\ stack' = [stack EXCEPT ![t] = NoteNull(Outer(t))]
  /\ SetLastError(t)
  /\ returned' = [returned EXCEPT ![t] = "null"]
  /\ UNCHANGED <<once, printed, budget>>

-----------------------------------------------------------------------------
CallHost(t) == Begin(t) \/ RefuseArguments(t)

CompileStep(t) ==
  \/ OpenScope(t) \/ FrontThrows(t) \/ Generate(t) \/ Emission(t) \/ CloseScope(t)
  \/ BeginTargets(t) \/ FinishTargets(t)

JitStep(t) ==
  \/ RefuseRequest(t) \/ AcceptRequest(t) \/ CheckEntry(t) \/ Lock(t)
  \/ FailSetup(t) \/ FinishSetup(t) \/ EntryReturns(t)

\* Everything a thread does inside the library, apart from what may repeat.
Step(t) == CompileStep(t) \/ JitStep(t) \/ Return(t)

Next == \E t \in Thread : CallHost(t) \/ Step(t) \/ ReportInSetup(t) \/ Unwind(t)

Spec == Init /\ [][Next]_vars

\* The operating system runs every thread, and entries return.
FairSpec == Spec /\ \A t \in Thread : WF_vars(Step(t))

-----------------------------------------------------------------------------
(* Properties.                                                             *)

(***************************************************************************)
(* diagnosticSink never points to a vector that is gone, or to one of a    *)
(* call that is no longer compiling: host code and the JIT run without it, *)
(* and a scope that is unwound gives it back (logging.cpp:60-67).          *)
(***************************************************************************)
SinkIsLive ==
  \A t \in Thread :
    sink[t] # 0 =>
      /\ sink[t] = Depth(t)
      /\ \E stage \in Capturing : At(t, stage)

(***************************************************************************)
(* A thread holds jitMutex only while it sets up a module: not in compile, *)
(* and above all not while the entry runs, since a host function the entry *)
(* calls may execute another program (codegen.cpp:488).                    *)
(***************************************************************************)
LockedOnlyInSetup ==
  \A t \in Thread : jitMutex = t <=> At(t, "setup")

\* Behind the front end, or successful: LLVM has worked for the call.
UsesTargets(frame) ==
  frame.stage \in {"backend", "entry", "lock", "setup", "run"} \/ frame.success

(***************************************************************************)
(* LLVM's target registry is read only when it is complete: no call gets   *)
(* behind the front end, holds jitMutex, runs an entry or succeeds while   *)
(* the registration is still to be done, by this thread or by another one  *)
(* (call_once, codegen.cpp:65-75).  executeJit can therefore never be the  *)
(* first to register, which would happen under its mutex (line 381).       *)
(***************************************************************************)
RegisteredBeforeUse ==
  \A t \in Thread : \A i \in DOMAIN stack[t] :
    UsesTargets(stack[t][i]) => once = "done"

(***************************************************************************)
(* A result says "success" exactly when no step of its own call failed.    *)
(* What LLVM reports while a JIT is set up stays counted on the thread     *)
(* when no scope is open, and must not fail a later compilation.           *)
(***************************************************************************)
VerdictIsOwn ==
  \A t \in Thread : At(t, "done") => Top(t).success = ~Top(t).failed

(***************************************************************************)
(* A result holds diagnostics of its own call only; a failed one has an    *)
(* error among them unless its message could not be stored, a successful   *)
(* one has none.                                                           *)
(***************************************************************************)
ResultExplainsItself ==
  \A t \in Thread :
    /\ \A i \in DOMAIN stack[t] : \A d \in stack[t][i].diags : d[1] = i
    /\ At(t, "done") =>
         LET result == Top(t)
             hasError == \E d \in result.diags : d[2] = "error"
         IN  /\ result.success => ~hasError
             /\ ~result.success /\ ~result.lost => hasError

(***************************************************************************)
(* A call that returns a result leaves no error text of an earlier call    *)
(* behind, if no call made from inside it returned null.                   *)
(***************************************************************************)
LastErrorFresh ==
  \A t \in Thread : At(t, "done") /\ ~Top(t).nested => ~lastError[t]

(***************************************************************************)
(* compile() returns its diagnostics and prints none (compiler.hpp:75-79). *)
(* Only the set-up of a JIT, which runs outside a capture scope, prints.   *)
(***************************************************************************)
CompilePrintsNothing ==
  [][\A t \in Thread : printed'[t] # printed[t] => At(t, "setup")]_vars

(***************************************************************************)
(* Every call returns: no thread waits for a lock it holds, or for a       *)
(* registration that nobody finishes.                                      *)
(***************************************************************************)
CallsReturn == \A t \in Thread : stack[t] # <<>> ~> stack[t] = <<>>

\* The stages a host can tell apart.
Visible(frame) ==
  CASE frame.stage = "run" -> "host"
    [] frame.stage = "done" -> IF frame.success THEN "success" ELSE "failure"
    [] OTHER -> "working"

Contract ==
  INSTANCE CallContract
  WITH calls <- [t \in Thread |-> [i \in DOMAIN stack[t] |-> Visible(stack[t][i])]]

(***************************************************************************)
(* The calls keep what CallContract promises a host.                       *)
(***************************************************************************)
KeepsContract == Contract!ContractSpec

(***************************************************************************)
(* c_api.h:78-79: the last error is "null when the last compile/JIT call   *)
(* returned a result".                                                     *)
(***************************************************************************)
NoErrorAfterResult ==
  \A t \in Thread :
    HostCodeRuns(t) /\ returned[t] = "result" => ~lastError[t]

(***************************************************************************)
(* compiler.hpp:156-157: "Source, target, and JIT setup failures are       *)
(* returned as diagnostics": what LLVM reports as an error while it makes  *)
(* the native code is in the result.                                       *)
(***************************************************************************)
SetupErrorsReturned ==
  \A t \in Thread :
    At(t, "done") /\ Top(t).reported => \E d \in Top(t).diags : d[2] = "error"
=============================================================================
