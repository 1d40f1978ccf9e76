-------------------------- MODULE EmbeddingProofs --------------------------
(***************************************************************************)
(* What the thread-local capture scope, the error count, the mutex of the  *)
(* JIT and the last error guarantee, for every number of threads and       *)
(* calls and every depth to which calls nest.                              *)
(***************************************************************************)
EXTENDS Embedding, SequenceTheorems, TLAPS

HasError(frame) == \E d \in frame.diags : d[2] = "error"

\* Nothing of the call has failed, and no verdict is given yet.
Undecided(frame) == ~frame.success /\ ~frame.failed /\ ~HasError(frame)

\* The verdict is right, and the diagnostics explain it.
Decided(frame) ==
  /\ frame.success = ~frame.failed
  /\ frame.success => ~HasError(frame)
  /\ ~frame.success /\ ~frame.lost => HasError(frame)

\* A scope is always opened while no other is, so what it saves is no sink.
FrameOK(frame, i) ==
  /\ \A d \in frame.diags : d[1] = i
  /\ IF frame.stage \in {"close", "done"} THEN Decided(frame) ELSE Undecided(frame)
  /\ frame.stage \in Capturing => frame.sink = 0

FramesOK(t) == \A i \in 1 .. Depth(t) : FrameOK(stack[t][i], i)

\* Every call but the innermost runs its entry.
OthersRun(t) == \A i \in 1 .. Depth(t) - 1 : stack[t][i].stage = "run"

IsCapturing(t) == stack[t] # <<>> /\ Top(t).stage \in Capturing

SinkOfTop(t) == sink[t] = IF IsCapturing(t) THEN Depth(t) ELSE 0

\* An error ends the generation of code.
NoErrorYet(t) == At(t, "front") \/ At(t, "backend") => ~errors[t]

NullNoted(t) == \A i \in 1 .. Depth(t) : ~stack[t][i].nested => ~lastError[t]

ThreadInv(t) ==
  FramesOK(t) /\ OthersRun(t) /\ SinkOfTop(t) /\ NoErrorYet(t) /\ NullNoted(t)

EmbeddingInv ==
  /\ TypeOK
  /\ LockedOnlyInSetup
  /\ \A t \in Thread : ThreadInv(t)

-----------------------------------------------------------------------------
(* The stack of a thread.                                                  *)

LEMMA StackTyped ==
  ASSUME TypeOK, NEW t \in Thread
  PROVE  /\ stack[t] \in Seq(Frame) /\ Depth(t) \in Nat /\ Depth(t) <= MaxDepth
         /\ stack[t] # <<>> <=> Depth(t) # 0
         /\ \A i \in 1 .. Depth(t) : stack[t][i] \in Frame
         /\ stack[t] # <<>> => Top(t) \in Frame /\ Depth(t) \in 1 .. MaxDepth
<1>1. stack[t] \in Seq(Frame) /\ Depth(t) <= MaxDepth
  BY DEF TypeOK, Depth
<1>2. Depth(t) \in Nat /\ (stack[t] # <<>> <=> Depth(t) # 0)
  BY <1>1, EmptySeq, LenProperties DEF Depth
<1>3. \A i \in 1 .. Depth(t) : stack[t][i] \in Frame
  BY <1>1, ElementOfSeq DEF Depth
<1> QED
  BY <1>1, <1>2, <1>3, BoundAssumption DEF Top

LEMMA OuterTyped ==
  ASSUME TypeOK, NEW t \in Thread, stack[t] # <<>>
  PROVE  /\ Outer(t) \in Seq(Frame) /\ Len(Outer(t)) = Depth(t) - 1
         /\ \A i \in 1 .. Depth(t) - 1 : Outer(t)[i] = stack[t][i]
<1>1. /\ stack[t] \in Seq(Frame) /\ Depth(t) \in Nat /\ Depth(t) # 0
      /\ \A i \in 1 .. Depth(t) : stack[t][i] \in Frame
  BY StackTyped
<1>2. \A i \in 1 .. Depth(t) - 1 : stack[t][i] \in Frame
  BY <1>1
<1>3. 1 \in Int /\ Depth(t) - 1 \in Int
  BY <1>1
<1> QED
  BY <1>1, <1>2, <1>3, SubSeqProperties DEF Outer

LEMMA ReplacedTop ==
  ASSUME TypeOK, NEW t \in Thread, stack[t] # <<>>, NEW frame \in Frame
  PROVE  /\ Append(Outer(t), frame) \in Seq(Frame)
         /\ Len(Append(Outer(t), frame)) = Depth(t)
         /\ \A i \in 1 .. Depth(t) - 1 : Append(Outer(t), frame)[i] = stack[t][i]
         /\ Append(Outer(t), frame)[Depth(t)] = frame
<1>1. /\ Outer(t) \in Seq(Frame) /\ Len(Outer(t)) = Depth(t) - 1
      /\ \A i \in 1 .. Depth(t) - 1 : Outer(t)[i] = stack[t][i]
  BY OuterTyped
<1>2. Depth(t) \in Nat /\ Depth(t) # 0
  BY StackTyped
<1> QED
  BY <1>1, <1>2, AppendProperties

LEMMA ReplacedLast ==
  ASSUME NEW S, NEW s \in Seq(S), NEW e \in S,
         NEW r \in Seq(S), NEW n \in 1 .. Len(r), n = Len(s) + 1, n = Len(r),
         \A i \in 1 .. Len(s) : r[i] = s[i]
  PROVE  [r EXCEPT ![n] = e] = Append(s, e)
<1>1. /\ [r EXCEPT ![n] = e] \in Seq(S) /\ Len([r EXCEPT ![n] = e]) = n
      /\ \A i \in 1 .. n : [r EXCEPT ![n] = e][i] = IF i = n THEN e ELSE r[i]
  BY ExceptSeq
<1>2. /\ Append(s, e) \in Seq(S) /\ Len(Append(s, e)) = n
      /\ \A i \in 1 .. Len(s) : Append(s, e)[i] = s[i]
      /\ Append(s, e)[n] = e
  BY AppendProperties
<1>3. Len(s) \in Nat
  BY LenProperties
<1>4. \A i \in 1 .. n : [r EXCEPT ![n] = e][i] = Append(s, e)[i]
  BY <1>1, <1>2, <1>3
<1> QED
  BY <1>1, <1>2, <1>4, SeqEqual

\* SetTop, spelled out.
LEMMA NewTop ==
  ASSUME TypeOK, NEW t \in Thread, stack[t] # <<>>, NEW frame \in Frame,
         SetTop(t, frame)
  PROVE  /\ stack' \in [Thread -> Seq(Frame)]
         /\ Len(stack'[t]) = Depth(t) /\ stack'[t] # <<>>
         /\ \A i \in 1 .. Depth(t) - 1 : stack'[t][i] = stack[t][i]
         /\ stack'[t][Depth(t)] = frame
         /\ \A u \in Thread : u # t => stack'[u] = stack[u]
<1>1. stack' = [stack EXCEPT ![t] = Append(Outer(t), frame)] /\ stack \in [Thread -> Seq(Frame)]
  BY DEF SetTop, TypeOK
<1>2. stack'[t] = Append(Outer(t), frame) /\ Append(Outer(t), frame) \in Seq(Frame)
  BY <1>1, ReplacedTop
<1>3. Len(stack'[t]) = Depth(t) /\ Depth(t) # 0
  BY <1>2, ReplacedTop, StackTyped
<1>4. stack'[t] # <<>>
  BY <1>3, EmptySeq
<1> QED
  BY <1>1, <1>2, <1>3, <1>4, ReplacedTop

-----------------------------------------------------------------------------
(* Where diagnostics go.                                                   *)

LEMMA EmitOutside ==
  ASSUME EmbeddingInv, NEW t \in Thread, ~IsCapturing(t),
         NEW severity \in Severity, NEW frame, Emit(t, severity, frame)
  PROVE  SetTop(t, frame) /\ printed' \in [Thread -> BOOLEAN]
<1>1. sink[t] = 0
  BY DEF EmbeddingInv, ThreadInv, SinkOfTop
<1> QED
  BY <1>1 DEF Emit, EmbeddingInv, TypeOK

LEMMA EmitInside ==
  ASSUME EmbeddingInv, NEW t \in Thread, IsCapturing(t),
         NEW severity \in Severity, NEW frame \in Frame, Emit(t, severity, frame)
  PROVE  /\ SetTop(t, [frame EXCEPT !.diags = @ \cup {<<Depth(t), severity>>}])
         /\ UNCHANGED printed
<1> DEFINE diags == frame.diags \cup {<<Depth(t), severity>>}
<1>1. TypeOK /\ stack[t] # <<>>
  BY DEF EmbeddingInv, IsCapturing
<1>2. sink[t] = Depth(t) /\ Depth(t) \in 1 .. MaxDepth
  BY <1>1, StackTyped DEF EmbeddingInv, ThreadInv, SinkOfTop
<1>3. [frame EXCEPT !.diags = diags] \in Frame
  BY <1>2 DEF Frame
<1>4. Outer(t) \in Seq(Frame) /\ Len(Outer(t)) + 1 = Depth(t)
  BY <1>1, <1>2, OuterTyped
<1>5. /\ Append(Outer(t), frame) \in Seq(Frame)
      /\ Len(Append(Outer(t), frame)) = Depth(t)
      /\ \A i \in 1 .. Len(Outer(t)) : Append(Outer(t), frame)[i] = Outer(t)[i]
      /\ Append(Outer(t), frame)[sink[t]] = frame
  BY <1>1, <1>2, <1>4, ReplacedTop, OuterTyped
<1>6. [Append(Outer(t), frame) EXCEPT ![sink[t]].diags = @ \cup {<<Depth(t), severity>>}]
        = [Append(Outer(t), frame) EXCEPT ![Depth(t)] = [frame EXCEPT !.diags = diags]]
  BY <1>2, <1>5
<1>7. /\ stack' = [stack EXCEPT ![t] =
           [Append(Outer(t), frame) EXCEPT ![sink[t]].diags = @ \cup {<<Depth(t), severity>>}]]
      /\ UNCHANGED printed
  BY <1>2 DEF Emit
<1>8. ASSUME NEW r, r = Append(Outer(t), frame), NEW e \in Frame
      PROVE  [r EXCEPT ![Depth(t)] = e] = Append(Outer(t), e)
  <2>1. /\ r \in Seq(Frame) /\ Depth(t) \in 1 .. Len(r)
        /\ Depth(t) = Len(Outer(t)) + 1 /\ Depth(t) = Len(r)
        /\ \A i \in 1 .. Len(Outer(t)) : r[i] = Outer(t)[i]
    BY <1>2, <1>4, <1>5, <1>8
  <2> QED
    BY <2>1, <1>4, ReplacedLast
<1>9. [Append(Outer(t), frame) EXCEPT ![Depth(t)] = [frame EXCEPT !.diags = diags]]
        = Append(Outer(t), [frame EXCEPT !.diags = diags])
  BY <1>3, <1>8
<1> QED
  BY <1>6, <1>7, <1>9 DEF SetTop

\* What a message about an error changes, with the set of outcomes it has.
Noted(frame, t, severity) == [frame EXCEPT !.diags = @ \cup {<<Depth(t), severity>>}]

LEMMA LogErrorInside ==
  ASSUME EmbeddingInv, NEW t \in Thread, IsCapturing(t),
         NEW frame \in Frame, LogError(t, frame)
  PROVE  /\ errors' = [errors EXCEPT ![t] = TRUE]
         /\ UNCHANGED printed
         /\ SetTop(t, Noted(frame, t, "error")) \/ SetTop(t, [frame EXCEPT !.lost = TRUE])
BY EmitInside DEF LogError, Severity, Noted

LEMMA LogErrorOutside ==
  ASSUME EmbeddingInv, NEW t \in Thread, ~IsCapturing(t),
         NEW frame \in Frame, LogError(t, frame)
  PROVE  /\ errors' = [errors EXCEPT ![t] = TRUE]
         /\ printed' \in [Thread -> BOOLEAN]
         /\ SetTop(t, frame) \/ SetTop(t, [frame EXCEPT !.lost = TRUE])
BY EmitOutside DEF LogError, Severity, EmbeddingInv, TypeOK

-----------------------------------------------------------------------------
(* The four ways in which a step changes the stack.                        *)

\* A thread whose stack, sink, error count and last error stay the same.
LEMMA OtherThread ==
  ASSUME NEW u \in Thread, ThreadInv(u), stack'[u] = stack[u], sink'[u] = sink[u],
         errors'[u] = errors[u], lastError'[u] = lastError[u]
  PROVE  ThreadInv(u)' /\ (\A stage : At(u, stage)' <=> At(u, stage))
BY DEF ThreadInv, FramesOK, OthersRun, SinkOfTop, NoErrorYet, NullNoted, IsCapturing,
       At, Top, Depth

\* The mutex follows the stage of the innermost call.
MutexFollows(t, stage) ==
  \/ stage = "setup" /\ jitMutex \in {NoThread, t} /\ jitMutex' = t
  \/ stage # "setup" /\ jitMutex' = IF jitMutex = t THEN NoThread ELSE jitMutex

LEMMA MutexKept ==
  ASSUME EmbeddingInv, NEW t \in Thread, NEW stage, MutexFollows(t, stage),
         At(t, "setup")' <=> stage = "setup",
         \A u \in Thread : u # t => (At(u, "setup")' <=> At(u, "setup"))
  PROVE  LockedOnlyInSetup' /\ jitMutex' \in Thread \cup {NoThread}
BY ThreadAssumption DEF EmbeddingInv, TypeOK, LockedOnlyInSetup, MutexFollows

\* No call begins or ends.
TopChanges(t) == \E frame \in Frame : SetTop(t, frame)

LEMMA TopReplaced ==
  ASSUME EmbeddingInv, NEW t \in Thread, stack[t] # <<>>, NEW frame \in Frame,
         SetTop(t, frame), FrameOK(frame, Depth(t)),
         frame.nested = Top(t).nested,
         sink' = [sink EXCEPT ![t] = IF frame.stage \in Capturing THEN Depth(t) ELSE 0],
         errors' \in [Thread -> BOOLEAN],
         \A u \in Thread : u # t => errors'[u] = errors[u],
         frame.stage \in {"front", "backend"} => ~errors'[t],
         MutexFollows(t, frame.stage),
         printed' \in [Thread -> BOOLEAN],
         UNCHANGED <<once, lastError, returned, budget>>
  PROVE  EmbeddingInv' /\ TopChanges(t)
<1>1. TypeOK /\ LockedOnlyInSetup /\ \A u \in Thread : ThreadInv(u)
  BY DEF EmbeddingInv
<1>2. /\ stack' \in [Thread -> Seq(Frame)]
      /\ Len(stack'[t]) = Depth(t) /\ stack'[t] # <<>>
      /\ \A i \in 1 .. Depth(t) - 1 : stack'[t][i] = stack[t][i]
      /\ stack'[t][Depth(t)] = frame
      /\ \A u \in Thread : u # t => stack'[u] = stack[u]
  BY <1>1, NewTop
<1>3. Depth(t) \in 1 .. MaxDepth /\ Depth(t) \in Nat
  BY <1>1, StackTyped
<1>4. sink' \in [Thread -> 0 .. MaxDepth]
  BY <1>1, <1>3, BoundAssumption DEF TypeOK
<1>5. \A u \in Thread : Len(stack'[u]) <= MaxDepth
  BY <1>1, <1>2 DEF TypeOK, Depth
<1>6. \A u \in Thread : u # t => sink'[u] = sink[u] /\ lastError'[u] = lastError[u]
  BY <1>1 DEF TypeOK
<1>7. \A u \in Thread : u # t => ThreadInv(u)' /\ (At(u, "setup")' <=> At(u, "setup"))
  BY <1>1, <1>2, <1>6, OtherThread
<1>8. ThreadInv(t)'
  <2>1. Depth(t)' = Depth(t) /\ Top(t)' = frame
    BY <1>2 DEF Depth, Top
  <2>2. \A i \in 1 .. Depth(t) : i # Depth(t) => i \in 1 .. Depth(t) - 1
    BY <1>3
  <2>3. FramesOK(t)'
    <3> SUFFICES ASSUME NEW i \in 1 .. Depth(t) PROVE FrameOK(stack'[t][i], i)
      BY <2>1 DEF FramesOK, FrameOK, Decided, Undecided, HasError
    <3>1. FrameOK(stack[t][i], i)
      BY <1>1 DEF ThreadInv, FramesOK
    <3> QED
      BY <1>2, <2>2, <3>1
  <2>4. OthersRun(t)'
    BY <1>1, <1>2, <2>1 DEF ThreadInv, OthersRun
  <2>5. SinkOfTop(t)'
    BY <1>1, <1>2, <2>1 DEF SinkOfTop, IsCapturing, TypeOK
  <2>6. NoErrorYet(t)'
    BY <2>1 DEF NoErrorYet, At
  <2>7. NullNoted(t)'
    BY <1>1, <1>2, <2>1, <2>2 DEF ThreadInv, NullNoted, Top
  <2> QED
    BY <2>3, <2>4, <2>5, <2>6, <2>7 DEF ThreadInv
<1>9. At(t, "setup")' <=> frame.stage = "setup"
  BY <1>2 DEF At, Top, Depth
<1>10. LockedOnlyInSetup' /\ jitMutex' \in Thread \cup {NoThread}
  BY <1>7, <1>9, MutexKept
<1>11. TypeOK'
  BY <1>1, <1>2, <1>4, <1>5, <1>10 DEF TypeOK
<1> QED
  BY <1>7, <1>8, <1>10, <1>11 DEF EmbeddingInv, TopChanges

\* A frame that at most remembers a nested call that returned null.
SameFrame(new, old) ==
  new \in {old, [old EXCEPT !.nested = TRUE]}

\* The innermost call returns, or the host is refused a call: the calls left
\* run their entries, or there is none.
LEMMA HostContinues ==
  ASSUME EmbeddingInv, NEW t \in Thread, NEW n \in 0 .. Depth(t),
         NEW frames \in Seq(Frame), stack' = [stack EXCEPT ![t] = frames],
         Len(frames) = n,
         \A i \in 1 .. n : stack[t][i].stage = "run" /\ SameFrame(frames[i], stack[t][i]),
         sink' = [sink EXCEPT ![t] = 0],
         errors' \in [Thread -> BOOLEAN],
         \A u \in Thread : u # t => errors'[u] = errors[u],
         lastError' \in [Thread -> BOOLEAN],
         \A u \in Thread : u # t => lastError'[u] = lastError[u],
         lastError'[t] => lastError[t] \/ \A i \in 1 .. n : frames[i].nested,
         MutexFollows(t, "run"),
         returned' \in [Thread -> {"nothing", "result", "null"}],
         budget' \in [Thread -> Nat], \A u \in Thread : budget'[u] <= MaxCalls[u],
         UNCHANGED <<once, printed>>
  PROVE  EmbeddingInv'
<1>1. TypeOK /\ LockedOnlyInSetup /\ \A u \in Thread : ThreadInv(u)
  BY DEF EmbeddingInv
<1>2. /\ stack'[t] = frames /\ stack' \in [Thread -> Seq(Frame)]
      /\ \A u \in Thread : u # t => stack'[u] = stack[u]
  BY <1>1 DEF TypeOK
<1>3. Depth(t)' = n /\ Depth(t) \in Nat /\ n \in Nat /\ n <= MaxDepth /\ MaxDepth \in Nat
  BY <1>1, <1>2, StackTyped, BoundAssumption DEF Depth
<1>4. n # 0 => Top(t)' = frames[n] /\ frames[n].stage = "run"
  <2> SUFFICES ASSUME n # 0 PROVE Top(t)' = frames[n] /\ frames[n].stage = "run"
    OBVIOUS
  <2>1. n \in 1 .. n /\ n \in 1 .. Depth(t)
    BY <1>3
  <2>2. stack[t][n] \in Frame /\ stack[t][n].stage = "run" /\ SameFrame(frames[n], stack[t][n])
    BY <1>1, <2>1, StackTyped
  <2> QED
    BY <1>2, <1>3, <2>2 DEF Top, SameFrame, Frame
<1>5. n = 0 => stack'[t] = <<>>
  BY <1>2, EmptySeq
<1>6. sink' \in [Thread -> 0 .. MaxDepth] /\ sink'[t] = 0
      /\ \A u \in Thread : u # t => sink'[u] = sink[u]
  BY <1>1, <1>3 DEF TypeOK
<1>7. \A u \in Thread : u # t => ThreadInv(u)' /\ (At(u, "setup")' <=> At(u, "setup"))
  BY <1>1, <1>2, <1>6, OtherThread
<1>8. ThreadInv(t)'
  <2>1. FramesOK(t)'
    <3> SUFFICES ASSUME NEW i \in 1 .. n PROVE FrameOK(frames[i], i)
      BY <1>2, <1>3 DEF FramesOK, FrameOK, Decided, Undecided, HasError
    <3>1. i \in 1 .. Depth(t)
      BY <1>3
    <3>2. FrameOK(stack[t][i], i) /\ stack[t][i] \in Frame
      BY <1>1, <3>1, StackTyped DEF ThreadInv, FramesOK
    <3>3. SameFrame(frames[i], stack[t][i])
      OBVIOUS
    <3>4. /\ frames[i].stage = stack[t][i].stage /\ frames[i].diags = stack[t][i].diags
          /\ frames[i].success = stack[t][i].success /\ frames[i].failed = stack[t][i].failed
          /\ frames[i].lost = stack[t][i].lost /\ frames[i].sink = stack[t][i].sink
      BY <3>2, <3>3 DEF SameFrame, Frame
    <3> QED
      BY <3>2, <3>4 DEF FrameOK, Decided, Undecided, HasError
  <2>2. OthersRun(t)'
    <3> SUFFICES ASSUME NEW i \in 1 .. n - 1 PROVE frames[i].stage = "run"
      BY <1>2, <1>3 DEF OthersRun
    <3>1. i \in 1 .. n /\ i \in 1 .. Depth(t)
      BY <1>3
    <3>2. stack[t][i] \in Frame /\ stack[t][i].stage = "run" /\ SameFrame(frames[i], stack[t][i])
      BY <1>1, <3>1, StackTyped
    <3> QED
      BY <3>2 DEF SameFrame, Frame
  <2>3. ~IsCapturing(t)' /\ ~At(t, "front")' /\ ~At(t, "backend")'
    BY <1>2, <1>4, <1>5 DEF IsCapturing, At, Top, Depth, Capturing
  <2>4. SinkOfTop(t)' /\ NoErrorYet(t)'
    BY <1>6, <2>3 DEF SinkOfTop, NoErrorYet
  <2>5. NullNoted(t)'
    <3> SUFFICES ASSUME NEW i \in 1 .. n, ~frames[i].nested PROVE ~lastError'[t]
      BY <1>2, <1>3 DEF NullNoted
    <3>1. i \in 1 .. Depth(t) /\ stack[t][i] \in Frame /\ SameFrame(frames[i], stack[t][i])
      BY <1>1, <1>3, StackTyped
    <3>2. ~stack[t][i].nested
      BY <3>1 DEF SameFrame, Frame
    <3> QED
      BY <1>1, <3>1, <3>2 DEF ThreadInv, NullNoted
  <2> QED
    BY <2>1, <2>2, <2>4, <2>5 DEF ThreadInv
<1>9. ~At(t, "setup")'
  BY <1>2, <1>4, <1>5 DEF At, Top, Depth
<1>10. LockedOnlyInSetup' /\ jitMutex' \in Thread \cup {NoThread}
  BY <1>7, <1>9, MutexKept
<1>11. \A u \in Thread : Len(stack'[u]) <= MaxDepth
  BY <1>1, <1>2, <1>3 DEF TypeOK, Depth
<1>12. TypeOK'
  BY <1>1, <1>2, <1>6, <1>10, <1>11 DEF TypeOK
<1> QED
  BY <1>7, <1>8, <1>10, <1>12 DEF EmbeddingInv

\* Where host code runs, every open call runs its entry.
LEMMA HostOverRunning ==
  ASSUME EmbeddingInv, NEW t \in Thread, HostCodeRuns(t)
  PROVE  \A i \in 1 .. Depth(t) : stack[t][i].stage = "run"
<1>1. TypeOK /\ OthersRun(t)
  BY DEF EmbeddingInv, ThreadInv
<1>2. Depth(t) \in Nat /\ (stack[t] # <<>> <=> Depth(t) # 0)
  BY <1>1, StackTyped
<1>3. \A i \in 1 .. Depth(t) : i = Depth(t) \/ i \in 1 .. Depth(t) - 1
  BY <1>2
<1> QED
  BY <1>1, <1>2, <1>3 DEF HostCodeRuns, At, Top, OthersRun

LEMMA HostOutside ==
  ASSUME EmbeddingInv, NEW t \in Thread, HostCodeRuns(t)
  PROVE  sink[t] = 0 /\ jitMutex # t
<1>1. ~IsCapturing(t) /\ ~At(t, "setup")
  BY DEF HostCodeRuns, At, IsCapturing, Capturing
<1> QED
  BY <1>1 DEF EmbeddingInv, ThreadInv, SinkOfTop, LockedOnlyInSetup

\* The calls below the innermost, with and without a note.
LEMMA OuterNoted ==
  ASSUME TypeOK, NEW t \in Thread, NEW frames \in Seq(Frame)
  PROVE  /\ NoteNull(frames) \in Seq(Frame) /\ Len(NoteNull(frames)) = Len(frames)
         /\ \A i \in 1 .. Len(frames) :
              NoteNull(frames)[i] = [frames[i] EXCEPT !.nested = TRUE]
<1>1. Len(frames) \in Nat /\ DOMAIN frames = 1 .. Len(frames)
      /\ \A i \in 1 .. Len(frames) : frames[i] \in Frame
  BY LenProperties, ElementOfSeq
<1>2. \A i \in 1 .. Len(frames) : [frames[i] EXCEPT !.nested = TRUE] \in Frame
  BY <1>1 DEF Frame
<1>3. NoteNull(frames) \in [1 .. Len(frames) -> Frame]
  BY <1>1, <1>2 DEF NoteNull
<1> QED
  BY <1>1, <1>3 DEF NoteNull

-----------------------------------------------------------------------------
(* Calls begin and end.                                                    *)

LEMMA BudgetSpent ==
  ASSUME TypeOK, NEW t \in Thread, budget[t] > 0, budget' = [budget EXCEPT ![t] = @ - 1]
  PROVE  budget' \in [Thread -> Nat] /\ \A u \in Thread : budget'[u] <= MaxCalls[u]
<1>1. budget \in [Thread -> Nat] /\ MaxCalls \in [Thread -> Nat]
      /\ \A u \in Thread : budget[u] <= MaxCalls[u]
  BY BoundAssumption DEF TypeOK
<1>2. budget[t] - 1 \in Nat /\ budget[t] - 1 <= MaxCalls[t]
  BY <1>1
<1> QED
  BY <1>1, <1>2

LEMMA BeginKeeps ==
  ASSUME EmbeddingInv, NEW t \in Thread, Begin(t)
  PROVE  EmbeddingInv'
<1>1. TypeOK /\ LockedOnlyInSetup /\ \A u \in Thread : ThreadInv(u)
  BY DEF EmbeddingInv
<1>2. /\ HostCodeRuns(t) /\ Depth(t) < MaxDepth /\ budget[t] > 0
      /\ budget' = [budget EXCEPT ![t] = @ - 1]
      /\ lastError' = [lastError EXCEPT ![t] = FALSE]
      /\ UNCHANGED <<once, jitMutex, sink, errors, returned, printed>>
  BY DEF Begin, MayCall, ClearLastError, shared
<1>3. PICK api \in Api : stack' = [stack EXCEPT ![t] = Append(@, NewFrame(api))]
  BY DEF Begin
<1>4. /\ NewFrame(api) \in Frame /\ NewFrame(api).stage \in {"open", "request"}
      /\ FrameOK(NewFrame(api), Depth(t) + 1)
  <2>1. 0 \in 0 .. MaxDepth
    BY BoundAssumption
  <2>2. NewFrame(api) \in Frame
    BY <2>1 DEF NewFrame, Frame, Stages
  <2> QED
    BY <2>2 DEF NewFrame, FrameOK, Undecided, HasError, Capturing
<1>5. Depth(t) \in Nat /\ stack[t] \in Seq(Frame)
  BY <1>1, StackTyped
<1>6. /\ stack' \in [Thread -> Seq(Frame)] /\ stack'[t] = Append(stack[t], NewFrame(api))
      /\ \A u \in Thread : u # t => stack'[u] = stack[u]
  BY <1>1, <1>3, <1>4, <1>5, AppendProperties DEF TypeOK
<1>7. /\ Depth(t)' = Depth(t) + 1 /\ stack'[t] # <<>>
      /\ \A i \in 1 .. Depth(t) : stack'[t][i] = stack[t][i]
      /\ stack'[t][Depth(t) + 1] = NewFrame(api)
  BY <1>4, <1>5, <1>6, AppendProperties DEF Depth
<1>8. \A u \in Thread : u # t => lastError'[u] = lastError[u]
  BY <1>1, <1>2 DEF TypeOK
<1>9. \A u \in Thread : u # t => ThreadInv(u)' /\ (At(u, "setup")' <=> At(u, "setup"))
  BY <1>1, <1>2, <1>6, <1>8, OtherThread
<1>10. Top(t)' = NewFrame(api)
  BY <1>7 DEF Top
<1>11. ~IsCapturing(t)' /\ ~At(t, "front")' /\ ~At(t, "backend")' /\ ~At(t, "setup")'
  BY <1>4, <1>10 DEF IsCapturing, At, Capturing
<1>12. ThreadInv(t)'
  <2>1. \A i \in 1 .. Depth(t) + 1 : i \in 1 .. Depth(t) \/ i = Depth(t) + 1
    BY <1>5
  <2>2. FramesOK(t)'
    <3> SUFFICES ASSUME NEW i \in 1 .. Depth(t) + 1 PROVE FrameOK(stack'[t][i], i)
      BY <1>7 DEF FramesOK, FrameOK, Decided, Undecided, HasError
    <3>1. i \in 1 .. Depth(t) => FrameOK(stack[t][i], i)
      BY <1>1 DEF ThreadInv, FramesOK
    <3> QED
      BY <1>4, <1>7, <2>1, <3>1
  <2>3. OthersRun(t)'
    BY <1>2, <1>5, <1>7, HostOverRunning DEF OthersRun
  <2>4. SinkOfTop(t)' /\ NoErrorYet(t)'
    BY <1>2, <1>11, HostOutside DEF SinkOfTop, NoErrorYet
  <2>5. NullNoted(t)'
    BY <1>1, <1>2 DEF NullNoted, TypeOK
  <2> QED
    BY <2>2, <2>3, <2>4, <2>5 DEF ThreadInv
<1>13. LockedOnlyInSetup' /\ jitMutex' \in Thread \cup {NoThread}
  <2>1. jitMutex # t
    BY <1>2, HostOutside
  <2>2. MutexFollows(t, "open")
    BY <1>2, <2>1 DEF MutexFollows
  <2>3. At(t, "setup")' <=> "open" = "setup"
    BY <1>11
  <2> QED
    BY <1>9, <2>2, <2>3, MutexKept
<1>14. \A u \in Thread : Len(stack'[u]) <= MaxDepth
  <2>1. Len(stack'[t]) <= MaxDepth
    BY <1>2, <1>5, <1>7, BoundAssumption DEF Depth
  <2> QED
    BY <1>1, <1>6, <2>1 DEF TypeOK
<1>15. budget' \in [Thread -> Nat] /\ \A u \in Thread : budget'[u] <= MaxCalls[u]
  BY <1>1, <1>2, BudgetSpent
<1>16. TypeOK'
  BY <1>1, <1>2, <1>6, <1>13, <1>14, <1>15 DEF TypeOK
<1> QED
  BY <1>9, <1>12, <1>13, <1>16 DEF EmbeddingInv

LEMMA RefuseArgumentsKeeps ==
  ASSUME EmbeddingInv, NEW t \in Thread, RefuseArguments(t)
  PROVE  EmbeddingInv'
<1>1. TypeOK /\ HostCodeRuns(t) /\ budget[t] > 0
  BY DEF EmbeddingInv, RefuseArguments, MayCall
<1>2. /\ stack' = [stack EXCEPT ![t] = NoteNull(stack[t])]
      /\ returned' = [returned EXCEPT ![t] = "null"]
      /\ budget' = [budget EXCEPT ![t] = @ - 1]
      /\ UNCHANGED <<once, jitMutex, sink, errors, printed>>
  BY DEF RefuseArguments, shared
<1>3. lastError' \in [Thread -> BOOLEAN] /\ \A u \in Thread : u # t => lastError'[u] = lastError[u]
  BY <1>1 DEF RefuseArguments, SetLastError, TypeOK
<1>4. stack[t] \in Seq(Frame) /\ Depth(t) \in 0 .. Depth(t)
      /\ \A i \in 1 .. Depth(t) : stack[t][i] \in Frame
  BY <1>1, StackTyped
<1>5. /\ NoteNull(stack[t]) \in Seq(Frame) /\ Len(NoteNull(stack[t])) = Depth(t)
      /\ \A i \in 1 .. Depth(t) : NoteNull(stack[t])[i] = [stack[t][i] EXCEPT !.nested = TRUE]
  BY <1>1, <1>4, OuterNoted DEF Depth
<1>6. \A i \in 1 .. Depth(t) :
        /\ stack[t][i].stage = "run" /\ SameFrame(NoteNull(stack[t])[i], stack[t][i])
        /\ NoteNull(stack[t])[i].nested
  BY <1>1, <1>4, <1>5, HostOverRunning DEF SameFrame, Frame
<1>7. sink[t] = 0 /\ jitMutex # t
  BY <1>1, HostOutside
<1>8. MutexFollows(t, "run") /\ sink' = [sink EXCEPT ![t] = 0]
  BY <1>1, <1>2, <1>7 DEF MutexFollows, TypeOK
<1>9. budget' \in [Thread -> Nat] /\ \A u \in Thread : budget'[u] <= MaxCalls[u]
  BY <1>1, <1>2, BudgetSpent
<1>10. errors' \in [Thread -> BOOLEAN] /\ returned' \in [Thread -> {"nothing", "result", "null"}]
  BY <1>1, <1>2 DEF TypeOK
<1> QED
  BY <1>2, <1>3, <1>4, <1>5, <1>6, <1>8, <1>9, <1>10, HostContinues

LEMMA ReturnKeeps ==
  ASSUME EmbeddingInv, NEW t \in Thread, Return(t)
  PROVE  EmbeddingInv'
<1>1. TypeOK /\ stack[t] # <<>> /\ Top(t).stage = "done" /\ OthersRun(t) /\ SinkOfTop(t)
  BY DEF EmbeddingInv, Return, At, ThreadInv
<1>2. /\ stack' = [stack EXCEPT ![t] = Outer(t)]
      /\ returned' = [returned EXCEPT ![t] = "result"]
      /\ UNCHANGED <<once, jitMutex, sink, errors, lastError, printed, budget>>
  BY DEF Return, shared
<1>3. Depth(t) \in Nat /\ Depth(t) # 0 /\ Depth(t) - 1 \in 0 .. Depth(t)
  BY <1>1, StackTyped
<1>4. /\ Outer(t) \in Seq(Frame) /\ Len(Outer(t)) = Depth(t) - 1
      /\ \A i \in 1 .. Depth(t) - 1 : Outer(t)[i] = stack[t][i]
  BY <1>1, OuterTyped
<1>5. \A i \in 1 .. Depth(t) - 1 :
        stack[t][i].stage = "run" /\ SameFrame(Outer(t)[i], stack[t][i])
  BY <1>1, <1>4 DEF OthersRun, SameFrame
<1>6. sink[t] = 0 /\ jitMutex # t
  BY <1>1 DEF SinkOfTop, IsCapturing, Capturing, EmbeddingInv, LockedOnlyInSetup, At
<1>7. MutexFollows(t, "run") /\ sink' = [sink EXCEPT ![t] = 0]
  BY <1>1, <1>2, <1>6 DEF MutexFollows, TypeOK
<1>8. /\ errors' \in [Thread -> BOOLEAN] /\ lastError' \in [Thread -> BOOLEAN]
      /\ returned' \in [Thread -> {"nothing", "result", "null"}]
      /\ budget' \in [Thread -> Nat] /\ \A u \in Thread : budget'[u] <= MaxCalls[u]
  BY <1>1, <1>2 DEF TypeOK
<1> QED
  BY <1>2, <1>3, <1>4, <1>5, <1>7, <1>8, HostContinues

LEMMA UnwindKeeps ==
  ASSUME EmbeddingInv, NEW t \in Thread, Unwind(t)
  PROVE  EmbeddingInv'
<1>1. /\ TypeOK /\ stack[t] # <<>> /\ OthersRun(t) /\ SinkOfTop(t) /\ FramesOK(t)
      /\ once' = once /\ printed' = printed /\ budget' = budget
  BY DEF EmbeddingInv, Unwind, At, ThreadInv
<1>2. /\ stack' = [stack EXCEPT ![t] = NoteNull(Outer(t))]
      /\ returned' = [returned EXCEPT ![t] = "null"]
      /\ jitMutex' = IF jitMutex = t THEN NoThread ELSE jitMutex
      /\ IF Top(t).stage \in Capturing THEN RestoreScope(t) ELSE UNCHANGED <<sink, errors>>
  BY DEF Unwind
<1>3. lastError' \in [Thread -> BOOLEAN] /\ \A u \in Thread : u # t => lastError'[u] = lastError[u]
  BY <1>1 DEF Unwind, SetLastError, TypeOK
<1>4. Depth(t) \in Nat /\ Depth(t) # 0 /\ Depth(t) - 1 \in 0 .. Depth(t)
      /\ Depth(t) \in 1 .. Depth(t) /\ Top(t) \in Frame
      /\ \A i \in 1 .. Depth(t) : stack[t][i] \in Frame
  BY <1>1, StackTyped
<1>5. /\ Outer(t) \in Seq(Frame) /\ Len(Outer(t)) = Depth(t) - 1
      /\ \A i \in 1 .. Depth(t) - 1 : Outer(t)[i] = stack[t][i]
  BY <1>1, OuterTyped
<1>6. /\ NoteNull(Outer(t)) \in Seq(Frame) /\ Len(NoteNull(Outer(t))) = Depth(t) - 1
      /\ \A i \in 1 .. Depth(t) - 1 : NoteNull(Outer(t))[i] = [Outer(t)[i] EXCEPT !.nested = TRUE]
  BY <1>1, <1>5, OuterNoted
<1>7. \A i \in 1 .. Depth(t) - 1 :
        /\ stack[t][i].stage = "run" /\ SameFrame(NoteNull(Outer(t))[i], stack[t][i])
        /\ NoteNull(Outer(t))[i].nested
  <2> SUFFICES ASSUME NEW i \in 1 .. Depth(t) - 1
               PROVE  /\ stack[t][i].stage = "run" /\ SameFrame(NoteNull(Outer(t))[i], stack[t][i])
                      /\ NoteNull(Outer(t))[i].nested
    OBVIOUS
  <2>1. i \in 1 .. Depth(t)
    BY <1>4
  <2>2. stack[t][i] \in Frame /\ NoteNull(Outer(t))[i] = [stack[t][i] EXCEPT !.nested = TRUE]
    BY <1>4, <1>5, <1>6, <2>1
  <2> QED
    BY <1>1, <2>2 DEF OthersRun, SameFrame, Frame
<1>8. sink' = [sink EXCEPT ![t] = 0] /\ errors' \in [Thread -> BOOLEAN]
      /\ \A u \in Thread : u # t => errors'[u] = errors[u]
  <2>1. CASE Top(t).stage \in Capturing
    <3>1. Top(t).sink = 0 /\ Top(t).errors \in BOOLEAN
      BY <1>1, <1>4, <2>1 DEF FramesOK, FrameOK, Top, Frame
    <3> QED
      BY <1>1, <1>2, <2>1, <3>1 DEF RestoreScope, TypeOK
  <2>2. CASE Top(t).stage \notin Capturing
    <3>1. sink[t] = 0
      BY <1>1, <2>2 DEF SinkOfTop, IsCapturing
    <3> QED
      BY <1>1, <1>2, <2>2, <3>1 DEF TypeOK
  <2> QED
    BY <2>1, <2>2
<1>9. MutexFollows(t, "run")
  BY <1>2 DEF MutexFollows
<1>10. /\ returned' \in [Thread -> {"nothing", "result", "null"}]
       /\ budget' \in [Thread -> Nat] /\ \A u \in Thread : budget'[u] <= MaxCalls[u]
  BY <1>1, <1>2 DEF TypeOK
<1> QED
  BY <1>1, <1>2, <1>3, <1>4, <1>6, <1>7, <1>8, <1>9, <1>10, HostContinues

-----------------------------------------------------------------------------
(* What a call does by itself.                                             *)

LEMMA AtStage ==
  ASSUME EmbeddingInv, NEW t \in Thread, NEW stage, At(t, stage)
  PROVE  /\ TypeOK /\ stack[t] # <<>> /\ Top(t) \in Frame /\ Top(t).stage = stage
         /\ Depth(t) \in 1 .. MaxDepth
         /\ FrameOK(Top(t), Depth(t))
         /\ sink[t] = IF stage \in Capturing THEN Depth(t) ELSE 0
         /\ sink = [sink EXCEPT ![t] = sink[t]]
         /\ IsCapturing(t) <=> stage \in Capturing
         /\ jitMutex = t <=> stage = "setup"
         /\ stage \in {"front", "backend"} => ~errors[t]
<1>1. /\ TypeOK /\ stack[t] # <<>> /\ Top(t).stage = stage /\ LockedOnlyInSetup
      /\ FramesOK(t) /\ SinkOfTop(t) /\ NoErrorYet(t)
  BY DEF EmbeddingInv, ThreadInv, At
<1>2. Top(t) \in Frame /\ Depth(t) \in 1 .. MaxDepth /\ Depth(t) \in 1 .. Depth(t)
  BY <1>1, StackTyped
<1>3. FrameOK(Top(t), Depth(t))
  BY <1>1, <1>2 DEF FramesOK, Top
<1>4. jitMutex = t <=> stage = "setup"
  BY <1>1 DEF LockedOnlyInSetup, At
<1>5. stage \in {"front", "backend"} => ~errors[t]
  BY <1>1 DEF NoErrorYet, At
<1>6. sink = [sink EXCEPT ![t] = sink[t]]
  BY <1>1 DEF TypeOK
<1> QED
  BY <1>1, <1>2, <1>3, <1>4, <1>5, <1>6 DEF SinkOfTop, IsCapturing

\* An action that moves on from one stage to another and keeps the scope, the
\* lock and the error count.
LEMMA StageMoves ==
  ASSUME EmbeddingInv, NEW t \in Thread, NEW from, At(t, from), NEW frame \in Frame,
         SetTop(t, frame), frame.nested = Top(t).nested, FrameOK(frame, Depth(t)),
         from \in Capturing <=> frame.stage \in Capturing,
         frame.stage \in {"front", "backend"} => ~errors'[t],
         from = "setup" <=> frame.stage = "setup",
         errors' \in [Thread -> BOOLEAN],
         \A u \in Thread : u # t => errors'[u] = errors[u],
         printed' \in [Thread -> BOOLEAN],
         UNCHANGED <<shared, sink, lastError, returned, budget>>
  PROVE  EmbeddingInv' /\ TopChanges(t)
<1>1. stack[t] # <<>> /\ sink' = [sink EXCEPT ![t] = IF frame.stage \in Capturing THEN Depth(t) ELSE 0]
  BY AtStage
<1>2. MutexFollows(t, frame.stage)
  BY AtStage DEF MutexFollows, shared
<1> QED
  BY <1>1, <1>2, TopReplaced DEF shared

LEMMA OpenScopeKeeps ==
  ASSUME EmbeddingInv, NEW t \in Thread, OpenScope(t)
  PROVE  EmbeddingInv' /\ TopChanges(t)
<1> DEFINE frame == [Top(t) EXCEPT !.stage = "front", !.sink = sink[t], !.errors = errors[t]]
<1>1. /\ At(t, "open") /\ SetTop(t, frame)
      /\ sink' = [sink EXCEPT ![t] = Depth(t)] /\ errors' = [errors EXCEPT ![t] = FALSE]
      /\ UNCHANGED <<once, jitMutex, lastError, returned, printed, budget>>
  BY DEF OpenScope, shared
<1>2. /\ TypeOK /\ stack[t] # <<>> /\ Top(t) \in Frame /\ Top(t).stage = "open"
      /\ FrameOK(Top(t), Depth(t)) /\ sink[t] = 0 /\ jitMutex # t
  BY <1>1, AtStage DEF Capturing
<1>3. frame \in Frame /\ frame.stage = "front" /\ frame.nested = Top(t).nested
  BY <1>2 DEF Frame, Stages, TypeOK
<1>4. FrameOK(frame, Depth(t))
  BY <1>2 DEF FrameOK, Undecided, HasError, Frame
<1>5. /\ errors' \in [Thread -> BOOLEAN] /\ printed' \in [Thread -> BOOLEAN] /\ ~errors'[t]
      /\ \A u \in Thread : u # t => errors'[u] = errors[u]
  BY <1>1, <1>2 DEF TypeOK
<1>6. MutexFollows(t, frame.stage)
  BY <1>1, <1>2 DEF MutexFollows
<1>7. frame.stage \in Capturing
  BY <1>3 DEF Capturing
<1> HIDE DEF frame
<1> QED
  BY <1>1, <1>2, <1>3, <1>4, <1>5, <1>6, <1>7, TopReplaced

LEMMA CloseScopeKeeps ==
  ASSUME EmbeddingInv, NEW t \in Thread, CloseScope(t)
  PROVE  EmbeddingInv' /\ TopChanges(t)
<1> DEFINE frame == [Top(t) EXCEPT !.stage = AfterCompile(Top(t)),
                                   !.success = @ /\ Top(t).api = "compile"]
<1>1. /\ At(t, "close") /\ SetTop(t, frame)
      /\ sink' = [sink EXCEPT ![t] = Top(t).sink]
      /\ errors' = [errors EXCEPT ![t] = Top(t).errors]
      /\ UNCHANGED <<once, jitMutex, lastError, returned, printed, budget>>
  BY DEF CloseScope, RestoreScope, shared
<1>2. /\ TypeOK /\ stack[t] # <<>> /\ Top(t) \in Frame /\ Top(t).stage = "close"
      /\ FrameOK(Top(t), Depth(t)) /\ jitMutex # t
  BY <1>1, AtStage
<1>3. Top(t).sink = 0 /\ Decided(Top(t))
  BY <1>2 DEF FrameOK, Capturing
<1>4. /\ AfterCompile(Top(t)) \in {"done", "entry", "lock"}
      /\ AfterCompile(Top(t)) = "done" <=> Top(t).api = "compile" \/ ~Top(t).success
  <2>1. Top(t).api \in {"compile", "execute", "prepare"}
    BY <1>2 DEF Frame, Api
  <2> QED
    BY <2>1 DEF AfterCompile
<1>5. frame \in Frame /\ frame.stage = AfterCompile(Top(t)) /\ frame.nested = Top(t).nested
  BY <1>2, <1>4 DEF Frame, Stages
<1>6. FrameOK(frame, Depth(t))
  <2>1. /\ frame.diags = Top(t).diags /\ frame.failed = Top(t).failed /\ frame.lost = Top(t).lost
        /\ frame.success <=> Top(t).success /\ Top(t).api = "compile"
    BY <1>2 DEF Frame
  <2>2. \A d \in frame.diags : d[1] = Depth(t)
    BY <1>2, <2>1 DEF FrameOK
  <2>3. HasError(frame) <=> HasError(Top(t))
    BY <2>1 DEF HasError
  <2>4. frame.stage \notin Capturing /\ frame.stage # "close"
    BY <1>4, <1>5 DEF Capturing
  <2>5. CASE frame.stage = "done"
    <3>1. frame.success <=> Top(t).success
      BY <1>4, <1>5, <2>1, <2>5
    <3>2. Decided(frame)
      BY <1>2, <1>3, <1>5, <2>1, <2>3, <3>1 DEF Decided, Frame
    <3> QED
      BY <2>2, <2>4, <2>5, <3>2 DEF FrameOK
  <2>6. CASE frame.stage # "done"
    <3>1. Top(t).success /\ ~frame.success
      BY <1>4, <1>5, <2>1, <2>6
    <3>2. Undecided(frame)
      BY <1>2, <1>3, <2>1, <2>3, <3>1 DEF Decided, Undecided, Frame
    <3> QED
      BY <2>2, <2>4, <2>6, <3>2 DEF FrameOK
  <2> QED
    BY <2>5, <2>6
<1>7. /\ errors' \in [Thread -> BOOLEAN] /\ printed' \in [Thread -> BOOLEAN]
      /\ \A u \in Thread : u # t => errors'[u] = errors[u]
  BY <1>1, <1>2 DEF TypeOK, Frame
<1>8. /\ frame.stage \notin Capturing /\ frame.stage \notin {"front", "backend"}
      /\ MutexFollows(t, frame.stage)
  BY <1>1, <1>2, <1>4, <1>5 DEF MutexFollows, Capturing
<1> HIDE DEF frame
<1> QED
  BY <1>1, <1>2, <1>3, <1>5, <1>6, <1>7, <1>8, TopReplaced

LEMMA TargetsKeep ==
  ASSUME EmbeddingInv, NEW t \in Thread, BeginTargets(t) \/ FinishTargets(t)
  PROVE  EmbeddingInv'
<1>1. /\ once' \in {t, "done"}
      /\ UNCHANGED <<jitMutex, sink, errors, lastError, stack, returned, printed, budget>>
  BY DEF BeginTargets, FinishTargets
<1>2. TypeOK /\ LockedOnlyInSetup /\ \A u \in Thread : ThreadInv(u)
  BY DEF EmbeddingInv
<1>3. \A u \in Thread : ThreadInv(u)' /\ (At(u, "setup")' <=> At(u, "setup"))
  BY <1>1, <1>2, OtherThread
<1>4. TypeOK'
  BY <1>1, <1>2 DEF TypeOK
<1>5. LockedOnlyInSetup'
  BY <1>1, <1>2, <1>3 DEF LockedOnlyInSetup
<1> QED
  BY <1>3, <1>4, <1>5 DEF EmbeddingInv

LEMMA DiagnosedFrame ==
  ASSUME NEW old \in Frame, NEW n \in 1 .. MaxDepth, NEW severity \in Severity,
         NEW new, new = [old EXCEPT !.diags = old.diags \cup {<<n, severity>>}]
  PROVE  /\ new \in Frame /\ new.stage = old.stage /\ new.nested = old.nested
         /\ new.success = old.success /\ new.failed = old.failed /\ new.sink = old.sink
         /\ new.diags = old.diags \cup {<<n, severity>>}
<1>1. old.diags \cup {<<n, severity>>} \in SUBSET ((1 .. MaxDepth) \X Severity)
  BY DEF Frame
<1> QED
  BY <1>1 DEF Frame

\* The frame of a call that logs an error and is about to close its scope.
LEMMA LoggedFrameOK ==
  ASSUME NEW t \in Thread, NEW n \in 1 .. MaxDepth, NEW old \in Frame, FrameOK(old, n),
         old.stage \in {"front", "backend"}, NEW frame \in Frame,
         \/ frame = [old EXCEPT !.stage = "close", !.failed = TRUE,
                                !.diags = @ \cup {<<n, "error">>}]
         \/ frame = [old EXCEPT !.stage = "close", !.failed = TRUE, !.lost = TRUE]
  PROVE  FrameOK(frame, n)
<1>1. /\ Undecided(old) /\ \A d \in old.diags : d[1] = n
      /\ frame.stage = "close" /\ frame.failed /\ ~frame.success /\ frame.sink = 0
  BY DEF FrameOK, Undecided, Capturing, Frame
<1>2. \/ frame.diags = old.diags \cup {<<n, "error">>}
      \/ frame.diags = old.diags /\ frame.lost
  BY DEF Frame
<1>3. \A d \in frame.diags : d[1] = n
  BY <1>1, <1>2
<1>4. frame.lost \/ HasError(frame)
  <2>1. <<n, "error">>[2] = "error"
    OBVIOUS
  <2>2. <<n, "error">> \in frame.diags => HasError(frame)
    BY <2>1 DEF HasError
  <2> QED
    BY <1>2, <2>2
<1>5. frame.success \in BOOLEAN /\ frame.failed \in BOOLEAN /\ frame.success = ~frame.failed
  BY <1>1 DEF Frame
<1> QED
  BY <1>1, <1>3, <1>4, <1>5 DEF FrameOK, Decided

LEMMA LogAndClose ==
  ASSUME EmbeddingInv, NEW t \in Thread, NEW from \in {"front", "backend"}, At(t, from),
         NEW frame, frame = [Top(t) EXCEPT !.stage = "close", !.failed = TRUE],
         LogError(t, frame),
         UNCHANGED <<shared, sink, lastError, returned, budget>>
  PROVE  EmbeddingInv' /\ TopChanges(t)
<1>1. /\ TypeOK /\ Top(t) \in Frame /\ Top(t).stage = from /\ Depth(t) \in 1 .. MaxDepth
      /\ FrameOK(Top(t), Depth(t)) /\ IsCapturing(t)
  BY AtStage DEF Capturing
<1>2. frame \in Frame
  BY <1>1 DEF Frame, Stages
<1>3. /\ errors' = [errors EXCEPT ![t] = TRUE] /\ UNCHANGED printed
      /\ SetTop(t, Noted(frame, t, "error")) \/ SetTop(t, [frame EXCEPT !.lost = TRUE])
  BY <1>1, <1>2, LogErrorInside
<1>4. PICK new : /\ SetTop(t, new)
                 /\ \/ new = [frame EXCEPT !.diags = frame.diags \cup {<<Depth(t), "error">>}]
                    \/ new = [frame EXCEPT !.lost = TRUE]
  BY <1>3 DEF Noted
<1>5. \/ new = [Top(t) EXCEPT !.stage = "close", !.failed = TRUE,
                              !.diags = Top(t).diags \cup {<<Depth(t), "error">>}]
      \/ new = [Top(t) EXCEPT !.stage = "close", !.failed = TRUE, !.lost = TRUE]
  BY <1>1, <1>4 DEF Frame
<1>6. new \in Frame /\ new.stage = "close" /\ new.nested = Top(t).nested
  <2>1. Top(t).diags \cup {<<Depth(t), "error">>} \in SUBSET ((1 .. MaxDepth) \X Severity)
    BY <1>1 DEF Frame, Severity
  <2> QED
    BY <1>1, <1>5, <2>1 DEF Frame, Stages
<1>7. FrameOK(new, Depth(t))
  BY <1>1, <1>5, <1>6, LoggedFrameOK
<1>8. /\ errors' \in [Thread -> BOOLEAN] /\ printed' \in [Thread -> BOOLEAN]
      /\ \A u \in Thread : u # t => errors'[u] = errors[u]
  BY <1>1, <1>3 DEF TypeOK
<1> QED
  BY <1>4, <1>6, <1>7, <1>8, StageMoves DEF Capturing

LEMMA FrontKeeps ==
  ASSUME EmbeddingInv, NEW t \in Thread, FrontThrows(t) \/ Generate(t)
  PROVE  EmbeddingInv' /\ TopChanges(t)
<1>1. At(t, "front") /\ UNCHANGED <<shared, sink, lastError, returned, budget>>
  BY DEF FrontThrows, Generate
<1>2. CASE LogError(t, [Top(t) EXCEPT !.stage = "close", !.failed = TRUE])
  BY <1>1, <1>2, LogAndClose
<1>3. CASE GoTo(t, IF errors[t] THEN "close" ELSE "backend") /\ UNCHANGED <<errors, printed>>
  <2>1. /\ TypeOK /\ Top(t) \in Frame /\ Top(t).stage = "front" /\ ~errors[t]
        /\ FrameOK(Top(t), Depth(t))
    BY <1>1, AtStage
  <2> DEFINE new == [Top(t) EXCEPT !.stage = "backend"]
  <2>2. SetTop(t, new)
    BY <1>3, <2>1 DEF GoTo
  <2>3. new \in Frame /\ new.stage = "backend" /\ new.nested = Top(t).nested
    BY <2>1 DEF Frame, Stages
  <2>4. FrameOK(new, Depth(t))
    BY <2>1 DEF FrameOK, Undecided, HasError, Capturing, Frame
  <2>5. /\ errors' \in [Thread -> BOOLEAN] /\ printed' \in [Thread -> BOOLEAN] /\ ~errors'[t]
        /\ \A u \in Thread : u # t => errors'[u] = errors[u]
    BY <1>3, <2>1 DEF TypeOK
  <2> HIDE DEF new
  <2> QED
    BY <1>1, <2>2, <2>3, <2>4, <2>5, StageMoves DEF Capturing
<1> QED
  BY <1>2, <1>3 DEF FrontThrows, Generate

LEMMA EmissionKeeps ==
  ASSUME EmbeddingInv, NEW t \in Thread, Emission(t)
  PROVE  EmbeddingInv' /\ TopChanges(t)
<1> DEFINE finished == [Top(t) EXCEPT !.stage = "close", !.success = ~errors[t]]
<1>1. At(t, "backend") /\ UNCHANGED <<shared, sink, lastError, returned, budget>>
  BY DEF Emission
<1>2. /\ TypeOK /\ Top(t) \in Frame /\ Top(t).stage = "backend" /\ ~errors[t]
      /\ FrameOK(Top(t), Depth(t)) /\ IsCapturing(t) /\ Depth(t) \in 1 .. MaxDepth
  BY <1>1, AtStage DEF Capturing
<1>3. finished = [Top(t) EXCEPT !.stage = "close", !.success = TRUE] /\ finished \in Frame
  BY <1>2 DEF Frame, Stages, TypeOK
<1>4. CASE LogError(t, [finished EXCEPT !.success = FALSE, !.failed = TRUE])
  <2>1. Top(t).success = FALSE
    BY <1>2 DEF FrameOK, Undecided, Frame
  <2>2. [finished EXCEPT !.success = FALSE, !.failed = TRUE]
          = [Top(t) EXCEPT !.stage = "close", !.failed = TRUE]
    BY <1>2, <1>3, <2>1 DEF Frame
  <2> QED
    BY <1>1, <1>4, <2>2, LogAndClose
<1>5. CASE \/ SetTop(t, finished) /\ UNCHANGED <<errors, printed>>
           \/ Emit(t, "warning", finished) /\ UNCHANGED errors
  <2>1. UNCHANGED <<errors, printed>>
    BY <1>2, <1>3, <1>5, EmitInside DEF Severity
  <2>2. PICK new : /\ SetTop(t, new)
                   /\ \/ new = finished
                      \/ new = [finished EXCEPT !.diags = @ \cup {<<Depth(t), "warning">>}]
    BY <1>2, <1>3, <1>5, EmitInside DEF Severity
  <2>3. /\ new \in Frame /\ new.stage = "close" /\ new.nested = Top(t).nested
        /\ new.success /\ new.failed = Top(t).failed /\ new.sink = Top(t).sink
        /\ new.diags \subseteq Top(t).diags \cup {<<Depth(t), "warning">>}
    <3>1. /\ finished.stage = "close" /\ finished.nested = Top(t).nested
          /\ finished.success /\ finished.failed = Top(t).failed
          /\ finished.sink = Top(t).sink /\ finished.diags = Top(t).diags
      BY <1>2, <1>3 DEF Frame
    <3>2. CASE new = finished
      BY <1>3, <3>1, <3>2
    <3>3. CASE new = [finished EXCEPT !.diags = @ \cup {<<Depth(t), "warning">>}]
      <4> HIDE DEF finished
      <4>1. "warning" \in Severity
        BY DEF Severity
      <4>2. /\ new \in Frame /\ new.stage = finished.stage /\ new.nested = finished.nested
            /\ new.success = finished.success /\ new.failed = finished.failed
            /\ new.sink = finished.sink
            /\ new.diags = finished.diags \cup {<<Depth(t), "warning">>}
        <5>1. Depth(t) \in 1 .. MaxDepth /\ finished \in Frame
          BY <1>2, <1>3
        <5> QED
          BY <3>3, <4>1, <5>1, DiagnosedFrame
      <4> QED
        BY <3>1, <4>2
    <3> QED
      BY <2>2, <3>2, <3>3
  <2>4. FrameOK(new, Depth(t))
    <3>1. Undecided(Top(t)) /\ Top(t).sink = 0 /\ \A d \in Top(t).diags : d[1] = Depth(t)
      BY <1>2 DEF FrameOK, Capturing
    <3>2. ~HasError(new) /\ \A d \in new.diags : d[1] = Depth(t)
      BY <2>3, <3>1 DEF HasError, Undecided
    <3>3. new.success = ~new.failed
      BY <1>2, <2>3, <3>1 DEF Undecided, Frame
    <3> QED
      BY <2>3, <3>1, <3>2, <3>3 DEF FrameOK, Decided
  <2>5. /\ errors' \in [Thread -> BOOLEAN] /\ printed' \in [Thread -> BOOLEAN]
        /\ \A u \in Thread : u # t => errors'[u] = errors[u]
    BY <1>2, <2>1 DEF TypeOK
  <2> QED
    BY <1>1, <2>2, <2>3, <2>4, <2>5, StageMoves DEF Capturing
<1> QED
  BY <1>4, <1>5 DEF Emission

\* A call that moves on undecided, from one stage without a scope to another.
LEMMA UndecidedMoves ==
  ASSUME EmbeddingInv, NEW t \in Thread, NEW from, At(t, from),
         from \notin Capturing \cup {"close", "done"},
         NEW stage \in Stages, stage \notin Capturing \cup {"close", "done"},
         GoTo(t, stage), MutexFollows(t, stage),
         UNCHANGED <<once, sink, errors, lastError, returned, printed, budget>>
  PROVE  EmbeddingInv' /\ TopChanges(t)
<1> DEFINE frame == [Top(t) EXCEPT !.stage = stage]
<1>1. /\ TypeOK /\ stack[t] # <<>> /\ Top(t) \in Frame /\ Top(t).stage = from
      /\ FrameOK(Top(t), Depth(t)) /\ sink[t] = 0
  BY AtStage
<1>2. frame \in Frame /\ frame.stage = stage /\ frame.nested = Top(t).nested
  BY <1>1 DEF Frame
<1>3. FrameOK(frame, Depth(t))
  BY <1>1 DEF FrameOK, Undecided, HasError, Frame
<1>4. /\ errors' \in [Thread -> BOOLEAN] /\ printed' \in [Thread -> BOOLEAN]
      /\ sink' = [sink EXCEPT ![t] = 0]
  BY <1>1 DEF TypeOK
<1>5. SetTop(t, frame) /\ stage \notin {"front", "backend"}
  BY DEF GoTo, Capturing
<1> HIDE DEF frame
<1> QED
  BY <1>1, <1>2, <1>3, <1>4, <1>5, TopReplaced

\* A call that gives its verdict outside of a scope.
LEMMA DecidedMoves ==
  ASSUME EmbeddingInv, NEW t \in Thread, NEW from, At(t, from), from \notin Capturing,
         NEW frame \in Frame, SetTop(t, frame), frame.nested = Top(t).nested,
         frame.stage = "done", Decided(frame), \A d \in frame.diags : d[1] = Depth(t),
         MutexFollows(t, "done"),
         UNCHANGED <<once, sink, errors, lastError, returned, printed, budget>>
  PROVE  EmbeddingInv' /\ TopChanges(t)
<1>1. TypeOK /\ stack[t] # <<>> /\ sink[t] = 0
  BY AtStage
<1>2. FrameOK(frame, Depth(t)) /\ frame.stage \notin Capturing
  BY DEF FrameOK, Capturing
<1>3. /\ errors' \in [Thread -> BOOLEAN] /\ printed' \in [Thread -> BOOLEAN]
      /\ sink' = [sink EXCEPT ![t] = 0]
  BY <1>1 DEF TypeOK
<1> QED
  BY <1>1, <1>2, <1>3, TopReplaced

\* A verdict of an undecided call, with or without an error.
LEMMA Verdicts ==
  ASSUME EmbeddingInv, NEW t \in Thread, NEW from, At(t, from),
         from \notin Capturing \cup {"close", "done"},
         \/ FailWith(t)
         \/ SetTop(t, [Top(t) EXCEPT !.stage = "done", !.success = TRUE]),
         MutexFollows(t, "done"),
         UNCHANGED <<once, sink, errors, lastError, returned, printed, budget>>
  PROVE  EmbeddingInv' /\ TopChanges(t)
<1>1. /\ Top(t) \in Frame /\ Top(t).stage = from /\ FrameOK(Top(t), Depth(t))
      /\ Depth(t) \in 1 .. MaxDepth
  BY AtStage
<1>2. Undecided(Top(t)) /\ \A d \in Top(t).diags : d[1] = Depth(t)
  BY <1>1 DEF FrameOK
<1>3. CASE FailWith(t)
  <2> DEFINE diags == Top(t).diags \cup {<<Depth(t), "error">>}
             frame == [Top(t) EXCEPT !.stage = "done", !.failed = TRUE, !.diags = diags]
  <2>1. SetTop(t, frame)
    BY <1>3 DEF FailWith
  <2>2. diags \in SUBSET ((1 .. MaxDepth) \X Severity)
    BY <1>1 DEF Frame, Severity
  <2>3. /\ frame \in Frame /\ frame.stage = "done" /\ frame.nested = Top(t).nested
        /\ frame.diags = diags /\ frame.failed /\ ~frame.success
    BY <1>1, <1>2, <2>2 DEF Frame, Stages, Undecided
  <2>4. \A d \in diags : d[1] = Depth(t)
    BY <1>2
  <2>5. \E d \in diags : d[2] = "error"
    <3>1. <<Depth(t), "error">>[2] = "error"
      OBVIOUS
    <3> QED
      BY <3>1
  <2> HIDE DEF diags, frame
  <2>6. Decided(frame)
    <3>1. frame.success = ~frame.failed
      BY <2>3 DEF Frame
    <3> QED
      BY <2>3, <2>5, <3>1 DEF Decided, HasError
  <2> QED
    BY <2>1, <2>3, <2>4, <2>6, DecidedMoves
<1>4. CASE SetTop(t, [Top(t) EXCEPT !.stage = "done", !.success = TRUE])
  <2> DEFINE frame == [Top(t) EXCEPT !.stage = "done", !.success = TRUE]
  <2>1. SetTop(t, frame)
    BY <1>4
  <2>2. /\ frame \in Frame /\ frame.stage = "done" /\ frame.nested = Top(t).nested
        /\ frame.diags = Top(t).diags /\ ~frame.failed /\ frame.success
    BY <1>1, <1>2 DEF Frame, Stages, Undecided
  <2> HIDE DEF frame
  <2>3. Decided(frame)
    <3>1. frame.success = ~frame.failed
      BY <2>2 DEF Frame
    <3> QED
      BY <1>2, <2>2, <3>1 DEF Decided, Undecided, HasError
  <2> QED
    BY <1>2, <2>1, <2>2, <2>3, DecidedMoves
<1> QED
  BY <1>3, <1>4

LEMMA RequestKeeps ==
  ASSUME EmbeddingInv, NEW t \in Thread,
         RefuseRequest(t) \/ AcceptRequest(t) \/ CheckEntry(t) \/ EntryReturns(t)
  PROVE  EmbeddingInv' /\ TopChanges(t)
<1>1. UNCHANGED <<once, jitMutex, sink, errors, lastError, returned, printed, budget>>
  BY DEF RefuseRequest, AcceptRequest, CheckEntry, EntryReturns, shared
<1>2. ASSUME NEW from \in {"request", "entry", "run"}, At(t, from)
      PROVE  MutexFollows(t, "done") /\ MutexFollows(t, "open") /\ MutexFollows(t, "lock")
  <2>1. jitMutex # t
    BY <1>2, AtStage
  <2> QED
    BY <1>1, <2>1 DEF MutexFollows
<1>3. CASE At(t, "request") /\ FailWith(t)
  BY <1>1, <1>2, <1>3, Verdicts DEF Capturing
<1>4. CASE At(t, "request") /\ GoTo(t, "open")
  BY <1>1, <1>2, <1>4, UndecidedMoves DEF Capturing, Stages
<1>5. CASE At(t, "entry") /\ FailWith(t)
  BY <1>1, <1>2, <1>5, Verdicts DEF Capturing
<1>6. CASE At(t, "entry") /\ GoTo(t, "lock")
  BY <1>1, <1>2, <1>6, UndecidedMoves DEF Capturing, Stages
<1>7. CASE At(t, "run") /\ SetTop(t, [Top(t) EXCEPT !.stage = "done", !.success = TRUE])
  BY <1>1, <1>2, <1>7, Verdicts DEF Capturing
<1> QED
  BY <1>3, <1>4, <1>5, <1>6, <1>7 DEF RefuseRequest, AcceptRequest, CheckEntry, EntryReturns

LEMMA SetupKeeps ==
  ASSUME EmbeddingInv, NEW t \in Thread, Lock(t) \/ FailSetup(t) \/ FinishSetup(t)
  PROVE  EmbeddingInv' /\ TopChanges(t)
<1>1. UNCHANGED <<once, sink, errors, lastError, returned, printed, budget>>
  BY DEF Lock, FailSetup, FinishSetup
<1>2. CASE Lock(t)
  <2>1. At(t, "lock") /\ GoTo(t, "setup") /\ MutexFollows(t, "setup")
    BY <1>2 DEF Lock, MutexFollows
  <2> QED
    BY <1>1, <2>1, UndecidedMoves DEF Capturing, Stages
<1>3. CASE At(t, "setup") /\ jitMutex' = NoThread
  <2>1. jitMutex = t
    BY <1>3, AtStage
  <2>2. MutexFollows(t, "done") /\ MutexFollows(t, "run")
    BY <1>3, <2>1 DEF MutexFollows
  <2>3. CASE FailWith(t) \/ SetTop(t, [Top(t) EXCEPT !.stage = "done", !.success = TRUE])
    BY <1>1, <1>3, <2>2, <2>3, Verdicts DEF Capturing
  <2>4. CASE GoTo(t, "run")
    BY <1>1, <1>3, <2>2, <2>4, UndecidedMoves DEF Capturing, Stages
  <2> QED
    BY <1>2, <2>3, <2>4 DEF FailSetup, FinishSetup, Lock
<1> QED
  BY <1>2, <1>3 DEF FailSetup, FinishSetup

LEMMA ReportInSetupKeeps ==
  ASSUME EmbeddingInv, NEW t \in Thread, ReportInSetup(t)
  PROVE  EmbeddingInv' /\ TopChanges(t)
<1>1. At(t, "setup") /\ UNCHANGED <<shared, sink, lastError, returned, budget>>
  BY DEF ReportInSetup
<1>2. /\ TypeOK /\ Top(t) \in Frame /\ Top(t).stage = "setup" /\ FrameOK(Top(t), Depth(t))
      /\ ~IsCapturing(t)
  BY <1>1, AtStage DEF Capturing
<1>3. PICK new \in Frame :
        /\ SetTop(t, new)
        /\ new.stage = Top(t).stage /\ new.diags = Top(t).diags /\ new.nested = Top(t).nested
        /\ new.success = Top(t).success /\ new.failed = Top(t).failed
        /\ printed' \in [Thread -> BOOLEAN] /\ errors' \in [Thread -> BOOLEAN]
        /\ \A u \in Thread : u # t => errors'[u] = errors[u]
  <2>1. CASE LogError(t, [Top(t) EXCEPT !.reported = TRUE])
    <3> DEFINE noted == [Top(t) EXCEPT !.reported = TRUE]
               lost == [noted EXCEPT !.lost = TRUE]
    <3>1. noted \in Frame
      BY <1>2 DEF Frame
    <3>2. /\ errors' = [errors EXCEPT ![t] = TRUE] /\ printed' \in [Thread -> BOOLEAN]
          /\ SetTop(t, noted) \/ SetTop(t, lost)
      BY <1>2, <2>1, <3>1, LogErrorOutside
    <3>3. /\ noted.stage = Top(t).stage /\ noted.diags = Top(t).diags
          /\ noted.nested = Top(t).nested
          /\ noted.success = Top(t).success /\ noted.failed = Top(t).failed
      BY <1>2 DEF Frame
    <3>4. /\ lost \in Frame /\ lost.stage = Top(t).stage /\ lost.diags = Top(t).diags
          /\ lost.nested = Top(t).nested
          /\ lost.success = Top(t).success /\ lost.failed = Top(t).failed
      BY <1>2 DEF Frame
    <3>5. errors' \in [Thread -> BOOLEAN] /\ \A u \in Thread : u # t => errors'[u] = errors[u]
      BY <1>2, <3>2 DEF TypeOK
    <3> HIDE DEF noted, lost
    <3> QED
      BY <3>1, <3>2, <3>3, <3>4, <3>5
  <2>2. CASE Emit(t, "warning", Top(t)) /\ UNCHANGED errors
    <3>1. SetTop(t, Top(t)) /\ printed' \in [Thread -> BOOLEAN]
      BY <1>2, <2>2, EmitOutside DEF Severity
    <3> QED
      BY <1>2, <2>2, <3>1 DEF TypeOK
  <2> QED
    BY <2>1, <2>2 DEF ReportInSetup
<1>4. FrameOK(new, Depth(t))
  BY <1>2, <1>3 DEF FrameOK, Undecided, HasError, Capturing
<1> QED
  BY <1>1, <1>2, <1>3, <1>4, StageMoves DEF Capturing

-----------------------------------------------------------------------------
(* The invariant and what follows from it.                                 *)

LEMMA EmbeddingInvInit == Init => EmbeddingInv
<1> SUFFICES ASSUME Init PROVE EmbeddingInv
  OBVIOUS
<1>1. /\ 0 \in 0 .. MaxDepth /\ MaxCalls \in [Thread -> Nat]
      /\ \A t \in Thread : MaxCalls[t] <= MaxCalls[t]
  BY BoundAssumption
<1>2. \A t \in Thread : stack[t] = <<>> /\ Depth(t) = 0
  BY EmptySeq DEF Init, Depth
<1>3. stack \in [Thread -> Seq(Frame)] /\ \A t \in Thread : Len(stack[t]) <= MaxDepth
  BY <1>1, <1>2, EmptySeq DEF Init, Depth
<1>4. TypeOK
  BY <1>1, <1>3 DEF Init, TypeOK
<1>5. LockedOnlyInSetup
  BY <1>2, ThreadAssumption DEF Init, LockedOnlyInSetup, At
<1>6. ASSUME NEW t \in Thread PROVE ThreadInv(t)
  <2>1. FramesOK(t) /\ OthersRun(t) /\ NullNoted(t)
    BY <1>2 DEF FramesOK, OthersRun, NullNoted
  <2>2. SinkOfTop(t) /\ NoErrorYet(t)
    BY <1>2 DEF Init, SinkOfTop, IsCapturing, NoErrorYet, At
  <2> QED
    BY <2>1, <2>2 DEF ThreadInv
<1> QED
  BY <1>4, <1>5, <1>6 DEF EmbeddingInv

LEMMA EmbeddingInvStep ==
  ASSUME EmbeddingInv, [Next]_vars
  PROVE  EmbeddingInv'
<1>1. CASE UNCHANGED vars
  <2>1. UNCHANGED <<once, jitMutex, sink, errors, lastError, stack, returned, printed, budget>>
    BY <1>1 DEF vars, shared
  <2>2. \A t \in Thread : ThreadInv(t)' /\ (At(t, "setup")' <=> At(t, "setup"))
    BY <2>1, OtherThread DEF EmbeddingInv
  <2> QED
    BY <2>1, <2>2 DEF EmbeddingInv, TypeOK, LockedOnlyInSetup
<1>2. ASSUME NEW t \in Thread, CallHost(t) PROVE EmbeddingInv'
  BY <1>2, BeginKeeps, RefuseArgumentsKeeps DEF CallHost
<1>3. ASSUME NEW t \in Thread, CompileStep(t) PROVE EmbeddingInv'
  BY <1>3, OpenScopeKeeps, FrontKeeps, EmissionKeeps, CloseScopeKeeps, TargetsKeep
  DEF CompileStep
<1>4. ASSUME NEW t \in Thread, JitStep(t) PROVE EmbeddingInv'
  BY <1>4, RequestKeeps, SetupKeeps DEF JitStep
<1>5. ASSUME NEW t \in Thread, Return(t) \/ ReportInSetup(t) \/ Unwind(t) PROVE EmbeddingInv'
  BY <1>5, ReturnKeeps, ReportInSetupKeeps, UnwindKeeps
<1> QED
  BY <1>1, <1>2, <1>3, <1>4, <1>5 DEF Next, Step

\* The invariant holds of any threads, calls and depths.
THEOREM EmbeddingInvariant == Spec => []EmbeddingInv
BY EmbeddingInvInit, EmbeddingInvStep, PTL DEF Spec

\* The state of the calls and of the threads is what it is declared to be.
THEOREM EmbeddingTypeCorrect == Spec => []TypeOK
<1>1. EmbeddingInv => TypeOK
  BY DEF EmbeddingInv
<1> QED
  BY <1>1, EmbeddingInvariant, PTL

\* diagnosticSink never outlives the compilation that set it, however calls nest
\* and are unwound (logging.cpp:60-67).
THEOREM SinkNeverDangles == Spec => []SinkIsLive
<1>1. EmbeddingInv => SinkIsLive
  <2> SUFFICES ASSUME EmbeddingInv, NEW t \in Thread, sink[t] # 0
               PROVE  sink[t] = Depth(t) /\ \E stage \in Capturing : At(t, stage)
    BY DEF SinkIsLive
  <2>1. IsCapturing(t) /\ sink[t] = Depth(t)
    BY DEF EmbeddingInv, ThreadInv, SinkOfTop
  <2> QED
    BY <2>1 DEF IsCapturing, At
<1> QED
  BY <1>1, EmbeddingInvariant, PTL

\* A thread holds executeJit's mutex exactly while it sets up a module, so the
\* code it then runs may execute another one (codegen.cpp:488).
THEOREM MutexOnlyInSetup == Spec => []LockedOnlyInSetup
<1>1. EmbeddingInv => LockedOnlyInSetup
  BY DEF EmbeddingInv
<1> QED
  BY <1>1, EmbeddingInvariant, PTL

LEMMA VerdictOfTop ==
  ASSUME EmbeddingInv, NEW t \in Thread, At(t, "done")
  PROVE  Decided(Top(t)) /\ Top(t) \in Frame
BY AtStage DEF FrameOK

\* A result says whether a step of its own call failed: an error counted on the
\* thread by another call does not fail it.
THEOREM VerdictsAreOwn == Spec => []VerdictIsOwn
<1>1. EmbeddingInv => VerdictIsOwn
  BY VerdictOfTop DEF VerdictIsOwn, Decided
<1> QED
  BY <1>1, EmbeddingInvariant, PTL

\* A result has the diagnostics of its own call only, and they explain it.
THEOREM ResultsExplainThemselves == Spec => []ResultExplainsItself
<1>1. EmbeddingInv => ResultExplainsItself
  <2> SUFFICES ASSUME EmbeddingInv, NEW t \in Thread
               PROVE  /\ \A i \in DOMAIN stack[t] : \A d \in stack[t][i].diags : d[1] = i
                      /\ At(t, "done") =>
                           /\ Top(t).success => ~HasError(Top(t))
                           /\ ~Top(t).success /\ ~Top(t).lost => HasError(Top(t))
    BY DEF ResultExplainsItself, HasError
  <2>1. stack[t] \in Seq(Frame) /\ FramesOK(t)
    BY StackTyped DEF EmbeddingInv, ThreadInv
  <2>2. DOMAIN stack[t] = 1 .. Depth(t)
    BY <2>1, LenProperties DEF Depth
  <2>3. \A i \in DOMAIN stack[t] : \A d \in stack[t][i].diags : d[1] = i
    BY <2>1, <2>2 DEF FramesOK, FrameOK
  <2> QED
    BY <2>3, VerdictOfTop DEF Decided
<1> QED
  BY <1>1, EmbeddingInvariant, PTL

\* A call that returns a result leaves no error text of an earlier one behind.
THEOREM LastErrorIsFresh == Spec => []LastErrorFresh
<1>1. EmbeddingInv => LastErrorFresh
  <2> SUFFICES ASSUME EmbeddingInv, NEW t \in Thread, At(t, "done"), ~Top(t).nested
               PROVE  ~lastError[t]
    BY DEF LastErrorFresh
  <2>1. stack[t] # <<>> /\ TypeOK /\ NullNoted(t)
    BY DEF EmbeddingInv, ThreadInv, At
  <2>2. Depth(t) \in Nat /\ Depth(t) # 0
    BY <2>1, StackTyped
  <2>3. Depth(t) \in 1 .. Depth(t)
    BY <2>2
  <2> QED
    BY <2>1, <2>3 DEF NullNoted, Top
<1> QED
  BY <1>1, EmbeddingInvariant, PTL

-----------------------------------------------------------------------------
(* LLVM's targets are registered before they are used.                     *)

\* No open call has needed them so far.
Unused == \A u \in Thread : \A i \in 1 .. Depth(u) : ~UsesTargets(stack[u][i])

\* The typed form of RegisteredBeforeUse.
RegistryInv == once = "done" \/ Unused

LEMMA TopUnused ==
  ASSUME TypeOK, Unused, NEW t \in Thread, stack[t] # <<>>,
         NEW frame \in Frame, SetTop(t, frame), ~UsesTargets(frame)
  PROVE  Unused'
<1>1. /\ Len(stack'[t]) = Depth(t)
      /\ \A i \in 1 .. Depth(t) - 1 : stack'[t][i] = stack[t][i]
      /\ stack'[t][Depth(t)] = frame
      /\ \A u \in Thread : u # t => stack'[u] = stack[u]
  BY NewTop
<1>2. Depth(t) \in Nat
  BY StackTyped
<1>3. \A i \in 1 .. Depth(t) : i = Depth(t) \/ (i \in 1 .. Depth(t) - 1 /\ i \in 1 .. Depth(t))
  BY <1>2
<1>4. \A i \in 1 .. Depth(t) : ~UsesTargets(stack'[t][i])
  BY <1>1, <1>3 DEF Unused
<1> QED
  BY <1>1, <1>4 DEF Unused, Depth, UsesTargets

\* While no call has needed the targets, calls do not nest: an enclosing call
\* would run its entry.
LEMMA UnusedUnnested ==
  ASSUME EmbeddingInv, Unused, NEW t \in Thread
  PROVE  /\ Depth(t) \in {0, 1} /\ (stack[t] = <<>> <=> Depth(t) = 0)
         /\ stack[t] # <<>> => ~UsesTargets(Top(t))
         /\ HostCodeRuns(t) => stack[t] = <<>>
<1>1. TypeOK /\ OthersRun(t)
  BY DEF EmbeddingInv, ThreadInv
<1>2. Depth(t) \in Nat /\ (stack[t] # <<>> <=> Depth(t) # 0)
  BY <1>1, StackTyped
<1>3. \A i \in 1 .. Depth(t) : stack[t][i].stage # "run"
  BY DEF Unused, UsesTargets
<1>4. Depth(t) \in {0, 1}
  <2> SUFFICES ASSUME Depth(t) \notin {0, 1} PROVE FALSE
    OBVIOUS
  <2>1. 1 \in 1 .. Depth(t) - 1 /\ 1 \in 1 .. Depth(t)
    BY <1>2
  <2> QED
    BY <1>1, <1>3, <2>1 DEF OthersRun
<1>5. stack[t] # <<>> => ~UsesTargets(Top(t)) /\ Top(t).stage # "run"
  <2> SUFFICES ASSUME stack[t] # <<>> PROVE ~UsesTargets(Top(t)) /\ Top(t).stage # "run"
    OBVIOUS
  <2>1. Depth(t) \in 1 .. Depth(t)
    BY <1>2
  <2> QED
    BY <1>3, <2>1 DEF Top, Unused
<1> QED
  BY <1>2, <1>4, <1>5 DEF HostCodeRuns, At

\* A call that begins, is refused or ends.
LEMMA CallsUnused ==
  ASSUME EmbeddingInv, Unused, NEW t \in Thread, CallHost(t) \/ Return(t) \/ Unwind(t)
  PROVE  Unused'
<1>1. TypeOK /\ stack \in [Thread -> Seq(Frame)] /\ stack[t] \in Seq(Frame)
  BY DEF EmbeddingInv, TypeOK
<1>2. /\ Depth(t) \in {0, 1} /\ (stack[t] = <<>> <=> Depth(t) = 0)
      /\ HostCodeRuns(t) => stack[t] = <<>>
  BY UnusedUnnested
<1>3. ASSUME NEW frames \in Seq(Frame), stack' = [stack EXCEPT ![t] = frames],
             \A i \in 1 .. Len(frames) : ~UsesTargets(frames[i])
      PROVE  Unused'
  <2>1. stack'[t] = frames /\ \A u \in Thread : u # t => stack'[u] = stack[u]
    BY <1>1, <1>3
  <2> QED
    BY <1>3, <2>1 DEF Unused, Depth, UsesTargets
<1>4. CASE Begin(t)
  <2>1. PICK api \in Api : stack' = [stack EXCEPT ![t] = Append(stack[t], NewFrame(api))]
    BY <1>4 DEF Begin
  <2>2. 0 \in 0 .. MaxDepth
    BY BoundAssumption
  <2>3. NewFrame(api) \in Frame /\ ~UsesTargets(NewFrame(api))
    BY <2>2 DEF NewFrame, Frame, Stages, UsesTargets
  <2>4. Len(stack[t]) = 0
    BY <1>2, <1>4 DEF Begin, MayCall, Depth
  <2>5. /\ Append(stack[t], NewFrame(api)) \in Seq(Frame)
        /\ Len(Append(stack[t], NewFrame(api))) = 1
        /\ Append(stack[t], NewFrame(api))[1] = NewFrame(api)
    BY <1>1, <2>3, <2>4, AppendProperties
  <2>6. \A i \in 1 .. 1 : i = 1
    OBVIOUS
  <2> QED
    BY <1>3, <2>1, <2>3, <2>5, <2>6
<1>5. CASE RefuseArguments(t)
  <2>1. /\ stack' = [stack EXCEPT ![t] = NoteNull(stack[t])] /\ Len(stack[t]) = 0
    BY <1>2, <1>5 DEF RefuseArguments, MayCall, Depth
  <2>2. NoteNull(stack[t]) \in Seq(Frame) /\ Len(NoteNull(stack[t])) = 0
    BY <1>1, <2>1, OuterNoted
  <2>3. \A i \in 1 .. Len(NoteNull(stack[t])) : ~UsesTargets(NoteNull(stack[t])[i])
    BY <2>2
  <2> QED
    BY <1>3, <2>1, <2>2, <2>3
<1>6. CASE Return(t) \/ Unwind(t)
  <2>1. stack[t] # <<>>
    BY <1>6 DEF Return, Unwind, At
  <2>2. Outer(t) \in Seq(Frame) /\ Len(Outer(t)) = 0
    BY <1>1, <1>2, <2>1, OuterTyped
  <2>3. NoteNull(Outer(t)) \in Seq(Frame) /\ Len(NoteNull(Outer(t))) = 0
    BY <1>1, <2>2, OuterNoted
  <2>4. stack' = [stack EXCEPT ![t] = Outer(t)] \/ stack' = [stack EXCEPT ![t] = NoteNull(Outer(t))]
    BY <1>6 DEF Return, Unwind
  <2> QED
    BY <1>3, <2>2, <2>3, <2>4
<1> QED
  BY <1>4, <1>5, <1>6 DEF CallHost

\* Of the stages, only those up to the end of a compilation that failed occur.
LEMMA StepsUnused ==
  ASSUME EmbeddingInv, Unused, once # "done", NEW t \in Thread,
         CompileStep(t) \/ JitStep(t) \/ ReportInSetup(t)
  PROVE  once' = "done" \/ Unused'
<1>1. TypeOK
  BY DEF EmbeddingInv
<1>2. ~(\E stage \in {"backend", "entry", "lock", "setup", "run"} : At(t, stage))
  BY UnusedUnnested DEF At, UsesTargets
<1>3. CASE OpenScope(t)
  <2> DEFINE frame == [Top(t) EXCEPT !.stage = "front", !.sink = sink[t], !.errors = errors[t]]
  <2>1. At(t, "open") /\ SetTop(t, frame)
    BY <1>3 DEF OpenScope
  <2>2. stack[t] # <<>> /\ Top(t) \in Frame /\ ~UsesTargets(Top(t))
    BY <2>1, AtStage, UnusedUnnested
  <2>3. frame \in Frame /\ frame.stage = "front" /\ frame.success = Top(t).success
    BY <1>1, <2>2 DEF Frame, Stages, TypeOK
  <2> HIDE DEF frame
  <2>4. ~UsesTargets(frame)
    BY <2>2, <2>3 DEF UsesTargets
  <2> QED
    BY <1>1, <2>1, <2>2, <2>3, <2>4, TopUnused
<1>4. CASE FrontThrows(t)
  <2> DEFINE frame == [Top(t) EXCEPT !.stage = "close", !.failed = TRUE]
             noted == [frame EXCEPT !.diags = frame.diags \cup {<<Depth(t), "error">>}]
             lost  == [frame EXCEPT !.lost = TRUE]
  <2>1. At(t, "front") /\ LogError(t, frame)
    BY <1>4 DEF FrontThrows
  <2>2. /\ stack[t] # <<>> /\ Top(t) \in Frame /\ ~UsesTargets(Top(t)) /\ IsCapturing(t)
        /\ Depth(t) \in 1 .. MaxDepth
    BY <2>1, AtStage, UnusedUnnested DEF Capturing
  <2>3. frame \in Frame /\ frame.stage = "close" /\ frame.success = Top(t).success
    BY <2>2 DEF Frame, Stages
  <2>4. SetTop(t, noted) \/ SetTop(t, lost)
    BY <2>1, <2>2, <2>3, LogErrorInside DEF Noted
  <2>5. noted \in Frame /\ noted.stage = frame.stage /\ noted.success = frame.success
    <3> HIDE DEF frame
    <3>1. "error" \in Severity
      BY DEF Severity
    <3> QED
      BY <2>2, <2>3, <3>1, DiagnosedFrame
  <2>6. lost \in Frame /\ lost.stage = frame.stage /\ lost.success = frame.success
    <3> HIDE DEF frame
    <3> QED
      BY <2>3 DEF Frame
  <2> HIDE DEF frame, noted, lost
  <2>7. ~UsesTargets(noted) /\ ~UsesTargets(lost)
    BY <2>2, <2>3, <2>5, <2>6 DEF UsesTargets
  <2> QED
    BY <1>1, <2>2, <2>4, <2>5, <2>6, <2>7, TopUnused
<1>5. CASE CloseScope(t)
  <2> DEFINE frame == [Top(t) EXCEPT !.stage = AfterCompile(Top(t)),
                                     !.success = @ /\ Top(t).api = "compile"]
  <2>1. At(t, "close") /\ SetTop(t, frame)
    BY <1>5 DEF CloseScope
  <2>2. stack[t] # <<>> /\ Top(t) \in Frame /\ ~UsesTargets(Top(t))
    BY <2>1, AtStage, UnusedUnnested
  <2>3. Top(t).success = FALSE /\ AfterCompile(Top(t)) = "done"
    BY <2>2 DEF UsesTargets, AfterCompile, Frame
  <2>4. frame \in Frame /\ frame.stage = "done" /\ ~frame.success
    BY <2>2, <2>3 DEF Frame, Stages
  <2> HIDE DEF frame
  <2>5. ~UsesTargets(frame)
    BY <2>4 DEF UsesTargets
  <2> QED
    BY <1>1, <2>1, <2>2, <2>4, <2>5, TopUnused
<1>6. CASE BeginTargets(t) \/ FinishTargets(t)
  <2>1. stack' = stack
    BY <1>6 DEF BeginTargets, FinishTargets
  <2> QED
    BY <2>1 DEF Unused, Depth, UsesTargets
<1>7. CASE RefuseRequest(t) \/ AcceptRequest(t)
  <2> DEFINE diags   == Top(t).diags \cup {<<Depth(t), "error">>}
             refused == [Top(t) EXCEPT !.stage = "done", !.failed = TRUE, !.diags = diags]
             open    == [Top(t) EXCEPT !.stage = "open"]
  <2>1. At(t, "request") /\ (SetTop(t, refused) \/ SetTop(t, open))
    BY <1>7 DEF RefuseRequest, AcceptRequest, FailWith, GoTo
  <2>2. /\ stack[t] # <<>> /\ Top(t) \in Frame /\ ~UsesTargets(Top(t))
        /\ Depth(t) \in 1 .. MaxDepth
    BY <2>1, AtStage, UnusedUnnested
  <2>3. diags \in SUBSET ((1 .. MaxDepth) \X Severity)
    BY <2>2 DEF Frame, Severity
  <2> HIDE DEF diags
  <2>4. /\ refused \in Frame /\ refused.stage = "done" /\ refused.success = Top(t).success
        /\ open \in Frame /\ open.stage = "open" /\ open.success = Top(t).success
    BY <2>2, <2>3 DEF Frame, Stages
  <2> HIDE DEF refused, open
  <2>5. ~UsesTargets(refused) /\ ~UsesTargets(open)
    BY <2>2, <2>4 DEF UsesTargets
  <2> QED
    BY <1>1, <2>1, <2>2, <2>4, <2>5, TopUnused
<1>8. ~Generate(t) /\ ~Emission(t)
  BY <1>2 DEF Generate, Emission
<1>9. ~CheckEntry(t) /\ ~Lock(t) /\ ~FailSetup(t) /\ ~FinishSetup(t) /\ ~EntryReturns(t)
  BY <1>2 DEF CheckEntry, Lock, FailSetup, FinishSetup, EntryReturns
<1>10. ~ReportInSetup(t)
  BY <1>2 DEF ReportInSetup
<1> QED
  BY <1>3, <1>4, <1>5, <1>6, <1>7, <1>8, <1>9, <1>10 DEF CompileStep, JitStep

\* std::call_once runs its function once.
LEMMA DoneOnce ==
  ASSUME once = "done", [Next]_vars
  PROVE  once' = "done"
<1>1. CASE UNCHANGED vars
  BY <1>1 DEF vars, shared
<1>2. ASSUME NEW t \in Thread, CallHost(t) \/ Return(t) \/ ReportInSetup(t) \/ Unwind(t)
      PROVE  once' = once
  BY <1>2 DEF CallHost, Begin, RefuseArguments, Return, ReportInSetup, Unwind, shared
<1>3. ASSUME NEW t \in Thread, CompileStep(t) PROVE once' = "done"
  BY <1>3, ThreadAssumption DEF CompileStep, OpenScope, FrontThrows, Generate, Emission,
     CloseScope, BeginTargets, FinishTargets, shared
<1>4. ASSUME NEW t \in Thread, JitStep(t) PROVE once' = once
  BY <1>4 DEF JitStep, RefuseRequest, AcceptRequest, CheckEntry, Lock, FailSetup,
     FinishSetup, EntryReturns, shared
<1> QED
  BY <1>1, <1>2, <1>3, <1>4 DEF Next, Step

\* LLVM is used only after all its targets are registered, whichever thread did
\* it and however calls nest and fail (codegen.cpp:65-75).
THEOREM TargetsRegistered == Spec => []RegisteredBeforeUse
<1>1. Init => RegistryInv
  <2> SUFFICES ASSUME Init, NEW t \in Thread PROVE Depth(t) = 0
    BY DEF RegistryInv, Unused
  <2> QED
    BY EmptySeq DEF Init, Depth
<1>2. EmbeddingInv /\ RegistryInv /\ [Next]_vars => RegistryInv'
  <2> SUFFICES ASSUME EmbeddingInv, RegistryInv, [Next]_vars PROVE RegistryInv'
    OBVIOUS
  <2>1. CASE once = "done"
    BY <2>1, DoneOnce DEF RegistryInv
  <2>2. CASE once # "done" /\ Unused
    <3>1. CASE UNCHANGED vars
      <4>1. stack' = stack
        BY <3>1 DEF vars
      <4> QED
        BY <2>2, <4>1 DEF RegistryInv, Unused, Depth, UsesTargets
    <3>2. ASSUME NEW t \in Thread, CallHost(t) \/ Step(t) \/ ReportInSetup(t) \/ Unwind(t)
          PROVE  RegistryInv'
      BY <2>2, <3>2, CallsUnused, StepsUnused DEF Step, RegistryInv
    <3> QED
      BY <3>1, <3>2 DEF Next
  <2> QED
    BY <2>1, <2>2 DEF RegistryInv
<1>3. EmbeddingInv /\ RegistryInv => RegisteredBeforeUse
  <2> SUFFICES ASSUME EmbeddingInv, RegistryInv, NEW t \in Thread, NEW i \in DOMAIN stack[t],
                      UsesTargets(stack[t][i])
               PROVE  once = "done"
    BY DEF RegisteredBeforeUse
  <2>1. DOMAIN stack[t] = 1 .. Depth(t)
    BY StackTyped, LenProperties DEF EmbeddingInv, Depth
  <2> QED
    BY <2>1 DEF RegistryInv, Unused
<1> QED
  BY <1>1, <1>2, <1>3, EmbeddingInvariant, PTL DEF Spec

-----------------------------------------------------------------------------
(* What is printed.                                                        *)

LEMMA InsideSilent ==
  ASSUME EmbeddingInv, NEW t \in Thread, FrontThrows(t) \/ Generate(t) \/ Emission(t)
  PROVE  UNCHANGED printed
<1>1. CASE FrontThrows(t) \/ Generate(t)
  <2>1. At(t, "front")
    BY <1>1 DEF FrontThrows, Generate
  <2>2. IsCapturing(t) /\ Top(t) \in Frame
    BY <2>1, AtStage DEF Capturing
  <2>3. [Top(t) EXCEPT !.stage = "close", !.failed = TRUE] \in Frame
    BY <2>2 DEF Frame, Stages
  <2> QED
    BY <1>1, <2>2, <2>3, LogErrorInside DEF FrontThrows, Generate
<1>2. CASE Emission(t)
  <2>1. At(t, "backend")
    BY <1>2 DEF Emission
  <2>2. IsCapturing(t) /\ Top(t) \in Frame /\ TypeOK
    BY <2>1, AtStage DEF Capturing
  <2>3. [Top(t) EXCEPT !.stage = "close", !.success = ~errors[t]] \in Frame
    BY <2>2 DEF Frame, Stages, TypeOK
  <2>4. [[Top(t) EXCEPT !.stage = "close", !.success = ~errors[t]]
           EXCEPT !.success = FALSE, !.failed = TRUE] \in Frame
    BY <2>2 DEF Frame, Stages, TypeOK
  <2> QED
    BY <1>2, <2>2, <2>3, <2>4, LogErrorInside, EmitInside DEF Emission, Severity
<1> QED
  BY <1>1, <1>2

LEMMA ReportPrintsOwn ==
  ASSUME EmbeddingInv, NEW t \in Thread, ReportInSetup(t), NEW u \in Thread,
         printed'[u] # printed[u]
  PROVE  At(u, "setup")
<1>1. At(t, "setup")
  BY DEF ReportInSetup
<1>2. printed \in [Thread -> BOOLEAN] /\ sink[t] = 0
  BY <1>1, AtStage DEF EmbeddingInv, TypeOK, Capturing
<1>3. printed' = printed \/ printed' = [printed EXCEPT ![t] = TRUE]
  BY <1>2 DEF ReportInSetup, LogError, Emit
<1>4. u = t
  BY <1>2, <1>3
<1> QED
  BY <1>1, <1>4

\* Nothing but the set-up of a JIT prints a diagnostic: what compile() reports,
\* it returns (compiler.hpp:75-79).
THEOREM CompileIsSilent == Spec => CompilePrintsNothing
<1>1. EmbeddingInv /\ [Next]_vars
        => [\A t \in Thread : printed'[t] # printed[t] => At(t, "setup")]_vars
  <2> SUFFICES ASSUME EmbeddingInv, [Next]_vars, NEW u \in Thread, printed'[u] # printed[u]
               PROVE  At(u, "setup")
    OBVIOUS
  <2>1. CASE UNCHANGED vars
    BY <2>1 DEF vars
  <2>2. ASSUME NEW t \in Thread, CallHost(t) \/ JitStep(t) \/ Return(t) \/ Unwind(t)
        PROVE  UNCHANGED printed
    BY <2>2 DEF CallHost, Begin, RefuseArguments, JitStep, RefuseRequest, AcceptRequest,
                CheckEntry, Lock, FailSetup, FinishSetup, EntryReturns, Return, Unwind
  <2>3. ASSUME NEW t \in Thread, CompileStep(t)
        PROVE  UNCHANGED printed
    BY <2>3, InsideSilent DEF CompileStep, OpenScope, CloseScope, BeginTargets, FinishTargets
  <2> QED
    BY <2>1, <2>2, <2>3, ReportPrintsOwn DEF Next, Step
<1> QED
  BY <1>1, EmbeddingInvariant, PTL DEF Spec, CompilePrintsNothing

-----------------------------------------------------------------------------
(* The contract with the host.                                             *)

Appearance == {"working", "host", "success", "failure"}
Seen(frames) == [i \in DOMAIN frames |-> Visible(frames[i])]
Calls == [t \in Thread |-> Seen(stack[t])]

LEMMA VisibleTyped ==
  ASSUME NEW frame \in Frame
  PROVE  /\ Visible(frame) \in Appearance
         /\ frame.stage \notin {"run", "done"} <=> Visible(frame) = "working"
         /\ frame.stage = "run" <=> Visible(frame) = "host"
         /\ frame.stage = "done" /\ frame.success <=> Visible(frame) = "success"
<1>1. CASE frame.stage = "run"
  BY <1>1 DEF Visible, Appearance
<1>2. CASE frame.stage = "done"
  BY <1>2 DEF Visible, Appearance
<1>3. CASE frame.stage \notin {"run", "done"}
  BY <1>3 DEF Visible, Appearance
<1> QED
  BY <1>1, <1>2, <1>3

LEMMA SeenTyped ==
  ASSUME NEW frames \in Seq(Frame)
  PROVE  /\ Seen(frames) \in Seq(Appearance) /\ Len(Seen(frames)) = Len(frames)
         /\ \A i \in 1 .. Len(frames) : Seen(frames)[i] = Visible(frames[i])
<1>1. DOMAIN frames = 1 .. Len(frames) /\ Len(frames) \in Nat
      /\ \A i \in 1 .. Len(frames) : frames[i] \in Frame
  BY LenProperties, ElementOfSeq
<1>2. Seen(frames) \in [1 .. Len(frames) -> Appearance]
  BY <1>1, VisibleTyped DEF Seen
<1> QED
  BY <1>1, <1>2 DEF Seen

LEMMA SeenSame ==
  ASSUME NEW f \in Seq(Frame), NEW g \in Seq(Frame), Len(f) = Len(g),
         \A i \in 1 .. Len(f) : Visible(f[i]) = Visible(g[i])
  PROVE  Seen(f) = Seen(g)
BY SeenTyped, SeqEqual

LEMMA CallsFacts ==
  ASSUME TypeOK, NEW t \in Thread
  PROVE  /\ Calls[t] = Seen(stack[t]) /\ Calls[t] \in Seq(Appearance)
         /\ Len(Calls[t]) = Depth(t) /\ Depth(t) \in Nat
         /\ Calls[t] = <<>> <=> stack[t] = <<>>
         /\ stack[t] # <<>> => Calls[t][Depth(t)] = Visible(Top(t))
<1>1. stack[t] \in Seq(Frame) /\ Depth(t) \in Nat /\ (stack[t] # <<>> <=> Depth(t) # 0)
  BY StackTyped
<1>2. /\ Calls[t] = Seen(stack[t]) /\ Calls[t] \in Seq(Appearance) /\ Len(Calls[t]) = Depth(t)
      /\ \A i \in 1 .. Depth(t) : Calls[t][i] = Visible(stack[t][i])
  BY <1>1, SeenTyped DEF Calls, Depth
<1>3. Calls[t] = <<>> <=> Depth(t) = 0
  BY <1>1, <1>2, EmptySeq
<1>4. stack[t] # <<>> => Depth(t) \in 1 .. Depth(t)
  BY <1>1
<1> QED
  BY <1>1, <1>2, <1>3, <1>4 DEF Top

LEMMA CallsChanged ==
  ASSUME NEW t \in Thread, \A u \in Thread : u # t => stack'[u] = stack[u]
  PROVE  Calls' = [Calls EXCEPT ![t] = Seen(stack'[t])]
BY DEF Calls, Seen, Visible

LEMMA CallsKept ==
  ASSUME NEW t \in Thread, \A u \in Thread : u # t => stack'[u] = stack[u],
         Seen(stack'[t]) = Seen(stack[t])
  PROVE  Calls' = Calls
BY CallsChanged DEF Calls

\* The calls around the innermost one, as the host sees them.
LEMMA SeenOuter ==
  ASSUME TypeOK, NEW t \in Thread, stack[t] # <<>>
  PROVE  Seen(Outer(t)) = SubSeq(Calls[t], 1, Len(Calls[t]) - 1)
<1>1. /\ Calls[t] \in Seq(Appearance) /\ Len(Calls[t]) = Depth(t) /\ Depth(t) \in Nat
      /\ Depth(t) # 0
  BY CallsFacts, StackTyped
<1>2. /\ Outer(t) \in Seq(Frame) /\ Len(Outer(t)) = Depth(t) - 1
      /\ \A i \in 1 .. Depth(t) - 1 : Outer(t)[i] = stack[t][i]
  BY OuterTyped
<1>3. /\ Seen(Outer(t)) \in Seq(Appearance) /\ Len(Seen(Outer(t))) = Depth(t) - 1
      /\ \A i \in 1 .. Depth(t) - 1 : Seen(Outer(t))[i] = Visible(stack[t][i])
  BY <1>2, SeenTyped
<1>4. \A i \in 1 .. Depth(t) : Calls[t][i] = Visible(stack[t][i]) /\ Calls[t][i] \in Appearance
  BY <1>1, SeenTyped, StackTyped, CallsFacts, ElementOfSeq DEF Depth
<1>5. /\ SubSeq(Calls[t], 1, Depth(t) - 1) \in Seq(Appearance)
      /\ Len(SubSeq(Calls[t], 1, Depth(t) - 1)) = Depth(t) - 1
      /\ \A i \in 1 .. Depth(t) - 1 : SubSeq(Calls[t], 1, Depth(t) - 1)[i] = Calls[t][i]
  <2>1. 1 \in Int /\ Depth(t) - 1 \in Int
    BY <1>1
  <2>2. \A i \in 1 .. Depth(t) - 1 : Calls[t][i] \in Appearance
    BY <1>1, <1>4
  <2> QED
    BY <1>1, <2>1, <2>2, SubSeqProperties
<1>6. \A i \in 1 .. Depth(t) - 1 : Seen(Outer(t))[i] = SubSeq(Calls[t], 1, Depth(t) - 1)[i]
  BY <1>1, <1>3, <1>4, <1>5
<1> QED
  BY <1>1, <1>3, <1>5, <1>6, SeqEqual

LEMMA SeenAppend ==
  ASSUME NEW frames \in Seq(Frame), NEW frame \in Frame
  PROVE  Seen(Append(frames, frame)) = Append(Seen(frames), Visible(frame))
<1>1. /\ Append(frames, frame) \in Seq(Frame) /\ Len(Append(frames, frame)) = Len(frames) + 1
      /\ \A i \in 1 .. Len(frames) : Append(frames, frame)[i] = frames[i]
      /\ Append(frames, frame)[Len(frames) + 1] = frame
  BY AppendProperties
<1>2. /\ Seen(frames) \in Seq(Appearance) /\ Len(Seen(frames)) = Len(frames)
      /\ \A i \in 1 .. Len(frames) : Seen(frames)[i] = Visible(frames[i])
      /\ Visible(frame) \in Appearance
  BY SeenTyped, VisibleTyped
<1>3. /\ Append(Seen(frames), Visible(frame)) \in Seq(Appearance)
      /\ Len(Append(Seen(frames), Visible(frame))) = Len(frames) + 1
      /\ \A i \in 1 .. Len(frames) : Append(Seen(frames), Visible(frame))[i] = Seen(frames)[i]
      /\ Append(Seen(frames), Visible(frame))[Len(frames) + 1] = Visible(frame)
  BY <1>2, AppendProperties
<1>4. /\ Seen(Append(frames, frame)) \in Seq(Appearance)
      /\ Len(Seen(Append(frames, frame))) = Len(frames) + 1
      /\ \A i \in 1 .. Len(frames) + 1 :
           Seen(Append(frames, frame))[i] = Visible(Append(frames, frame)[i])
  BY <1>1, SeenTyped
<1>5. \A i \in 1 .. Len(frames) + 1 : i \in 1 .. Len(frames) \/ i = Len(frames) + 1
  BY LenProperties
<1>6. \A i \in 1 .. Len(frames) + 1 :
        Seen(Append(frames, frame))[i] = Append(Seen(frames), Visible(frame))[i]
  BY <1>1, <1>2, <1>3, <1>4, <1>5
<1> QED
  BY <1>3, <1>4, <1>6, SeqEqual

\* The innermost call moves on: from "working" to anything, or from the entry
\* to success.
LEMMA TopSeen ==
  ASSUME TypeOK, NEW t \in Thread, stack[t] # <<>>, NEW frame \in Frame, SetTop(t, frame),
         \/ Visible(frame) = Visible(Top(t))
         \/ Visible(Top(t)) = "working"
         \/ Visible(Top(t)) = "host" /\ Visible(frame) = "success"
  PROVE  Contract!ContractNext \/ Calls' = Calls
<1>1. stack' = [stack EXCEPT ![t] = Append(Outer(t), frame)] /\ stack \in [Thread -> Seq(Frame)]
  BY DEF SetTop, TypeOK
<1>2. Outer(t) \in Seq(Frame)
  BY OuterTyped
<1>3. Seen(stack'[t]) = Append(SubSeq(Calls[t], 1, Len(Calls[t]) - 1), Visible(frame))
  BY <1>1, <1>2, SeenAppend, SeenOuter
<1>4. Calls' = [Calls EXCEPT ![t] = Append(SubSeq(Calls[t], 1, Len(Calls[t]) - 1), Visible(frame))]
  BY <1>1, <1>3, CallsChanged
<1>5. /\ Calls[t] # <<>> /\ Calls[t][Len(Calls[t])] = Visible(Top(t))
      /\ Calls[t] \in Seq(Appearance)
  BY CallsFacts
<1>6. Contract!Become(t, Visible(Top(t)), Visible(frame))
  BY <1>4, <1>5 DEF Contract!Become, Contract!Innermost, Contract!Enclosing, Calls, Seen
<1>7. CASE Visible(frame) = Visible(Top(t))
  <2>1. Append(SubSeq(Calls[t], 1, Len(Calls[t]) - 1), Calls[t][Len(Calls[t])]) = Calls[t]
    <3>1. Len(Calls[t]) \in Nat /\ Len(Calls[t]) # 0
      BY <1>5, EmptySeq
    <3> QED
      BY <1>5, <3>1
  <2> QED
    BY <1>4, <1>5, <1>7, <2>1 DEF Calls
<1>8. CASE Visible(frame) # Visible(Top(t)) /\ Visible(Top(t)) = "working"
  <2>1. Visible(frame) \in {"host", "success", "failure"}
    BY <1>8, VisibleTyped DEF Appearance
  <2> QED
    BY <1>6, <1>8, <2>1 DEF Contract!ContractNext
<1>9. CASE Visible(Top(t)) = "host" /\ Visible(frame) = "success"
  BY <1>6, <1>9 DEF Contract!ContractNext
<1> QED
  BY <1>7, <1>8, <1>9

\* It is closed.
LEMMA TopClosed ==
  ASSUME TypeOK, NEW t \in Thread, stack[t] # <<>>,
         Visible(Top(t)) \in {"working", "success", "failure"},
         NEW frames \in Seq(Frame), stack' = [stack EXCEPT ![t] = frames],
         Len(frames) = Depth(t) - 1,
         \A i \in 1 .. Depth(t) - 1 : Visible(frames[i]) = Visible(stack[t][i])
  PROVE  Contract!ContractNext
<1>1. /\ Outer(t) \in Seq(Frame) /\ Len(Outer(t)) = Depth(t) - 1
      /\ \A i \in 1 .. Depth(t) - 1 : Outer(t)[i] = stack[t][i]
  BY OuterTyped
<1>2. Seen(frames) = Seen(Outer(t))
  BY <1>1, SeenSame
<1>3. stack'[t] = frames /\ \A u \in Thread : u # t => stack'[u] = stack[u]
  BY DEF TypeOK
<1>4. Calls' = [Calls EXCEPT ![t] = SubSeq(Calls[t], 1, Len(Calls[t]) - 1)]
  BY <1>2, <1>3, CallsChanged, SeenOuter
<1>5. Calls[t] # <<>> /\ Calls[t][Len(Calls[t])] = Visible(Top(t))
  BY CallsFacts
<1>6. PICK last \in {"working", "success", "failure"} : last = Visible(Top(t))
  OBVIOUS
<1>7. Contract!Close(t, last)
  BY <1>4, <1>5, <1>6 DEF Contract!Close, Contract!Innermost, Contract!Enclosing, Calls, Seen
<1> QED
  BY <1>7 DEF Contract!ContractNext

LEMMA NotedVisible ==
  ASSUME NEW old \in Frame
  PROVE  Visible([old EXCEPT !.nested = TRUE]) = Visible(old)
BY DEF Visible, Frame

LEMMA BeginOpens ==
  ASSUME EmbeddingInv, NEW t \in Thread, Begin(t)
  PROVE  Contract!ContractNext
<1>1. TypeOK /\ HostCodeRuns(t)
  BY DEF EmbeddingInv, Begin, MayCall
<1>2. PICK api \in Api : stack' = [stack EXCEPT ![t] = Append(@, NewFrame(api))]
  BY DEF Begin
<1>3. NewFrame(api) \in Frame /\ NewFrame(api).stage \notin {"run", "done"}
  <2>1. 0 \in 0 .. MaxDepth
    BY BoundAssumption
  <2> QED
    BY <2>1 DEF NewFrame, Frame, Stages
<1>4. Visible(NewFrame(api)) = "working"
  BY <1>3, VisibleTyped
<1>5. /\ stack[t] \in Seq(Frame) /\ stack'[t] = Append(stack[t], NewFrame(api))
      /\ \A u \in Thread : u # t => stack'[u] = stack[u]
  BY <1>1, <1>2 DEF TypeOK
<1>6. Seen(stack'[t]) = Append(Calls[t], "working")
  BY <1>3, <1>4, <1>5, SeenAppend DEF Calls
<1>7. Calls' = [Calls EXCEPT ![t] = Append(Calls[t], "working")]
  BY <1>5, <1>6, CallsChanged
<1>8. Calls[t] = <<>> \/ Calls[t][Len(Calls[t])] = "host"
  <2>1. stack[t] # <<>> => Top(t) \in Frame /\ Top(t).stage = "run"
    BY <1>1, StackTyped DEF HostCodeRuns, At
  <2>2. stack[t] # <<>> => Visible(Top(t)) = "host"
    BY <2>1, VisibleTyped
  <2> QED
    BY <1>1, <2>2, CallsFacts
<1>9. Contract!Open(t)
  BY <1>7, <1>8 DEF Contract!Open, Contract!HostCodeRuns, Contract!Innermost, Calls, Seen
<1> QED
  BY <1>9 DEF Contract!ContractNext

LEMMA RefuseArgumentsUnseen ==
  ASSUME EmbeddingInv, NEW t \in Thread, RefuseArguments(t)
  PROVE  Calls' = Calls
<1>1. TypeOK /\ stack' = [stack EXCEPT ![t] = NoteNull(stack[t])]
  BY DEF EmbeddingInv, RefuseArguments
<1>2. stack[t] \in Seq(Frame) /\ \A i \in 1 .. Len(stack[t]) : stack[t][i] \in Frame
  BY <1>1, StackTyped, ElementOfSeq
<1>3. /\ NoteNull(stack[t]) \in Seq(Frame) /\ Len(NoteNull(stack[t])) = Len(stack[t])
      /\ \A i \in 1 .. Len(stack[t]) : NoteNull(stack[t])[i] = [stack[t][i] EXCEPT !.nested = TRUE]
  BY <1>1, <1>2, OuterNoted
<1>4. \A i \in 1 .. Len(stack[t]) : Visible(NoteNull(stack[t])[i]) = Visible(stack[t][i])
  BY <1>2, <1>3, NotedVisible
<1>5. Seen(NoteNull(stack[t])) = Seen(stack[t])
  BY <1>2, <1>3, <1>4, SeenSame
<1>6. stack'[t] = NoteNull(stack[t]) /\ \A u \in Thread : u # t => stack'[u] = stack[u]
  BY <1>1 DEF TypeOK
<1> QED
  BY <1>5, <1>6, CallsKept

LEMMA EndCloses ==
  ASSUME EmbeddingInv, NEW t \in Thread, Return(t) \/ Unwind(t)
  PROVE  Contract!ContractNext
<1>1. TypeOK /\ stack[t] # <<>> /\ Top(t).stage # "run"
  BY DEF EmbeddingInv, Return, Unwind, At
<1>2. Top(t) \in Frame /\ Depth(t) \in Nat /\ \A i \in 1 .. Depth(t) : stack[t][i] \in Frame
  BY <1>1, StackTyped
<1>3. Visible(Top(t)) \in {"working", "success", "failure"}
  BY <1>1, <1>2, VisibleTyped DEF Appearance
<1>4. /\ Outer(t) \in Seq(Frame) /\ Len(Outer(t)) = Depth(t) - 1
      /\ \A i \in 1 .. Depth(t) - 1 : Outer(t)[i] = stack[t][i]
  BY <1>1, OuterTyped
<1>5. CASE Return(t)
  <2>1. stack' = [stack EXCEPT ![t] = Outer(t)]
    BY <1>5 DEF Return
  <2>2. \A i \in 1 .. Depth(t) - 1 : Visible(Outer(t)[i]) = Visible(stack[t][i])
    BY <1>4
  <2> QED
    BY <1>1, <1>3, <1>4, <2>1, <2>2, TopClosed
<1>6. CASE Unwind(t)
  <2>1. stack' = [stack EXCEPT ![t] = NoteNull(Outer(t))]
    BY <1>6 DEF Unwind
  <2>2. /\ NoteNull(Outer(t)) \in Seq(Frame) /\ Len(NoteNull(Outer(t))) = Depth(t) - 1
        /\ \A i \in 1 .. Depth(t) - 1 : NoteNull(Outer(t))[i] = [Outer(t)[i] EXCEPT !.nested = TRUE]
    BY <1>1, <1>4, OuterNoted
  <2>3. \A i \in 1 .. Depth(t) - 1 : i \in 1 .. Depth(t) /\ Outer(t)[i] \in Frame
    BY <1>2, <1>4
  <2>4. \A i \in 1 .. Depth(t) - 1 : Visible(NoteNull(Outer(t))[i]) = Visible(stack[t][i])
    BY <1>4, <2>2, <2>3, NotedVisible
  <2> QED
    BY <1>1, <1>3, <2>1, <2>2, <2>4, TopClosed
<1> QED
  BY <1>5, <1>6

\* A step inside the library leaves the innermost call open.
LEMMA InsideStep ==
  ASSUME EmbeddingInv, NEW t \in Thread, NEW stage, stage \notin {"run", "done"},
         At(t, stage), TopChanges(t)
  PROVE  Contract!ContractNext \/ Calls' = Calls
<1>1. TypeOK /\ stack[t] # <<>> /\ Top(t) \in Frame /\ Top(t).stage = stage
  BY AtStage
<1>2. PICK frame \in Frame : SetTop(t, frame)
  BY DEF TopChanges
<1>3. Visible(Top(t)) = "working"
  BY <1>1, VisibleTyped
<1> QED
  BY <1>1, <1>2, <1>3, TopSeen

LEMMA EntryReturnsSeen ==
  ASSUME EmbeddingInv, NEW t \in Thread, EntryReturns(t)
  PROVE  Contract!ContractNext \/ Calls' = Calls
<1> DEFINE frame == [Top(t) EXCEPT !.stage = "done", !.success = TRUE]
<1>1. At(t, "run") /\ SetTop(t, frame)
  BY DEF EntryReturns
<1>2. TypeOK /\ stack[t] # <<>> /\ Top(t) \in Frame /\ Top(t).stage = "run"
  BY <1>1, AtStage
<1>3. frame \in Frame /\ frame.stage = "done" /\ frame.success
  BY <1>2 DEF Frame, Stages
<1> HIDE DEF frame
<1>4. Visible(Top(t)) = "host" /\ Visible(frame) = "success"
  BY <1>2, <1>3, VisibleTyped
<1> QED
  BY <1>1, <1>2, <1>3, <1>4, TopSeen

LEMMA StepsSeen ==
  ASSUME EmbeddingInv, NEW t \in Thread, CompileStep(t) \/ JitStep(t) \/ ReportInSetup(t)
  PROVE  Contract!ContractNext \/ Calls' = Calls
<1>1. CASE OpenScope(t)
  BY <1>1, OpenScopeKeeps, InsideStep DEF OpenScope
<1>2. CASE FrontThrows(t) \/ Generate(t)
  BY <1>2, FrontKeeps, InsideStep DEF FrontThrows, Generate
<1>3. CASE Emission(t)
  BY <1>3, EmissionKeeps, InsideStep DEF Emission
<1>4. CASE CloseScope(t)
  BY <1>4, CloseScopeKeeps, InsideStep DEF CloseScope
<1>5. CASE BeginTargets(t) \/ FinishTargets(t)
  <2>1. stack' = stack
    BY <1>5 DEF BeginTargets, FinishTargets
  <2> QED
    BY <2>1, CallsKept
<1>6. CASE RefuseRequest(t) \/ AcceptRequest(t) \/ CheckEntry(t)
  <2>1. PICK stage \in {"request", "entry"} : At(t, stage)
    BY <1>6 DEF RefuseRequest, AcceptRequest, CheckEntry
  <2> QED
    BY <1>6, <2>1, RequestKeeps, InsideStep
<1>7. CASE EntryReturns(t)
  BY <1>7, EntryReturnsSeen
<1>8. CASE Lock(t) \/ FailSetup(t) \/ FinishSetup(t)
  <2>1. PICK stage \in {"lock", "setup"} : At(t, stage)
    BY <1>8 DEF Lock, FailSetup, FinishSetup
  <2> QED
    BY <1>8, <2>1, SetupKeeps, InsideStep
<1>9. CASE ReportInSetup(t)
  BY <1>9, ReportInSetupKeeps, InsideStep DEF ReportInSetup
<1> QED
  BY <1>1, <1>2, <1>3, <1>4, <1>5, <1>6, <1>7, <1>8, <1>9 DEF CompileStep, JitStep

\* However calls nest, fail and are unwound, a host sees each of them open once,
\* get one verdict, and close: the calls implement CallContract.
THEOREM CallsKeepContract == Spec => KeepsContract
<1>1. Init => Contract!ContractInit
  <2> SUFFICES ASSUME Init PROVE Contract!ContractInit
    OBVIOUS
  <2>1. ASSUME NEW t \in Thread PROVE Seen(stack[t]) = <<>>
    <3>1. stack[t] = <<>> /\ stack[t] \in Seq(Frame)
      BY EmptySeq DEF Init
    <3>2. Seen(stack[t]) \in Seq(Appearance) /\ Len(Seen(stack[t])) = 0
      BY <3>1, SeenTyped, EmptySeq
    <3> QED
      BY <3>2, EmptySeq
  <2>2. Calls = [t \in Thread |-> <<>>]
    BY <2>1 DEF Calls
  <2> QED
    BY <2>2 DEF Contract!ContractInit, Calls, Seen
<1>2. EmbeddingInv /\ [Next]_vars => Contract!ContractNext \/ Calls' = Calls
  <2> SUFFICES ASSUME EmbeddingInv, [Next]_vars PROVE Contract!ContractNext \/ Calls' = Calls
    OBVIOUS
  <2>1. CASE UNCHANGED vars
    <3>1. stack' = stack
      BY <2>1 DEF vars
    <3> QED
      BY <3>1 DEF Calls, Seen, Visible
  <2>2. ASSUME NEW t \in Thread, CallHost(t) PROVE Contract!ContractNext \/ Calls' = Calls
    BY <2>2, BeginOpens, RefuseArgumentsUnseen DEF CallHost
  <2>3. ASSUME NEW t \in Thread, Step(t) \/ ReportInSetup(t) \/ Unwind(t)
        PROVE  Contract!ContractNext \/ Calls' = Calls
    BY <2>3, StepsSeen, EndCloses DEF Step
  <2> QED
    BY <2>1, <2>2, <2>3 DEF Next
<1>3. EmbeddingInv /\ [Next]_vars
        => [Contract!ContractNext]_[t \in Thread |-> [i \in DOMAIN stack[t] |-> Visible(stack[t][i])]]
  BY <1>2 DEF Calls, Seen
<1> QED
  BY <1>1, <1>3, EmbeddingInvariant, PTL DEF Spec, KeepsContract, Contract!ContractSpec
=============================================================================
