------------------------- MODULE NativeStackProofs -------------------------
(***************************************************************************)
(* The two guards bound what Python and wasm take of the native stack,     *)
(* whatever the sizes: a port whose stack has room for that is safe.       *)
(***************************************************************************)
EXTENDS NativeStack, SequenceTheorems, TLAPS

USE FramesAssumption DEF LimitFrom, Need

Kinds == {"py", "args", "call", "wasm", "import"}

\* The topmost frame is a frame.
LEMMA TopFrame ==
    ASSUME StackTypeOK
    PROVE  /\ Len(frames) \in Nat \ {0} /\ Top = frames[Len(frames)]
           /\ \A k \in 1 .. Len(frames) : frames[k] \in Frame
           /\ Top \in Frame
  BY DEF StackTypeOK, Top

\* Every bound is a number.
LEMMA ReachNat == (\A kind \in Kinds : Reach[kind] \in Nat) /\ Reach.call \in Nat
  BY DEF Kinds, Reach

\* What the invariant says of the topmost frame.
LEMMA TopFacts ==
    ASSUME SIInv
    PROVE  /\ Top.kind \in Kinds /\ Top.top \in Nat /\ Top.entry \in Nat /\ limit \in Nat
           /\ Top.top <= Reach[Top.kind] /\ limit <= LimitFrom(Reach.call)
           /\ Top.entry <= Top.top /\ Top.entry <= Reach.call /\ LimitFrom(Top.entry) <= limit
  <1>1. StackTypeOK /\ Reached /\ Stacked
    BY DEF SIInv
  <1>2. PICK n \in 1 .. Len(frames) : Top = frames[n]
    BY <1>1, TopFrame
  <1>3. Top \in Frame
    BY <1>1, TopFrame
  <1>4. Top.top <= Reach[Top.kind] /\ limit <= LimitFrom(Reach.call)
    BY <1>1, <1>2 DEF Reached
  <1>5. Top.entry <= Top.top /\ Top.entry <= Reach.call /\ LimitFrom(Top.entry) <= limit
    BY <1>1, <1>2 DEF Stacked
  <1> QED
    BY <1>1, <1>3, <1>4, <1>5 DEF Frame, Kinds, StackTypeOK

\* How many frames there may be below a stack of this depth.
LEMMA TopDense ==
    ASSUME SIInv
    PROVE  /\ Len(frames) <= 2 * Top.top + Slack(Top.kind)
           /\ Slack(Top.kind) \in 1 .. 2 /\ Top.top \in Nat
  <1>1. StackTypeOK /\ Dense
    BY DEF SIInv
  <1>2. Len(frames) <= 2 * Top.top + Slack(Top.kind)
    BY <1>1, TopFrame DEF Dense
  <1>3. Slack(Top.kind) \in 1 .. 2
    BY DEF Slack
  <1> QED
    BY <1>2, <1>3, TopFacts

\* A frame that is pushed within the bound of its kind, in the call() that runs
\* or as a new one, keeps the invariant.
LEMMA PushKeeps ==
    ASSUME SIInv, NEW kind \in Kinds, NEW size \in Nat, NEW entry \in Nat,
           Push(kind, size, entry),
           Top.top + size <= Reach[kind],
           Top.entry <= entry, entry <= Top.top + size, entry <= Reach.call,
           limit' \in Nat, limit' <= LimitFrom(Reach.call),
           LimitFrom(entry) <= limit',
           Slack(Top.kind) + 1 <= 2 * size + Slack(kind)
    PROVE  SIInv'
  <1> DEFINE f == [kind |-> kind, top |-> Top.top + size, entry |-> entry]
  <1>1. StackTypeOK /\ Reached /\ Stacked /\ Dense
    BY DEF SIInv
  <1>2. Top \in Frame /\ f \in Frame /\ Len(frames) \in Nat \ {0}
    BY <1>1, TopFrame DEF Frame, Kinds
  <1>3. /\ frames' = Append(frames, f) /\ UNCHANGED runaway
    BY DEF Push
  <1>4. PICK n \in Nat \ {0} : n = Len(frames)
    BY <1>2
  <1>5. Len(frames') = n + 1 /\ frames'[n + 1] = f /\ \A k \in 1 .. n : frames'[k] = frames[k]
    BY <1>1, <1>2, <1>3, <1>4 DEF StackTypeOK
  <1>6. StackTypeOK'
    BY <1>1, <1>2, <1>3, <1>5 DEF StackTypeOK
  <1>7. Top' = f
    BY <1>4, <1>5 DEF Top
  <1>8. \A k \in 1 .. n + 1 : k \in 1 .. n \/ k = n + 1
    BY <1>4
  <1>9. ASSUME NEW k \in 1 .. n
        PROVE  /\ frames[k] \in Frame /\ frames[k].top <= Top.top /\ frames[k].entry <= Top.entry
               /\ frames[k].top <= Reach[frames[k].kind]
               /\ frames[k].entry <= frames[k].top /\ frames[k].entry <= Reach.call
    <2>1. n \in 1 .. n /\ k <= n /\ Top = frames[n]
      BY <1>1, <1>4, TopFrame
    <2> QED
      BY <1>1, <1>4, <2>1, TopFrame DEF Stacked, Reached
  <1>10. Reached'
    <2>1. \A k \in 1 .. n + 1 : frames'[k].top <= Reach[frames'[k].kind]
      <3> SUFFICES ASSUME NEW k \in 1 .. n + 1 PROVE frames'[k].top <= Reach[frames'[k].kind]
        OBVIOUS
      <3>1. CASE k \in 1 .. n
        BY <1>5, <1>9, <3>1
      <3>2. CASE k = n + 1
        BY <1>5, <3>2
      <3> QED
        BY <1>8, <3>1, <3>2
    <2> QED
      BY <1>5, <2>1 DEF Reached
  <1>11. Stacked'
    <2>1. ASSUME NEW j \in 1 .. n + 1, NEW k \in 1 .. n + 1, j <= k
          PROVE  frames'[j].top <= frames'[k].top /\ frames'[j].entry <= frames'[k].entry
      <3>1. CASE k \in 1 .. n
        <4>1. j \in 1 .. n
          BY <2>1, <3>1
        <4> QED
          BY <1>1, <1>4, <1>5, <2>1, <3>1, <4>1 DEF Stacked
      <3>2. CASE k = n + 1
        <4>1. frames'[k].top = Top.top + size /\ frames'[k].entry = entry
          BY <1>5, <3>2
        <4>2. CASE j \in 1 .. n
          <5>1. frames'[j] = frames[j] /\ frames[j] \in Frame
                /\ frames[j].top <= Top.top /\ frames[j].entry <= Top.entry
            BY <1>5, <1>9, <4>2
          <5>2. Top.top \in Nat /\ Top.entry \in Nat
            BY TopFacts
          <5> QED
            BY <4>1, <5>1, <5>2 DEF Frame
        <4>3. CASE j = n + 1
          BY <1>2, <3>2, <4>1, <4>3 DEF Frame
        <4> QED
          BY <1>8, <4>2, <4>3
      <3> QED
        BY <1>8, <3>1, <3>2
    <2>2. \A k \in 1 .. n + 1 : frames'[k].entry <= frames'[k].top /\ frames'[k].entry <= Reach.call
      <3> SUFFICES ASSUME NEW k \in 1 .. n + 1
                   PROVE  frames'[k].entry <= frames'[k].top /\ frames'[k].entry <= Reach.call
        OBVIOUS
      <3>1. CASE k \in 1 .. n
        BY <1>5, <1>9, <3>1
      <3>2. CASE k = n + 1
        BY <1>5, <3>2
      <3> QED
        BY <1>8, <3>1, <3>2
    <2> QED
      BY <1>5, <1>7, <2>1, <2>2 DEF Stacked
  <1>12. Dense'
    <2>1. n + 1 <= 2 * (Top.top + size) + Slack(kind)
      <3>1. /\ n <= 2 * Top.top + Slack(Top.kind) /\ Top.top \in Nat
            /\ Slack(Top.kind) \in Nat /\ Slack(kind) \in Nat
        <4>1. Slack(kind) \in Nat
          BY DEF Slack
        <4> QED
          BY <1>4, <4>1, TopDense
      <3> QED
        BY <3>1
    <2>2. \A k \in 1 .. n : k <= 2 * frames'[k].top + Slack(frames'[k].kind)
      BY <1>1, <1>4, <1>5 DEF Dense
    <2>3. n + 1 <= 2 * frames'[n + 1].top + Slack(frames'[n + 1].kind)
      BY <1>5, <2>1
    <2> QED
      BY <1>5, <1>8, <2>2, <2>3 DEF Dense
  <1> QED
    BY <1>6, <1>10, <1>11, <1>12 DEF SIInv

\* So does going back to any frame, whichever limit is in force afterwards.
LEMMA BackKeeps == ASSUME SIInv, NEW k \in 1 .. Len(frames), BackTo(k) PROVE SIInv'
  <1>1. StackTypeOK /\ Reached /\ Stacked /\ Dense
    BY DEF SIInv
  <1>2. PICK n \in Nat \ {0} : n = Len(frames)
    BY <1>1, TopFrame
  <1>3. frames' = SubSeq(frames, 1, k) /\ limit' \in {limit, LimitFrom(frames[k].entry)}
        /\ UNCHANGED runaway
    BY DEF BackTo
  <1>4. k \in Nat \ {0} /\ k <= n /\ \A j \in 1 .. n : frames[j] \in Frame
    BY <1>1, <1>2, TopFrame
  <1>5. Len(frames') = k /\ frames' \in Seq(Frame) /\ \A j \in 1 .. k : frames'[j] = frames[j]
    BY <1>1, <1>2, <1>3, <1>4 DEF StackTypeOK
  <1>6. Top' = frames[k] /\ frames[k] \in Frame /\ Top = frames[n]
    BY <1>2, <1>4, <1>5 DEF Top
  <1>7. /\ frames[k].entry <= Top.entry /\ frames[k].entry <= Reach.call
        /\ frames[k].entry \in Nat /\ Top.entry \in Nat
    BY <1>1, <1>2, <1>4, <1>6 DEF Stacked, Frame
  <1>8. /\ limit' \in Nat /\ LimitFrom(frames[k].entry) <= limit'
        /\ limit' <= LimitFrom(Reach.call)
    <2>1. PICK e \in Nat, t \in Nat : e = frames[k].entry /\ t = Top.entry
      BY <1>7
    <2>2. e <= t /\ LimitFrom(t) <= limit /\ limit \in Nat
          /\ limit <= LimitFrom(Reach.call) /\ e <= Reach.call /\ Reach.call \in Nat
      BY <1>7, <2>1, TopFacts, ReachNat
    <2>3. LimitFrom(e) \in Nat /\ LimitFrom(e) <= limit /\ LimitFrom(e) <= LimitFrom(Reach.call)
      BY <2>2
    <2>4. CASE limit' = limit
      BY <2>1, <2>2, <2>3, <2>4
    <2>5. CASE limit' = LimitFrom(e)
      BY <2>1, <2>3, <2>5
    <2> QED
      BY <1>3, <2>1, <2>4, <2>5
  <1>9. StackTypeOK'
    BY <1>1, <1>3, <1>4, <1>5, <1>8 DEF StackTypeOK
  <1>10. \A j \in 1 .. k : j \in 1 .. n
    BY <1>4
  <1>11. Reached'
    <2>1. \A j \in 1 .. k : frames'[j].top <= Reach[frames'[j].kind]
      BY <1>1, <1>2, <1>5, <1>10 DEF Reached
    <2> QED
      BY <1>5, <1>8, <2>1 DEF Reached
  <1>12. Stacked'
    <2>1. \A i, j \in 1 .. k :
              i <= j => frames'[i].top <= frames'[j].top /\ frames'[i].entry <= frames'[j].entry
      BY <1>1, <1>2, <1>5, <1>10 DEF Stacked
    <2>2. \A j \in 1 .. k : frames'[j].entry <= frames'[j].top /\ frames'[j].entry <= Reach.call
      BY <1>1, <1>2, <1>5, <1>10 DEF Stacked
    <2>3. LimitFrom(Top'.entry) <= limit'
      BY <1>6, <1>8
    <2> QED
      BY <1>5, <2>1, <2>2, <2>3 DEF Stacked, LimitFrom
  <1>13. Dense'
    BY <1>1, <1>2, <1>5, <1>10 DEF Dense
  <1> QED
    BY <1>9, <1>11, <1>12, <1>13 DEF SIInv

\* An exception goes back to a frame of the stack.
LEMMA UnwindKeeps == ASSUME SIInv, Unwind PROVE SIInv'
  BY BackKeeps DEF Unwind, Handlers

\* Python code starts within its limit.
LEMMA EnterPythonKeeps == ASSUME SIInv, EnterPython PROVE SIInv'
  <1>1. PICK size \in 1 .. PY_FRAME : Push("py", size, Top.entry)
    BY DEF EnterPython
  <1>2. Top.top <= PY_LIMIT /\ limit' = limit
    BY TopFacts DEF EnterPython, TooDeep
  <1>3. Top.top + size <= Reach.py /\ Top.entry <= Top.top + size
    BY <1>2, TopFacts DEF Reach
  <1>4. Slack(Top.kind) + 1 <= 2 * size + Slack("py")
    BY DEF Slack
  <1> QED
    BY <1>1, <1>2, <1>3, <1>4, TopFacts, PushKeeps DEF Kinds

\* call() is entered from Python only, so not deeper than Python gets.
LEMMA CallWasmKeeps == ASSUME SIInv, CallWasm PROVE SIInv'
  <1>1. Top.top + CALL_FRAME <= Reach["args"] /\ Top.entry <= Top.top + CALL_FRAME
    BY TopFacts DEF CallWasm, Reach
  <1>2. Push("args", CALL_FRAME, Top.entry) /\ limit' = limit
    BY DEF CallWasm
  <1>3. Slack(Top.kind) + 1 <= 2 * CALL_FRAME + Slack("args")
    BY DEF CallWasm, Slack
  <1> QED
    BY <1>1, <1>2, <1>3, TopFacts, PushKeeps DEF Kinds

\* m3_Call sets a new limit, and its frame stays where it is.
LEMMA StartWasmKeeps == ASSUME SIInv, StartWasm PROVE SIInv'
  <1> DEFINE f == [kind |-> "call", top |-> Top.top, entry |-> Top.top]
  <1>1. StackTypeOK /\ Reached /\ Stacked /\ Dense
    BY DEF SIInv
  <1>2. PICK n \in Nat \ {0} : n = Len(frames) /\ Top = frames[n]
    BY <1>1, TopFrame
  <1>3. /\ Top \in Frame /\ f \in Frame /\ Top.kind = "args" /\ Top.top \in Nat
        /\ Top.entry \in Nat /\ Top.entry <= Top.top /\ Top.top <= Reach.call
        /\ \A k \in 1 .. n : frames[k] \in Frame
    BY <1>1, <1>2, TopFrame, TopFacts DEF StartWasm, Frame, Reach
  <1>4. frames' = [frames EXCEPT ![n] = f] /\ limit' = LimitFrom(Top.top) /\ UNCHANGED runaway
    BY <1>2 DEF StartWasm
  <1>5. /\ frames' \in Seq(Frame) /\ Len(frames') = n /\ frames'[n] = f
        /\ \A k \in 1 .. n : k # n => frames'[k] = frames[k]
    BY <1>1, <1>2, <1>3, <1>4, ExceptSeq DEF StackTypeOK
  <1>6. Top' = f
    BY <1>5 DEF Top
  <1>7. StackTypeOK'
    BY <1>1, <1>3, <1>4, <1>5 DEF StackTypeOK
  <1>8. Reached'
    <2>1. limit' <= LimitFrom(Reach.call)
      BY <1>3, <1>4, ReachNat
    <2>2. \A k \in 1 .. n : frames'[k].top <= Reach[frames'[k].kind]
      BY <1>1, <1>2, <1>3, <1>5 DEF Reached
    <2> QED
      BY <1>5, <2>1, <2>2 DEF Reached
  <1>9. Stacked'
    <2>1. ASSUME NEW k \in 1 .. n
          PROVE  frames[k].top <= Top.top /\ frames[k].entry <= Top.top
                 /\ frames[k].top \in Nat /\ frames[k].entry \in Nat
      <3>1. frames[k].top <= Top.top /\ frames[k].entry <= frames[k].top
        BY <1>1, <1>2 DEF Stacked
      <3>2. frames[k].top \in Nat /\ frames[k].entry \in Nat
        BY <1>3 DEF Frame
      <3> QED
        BY <1>3, <3>1, <3>2
    <2>2. ASSUME NEW j \in 1 .. n, NEW k \in 1 .. n, j <= k
          PROVE  frames'[j].top <= frames'[k].top /\ frames'[j].entry <= frames'[k].entry
      <3>1. CASE k = n
        BY <1>3, <1>5, <2>1, <3>1
      <3>2. CASE k # n
        <4>1. j # n
          BY <2>2, <3>2
        <4> QED
          BY <1>1, <1>2, <1>5, <2>2, <3>2, <4>1 DEF Stacked
      <3> QED
        BY <3>1, <3>2
    <2>3. \A k \in 1 .. n : frames'[k].entry <= frames'[k].top /\ frames'[k].entry <= Reach.call
      BY <1>1, <1>2, <1>3, <1>5 DEF Stacked
    <2>4. LimitFrom(Top'.entry) <= limit'
      BY <1>3, <1>4, <1>6
    <2> QED
      BY <1>5, <2>2, <2>3, <2>4 DEF Stacked
  <1>10. Dense'
    BY <1>1, <1>2, <1>3, <1>5 DEF Dense, Slack
  <1> QED
    BY <1>7, <1>8, <1>9, <1>10 DEF SIInv

\* wasm is entered below the limit only.
LEMMA EnterWasmKeeps == ASSUME SIInv, EnterWasm PROVE SIInv'
  <1>1. PICK size \in 1 .. WASM_FRAME : Push("wasm", size, Top.entry)
    BY DEF EnterWasm
  <1>2. Top.top <= limit /\ limit' = limit
    BY TopFacts DEF EnterWasm, Spent
  <1>3. Top.top + size <= Reach.wasm /\ Top.entry <= Top.top + size
    BY <1>2, TopFacts DEF Reach
  <1>4. Slack(Top.kind) + 1 <= 2 * size + Slack("wasm")
    BY DEF Slack
  <1> QED
    BY <1>1, <1>2, <1>3, <1>4, TopFacts, PushKeeps DEF Kinds

\* The trampoline is entered from wasm only.
LEMMA CallImportKeeps == ASSUME SIInv, CallImport PROVE SIInv'
  <1>1. Push("import", IMPORT_FRAME, Top.entry) /\ limit' = limit /\ Top.kind = "wasm"
    BY DEF CallImport
  <1>2. Top.top + IMPORT_FRAME <= Reach.import /\ Top.entry <= Top.top + IMPORT_FRAME
    BY <1>1, TopFacts DEF Reach
  <1>3. Slack(Top.kind) + 1 <= 2 * IMPORT_FRAME + Slack("import")
    BY <1>1 DEF Slack
  <1> QED
    BY <1>1, <1>2, <1>3, TopFacts, PushKeeps DEF Kinds

\* The invariant holds of the empty stack.
LEMMA InitSIInv == Init => SIInv
  <1> SUFFICES ASSUME Init PROVE SIInv
    OBVIOUS
  <1>1. frames \in Seq(Frame) /\ Len(frames) = 1
        /\ frames[1] = [kind |-> "py", top |-> 0, entry |-> 0] /\ limit = BUDGET
    BY DEF Init, Frame, LimitFrom
  <1>2. StackTypeOK
    BY <1>1 DEF Init, StackTypeOK
  <1>3. Reached
    BY <1>1 DEF Reached, Reach
  <1>4. Stacked
    BY <1>1 DEF Stacked, Reach, Top, LimitFrom
  <1>5. Dense
    BY <1>1 DEF Dense, Slack
  <1> QED
    BY <1>2, <1>3, <1>4, <1>5 DEF SIInv

\* The invariant is inductive.
LEMMA NextSIInv == SIInv /\ [Next]_vars => SIInv'
  <1> SUFFICES ASSUME SIInv, [Next]_vars PROVE SIInv'
    OBVIOUS
  <1>1. CASE EnterPython \/ CallWasm \/ StartWasm \/ EnterWasm \/ CallImport
    BY <1>1, EnterPythonKeeps, CallWasmKeeps, StartWasmKeeps, EnterWasmKeeps, CallImportKeeps
  <1>2. CASE PythonRefused \/ Trap \/ Throw
    BY <1>2, UnwindKeeps DEF PythonRefused, Trap, Throw
  <1>3. CASE Return
    <2>1. Len(frames) - 1 \in 1 .. Len(frames)
      BY <1>3, TopFrame DEF Return, SIInv
    <2> QED
      BY <1>3, <2>1, BackKeeps DEF Return
  <1>4. CASE UNCHANGED vars
    BY <1>4 DEF vars, SIInv, StackTypeOK, Reached, Stacked, Dense, Top
  <1> QED
    BY <1>1, <1>2, <1>3, <1>4 DEF Next, Run

\* The inductive invariant holds of every reachable state.
THEOREM StackInvariance == Spec => []SIInv
  BY InitSIInv, NextSIInv, PTL DEF Spec

\* Every frame is a frame.
THEOREM StackTypeCorrect == Spec => []StackTypeOK
  BY StackInvariance, PTL DEF SIInv

\* Python and wasm never take more of the native stack than Need, whatever the
\* sizes of frames, budget and stack.
THEOREM DepthBoundedAlways == Spec => []DepthBounded
  <1>1. ASSUME SIInv PROVE DepthBounded
    <2>1. PICK kind \in Kinds : Top.top <= Reach[kind] /\ Top.top \in Nat
      BY <1>1, TopFacts
    <2>2. Reach[kind] <= Need
      BY DEF Kinds, Reach
    <2> QED
      BY <2>1, <2>2, ReachNat DEF DepthBounded
  <1> QED
    BY <1>1, StackInvariance, PTL

\* So a stack that has room for Need never overflows.
THEOREM StackBoundedAlways == ASSUME Need <= STACK PROVE Spec => []StackBounded
  <1>1. ASSUME StackTypeOK, DepthBounded PROVE StackBounded
    <2>1. Top.top \in Nat
      BY <1>1, TopFrame DEF Frame
    <2> QED
      BY <1>1, <2>1 DEF DepthBounded, StackBounded
  <1> QED
    BY <1>1, StackTypeCorrect, DepthBoundedAlways, PTL

\* wasm traps only after it used up a whole budget since the call() it is in.
THEOREM FullBudgetAlways == Spec => []FullBudget
  <1>1. ASSUME SIInv PROVE FullBudget
    BY <1>1, TopFacts DEF FullBudget, Spent
  <1> QED
    BY <1>1, StackInvariance, PTL

\* At most 2 * Need + 2 frames are on the stack, whichever way Python and wasm
\* call each other.
THEOREM FramesBoundedAlways == Spec => []FramesBounded
  <1>1. ASSUME SIInv, DepthBounded PROVE FramesBounded
    <2>1. Len(frames) <= 2 * Top.top + 2 /\ Top.top \in Nat
      BY <1>1, TopDense
    <2>2. Len(frames) \in Nat
      BY <1>1, TopFrame DEF SIInv
    <2> QED
      BY <1>1, <2>1, <2>2 DEF FramesBounded, DepthBounded
  <1> QED
    BY <1>1, StackInvariance, DepthBoundedAlways, PTL

=============================================================================
