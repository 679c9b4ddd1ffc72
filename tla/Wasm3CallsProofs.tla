--------------------------- MODULE Wasm3CallsProofs ---------------------------
(***************************************************************************)
(* The safety of nested calls, for any depth, any number of slots and any  *)
(* limit on memory, in both builds and for every program: one that unloads *)
(* a module while a call of it is in flight, too.  It rests on the         *)
(* invariant of the slot table.                                            *)
(***************************************************************************)
EXTENDS Wasm3Calls, Wasm3SlotsProofs, SequenceTheorems

(* The stack of calls.                                                      *)

\* A sequence without its last element.
LEMMA Front ==
    ASSUME NEW S, NEW f \in Seq(S), NEW m \in Nat, Len(f) = m + 1
    PROVE  /\ SubSeq(f, 1, m) \in Seq(S)
           /\ Len(SubSeq(f, 1, m)) = m
           /\ \A n \in 1 .. m : SubSeq(f, 1, m)[n] = f[n]
  <1>1. \A n \in 1 .. m : f[n] \in S
    OBVIOUS
  <1>2. /\ SubSeq(f, 1, m) \in Seq(S)
        /\ Len(SubSeq(f, 1, m)) = IF 1 <= m THEN m - 1 + 1 ELSE 0
        /\ \A n \in 1 .. m - 1 + 1 : SubSeq(f, 1, m)[n] = f[1 + n - 1]
    BY <1>1, SubSeqProperties
  <1> QED
    BY <1>2

\* Popping the innermost call leaves the others as they were.
LEMMA Pop ==
    ASSUME frames \in Seq(Frame), frames # <<>>
    PROVE  /\ Outer \in Seq(Frame)
           /\ Len(frames) \in Nat \ {0} /\ Len(Outer) = Len(frames) - 1
           /\ \A n \in 1 .. Len(Outer) : Outer[n] = frames[n]
           /\ Top \in Frame
  <1>1. Len(frames) \in Nat \ {0} /\ \A n \in 1 .. Len(frames) : frames[n] \in Frame
    OBVIOUS
  <1>2. PICK m \in Nat : m = Len(frames) - 1
    BY <1>1
  <1>3. Outer = SubSeq(frames, 1, m) /\ Len(frames) = m + 1
    BY <1>1, <1>2 DEF Outer
  <1>4. /\ Outer \in Seq(Frame)
        /\ Len(Outer) = m
        /\ \A n \in 1 .. m : Outer[n] = frames[n]
    BY <1>3, Front
  <1> QED
    BY <1>1, <1>2, <1>4 DEF Top

\* The stack of calls is well typed and within its bound.
StackOK == frames \in Seq(Frame) /\ Len(frames) <= MAX_DEPTH

\* A frame may stay on the stack: its callable is alive, and if its wasm code
\* runs, it is the innermost one, in a live module.
Sound(f, n, m) ==
    /\ f.at = "wasm" => pc = "idle" /\ n = m /\ FrameLive(f)
    /\ NATMOD => f.callable \in callables \cup {NULL}

\* The part of the invariant that is about the stack of calls.
StackSound == StackOK /\ WasmLive /\ CalleeAlive

LEMMA SoundFrames ==
    StackSound <=> /\ StackOK
                   /\ \A n \in 1 .. Len(frames) : Sound(frames[n], n, Len(frames))
  BY DEF StackSound, WasmLive, CalleeAlive, Sound

\* When wasm code does not run, no frame is at wasm code.
LEMMA NoneAtWasm ==
    ASSUME CallsIInv, PythonRuns
    PROVE  \A n \in 1 .. Len(frames) : frames[n].at # "wasm"
  BY DEF CallsIInv, WasmLive, PythonRuns, WasmRuns, At, Top, CallsTypeOK

\* The stack stays sound when the innermost frame goes or is replaced, or when
\* Python code pushes one, in an unchanged slot table.
LEMMA FramesChange ==
    ASSUME CallsIInv, UNCHANGED vars,
           \/ frames' = Outer /\ frames # <<>>
           \/ \E f \in Frame :
                  /\ f.at = "wasm" => pc = "idle" /\ FrameLive(f)
                  /\ NATMOD => f.callable \in callables \cup {NULL}
                  /\ \/ frames' = Append(Outer, f) /\ frames # <<>>
                     \/ frames' = Append(frames, f) /\ Len(frames) < MAX_DEPTH /\ PythonRuns
    PROVE  StackSound'
  <1> USE CallsAssumption DEF vars, bss, heap, python, control, StackOK
  <1> DEFINE Quiet(f) == f.at # "wasm" /\ (NATMOD => f.callable \in callables \cup {NULL})
  <1>1. /\ frames \in Seq(Frame) /\ Len(frames) <= MAX_DEPTH /\ Len(frames) \in Nat
        /\ \A n \in 1 .. Len(frames) : Sound(frames[n], n, Len(frames))
    BY DEF CallsIInv, CallsTypeOK, WasmLive, CalleeAlive, Sound
  <1>2. \A n \in 1 .. Len(frames) : n < Len(frames) => Quiet(frames[n])
    BY <1>1 DEF Sound
  <1>3. \A f, n, m : Quiet(f) => Sound(f, n, m)
    BY DEF Sound
  <1>4. StackOK' /\ \A n \in 1 .. Len(frames') : Sound(frames'[n], n, Len(frames'))
    <2> HIDE DEF Quiet
    <2>1. CASE frames' = Outer /\ frames # <<>>
      <3>1. /\ Outer \in Seq(Frame) /\ Len(Outer) = Len(frames) - 1
            /\ \A n \in 1 .. Len(Outer) : Outer[n] = frames[n]
        BY <1>1, <2>1, Pop
      <3>2. \A n \in 1 .. Len(Outer) : Quiet(frames'[n])
        BY <1>1, <1>2, <2>1, <3>1
      <3> QED
        BY <1>1, <1>3, <2>1, <3>1, <3>2
    <2>2. ASSUME NEW f \in Frame, Sound(f, Len(frames), Len(frames)), frames # <<>>,
                 frames' = Append(Outer, f)
          PROVE  StackOK' /\ \A n \in 1 .. Len(frames') : Sound(frames'[n], n, Len(frames'))
      <3>1. /\ Outer \in Seq(Frame) /\ Len(Outer) = Len(frames) - 1
            /\ \A n \in 1 .. Len(Outer) : Outer[n] = frames[n]
        BY <1>1, <2>2, Pop
      <3>2. /\ frames' \in Seq(Frame) /\ Len(frames') = Len(Outer) + 1
            /\ \A n \in 1 .. Len(Outer) : frames'[n] = Outer[n]
            /\ frames'[Len(Outer) + 1] = f
        BY <2>2, <3>1, AppendProperties
      <3>3. Len(frames') = Len(frames) /\ frames'[Len(frames)] = f
        BY <1>1, <3>1, <3>2
      <3>4. \A n \in 1 .. Len(Outer) : Quiet(frames'[n])
        BY <1>1, <1>2, <3>1, <3>2
      <3>5. \A n \in 1 .. Len(frames') : n \in 1 .. Len(Outer) \/ n = Len(frames)
        BY <1>1, <3>1, <3>3
      <3>6. \A n \in 1 .. Len(frames') : Sound(frames'[n], n, Len(frames'))
        BY <1>3, <2>2, <3>3, <3>4, <3>5
      <3> QED
        BY <1>1, <3>2, <3>3, <3>6
    <2>3. ASSUME NEW f \in Frame, Sound(f, Len(frames) + 1, Len(frames) + 1), PythonRuns,
                 Len(frames) < MAX_DEPTH, frames' = Append(frames, f)
          PROVE  StackOK' /\ \A n \in 1 .. Len(frames') : Sound(frames'[n], n, Len(frames'))
      <3>1. /\ frames' \in Seq(Frame) /\ Len(frames') = Len(frames) + 1
            /\ \A n \in 1 .. Len(frames) : frames'[n] = frames[n]
            /\ frames'[Len(frames) + 1] = f
        BY <1>1, <2>3, AppendProperties
      <3>2. \A n \in 1 .. Len(frames) : Quiet(frames'[n])
        BY <1>1, <2>3, <3>1, NoneAtWasm DEF Sound, Quiet
      <3>3. \A n \in 1 .. Len(frames') : n \in 1 .. Len(frames) \/ n = Len(frames) + 1
        BY <1>1, <3>1
      <3>4. \A n \in 1 .. Len(frames') : Sound(frames'[n], n, Len(frames'))
        BY <1>3, <2>3, <3>1, <3>2, <3>3
      <3> QED
        BY <1>1, <2>3, <3>1, <3>4
    <2>4. ASSUME NEW f \in Frame, f.at = "wasm" => pc = "idle" /\ FrameLive(f),
                 NATMOD => f.callable \in callables \cup {NULL},
                 \/ frames' = Append(Outer, f) /\ frames # <<>>
                 \/ frames' = Append(frames, f) /\ Len(frames) < MAX_DEPTH /\ PythonRuns
          PROVE  StackOK' /\ \A n \in 1 .. Len(frames') : Sound(frames'[n], n, Len(frames'))
      <3>1. \A n : Sound(f, n, n)
        BY <2>4 DEF Sound
      <3> QED
        BY <2>2, <2>3, <2>4, <3>1
    <2> QED
      BY <2>1, <2>4
  <1>5. \A n \in 1 .. Len(frames') : frames'[n].at = "wasm" =>
            /\ pc' = "idle" /\ n = Len(frames')
            /\ frames'[n].fn.module \in runtimes' \cap modules'
            /\ in_use'[frames'[n].slot]
            /\ runtime'[frames'[n].slot] = frames'[n].fn.module
    BY <1>4 DEF Sound, FrameLive
  <1>6. NATMOD =>
            \A n \in 1 .. Len(frames') : frames'[n].callable \in callables' \cup {NULL}
    BY <1>4 DEF Sound
  <1> QED
    BY <1>4, <1>5, <1>6 DEF StackSound, WasmLive, CalleeAlive, FrameLive

-----------------------------------------------------------------------------
(* The slot table under the calls.                                          *)

\* A collection in the middle of a call keeps the types of the table.
LEMMA CollectTypeOK == ASSUME TypeOK, NEW stack, CollectKeeping(stack) PROVE TypeOK'
  BY DEF CollectKeeping, TypeOK, bss, control

\* The invariant of the slot table holds through calls and callbacks as well.
LEMMA CallsNextIInv == ASSUME IInv, [CallsNext]_allVars PROVE IInv'
  <1>1. CASE SlotStep
    BY <1>1, NextIInv DEF SlotStep, Next, SlotOp
  <1>2. CASE CollectInCall
    BY <1>2, CollectTypeOK, CollectIInv DEF CollectInCall, IInv
  <1>3. CASE ResetAll
    BY <1>3, NextIInv DEF ResetAll, Next
  <1>4. CASE UNCHANGED vars
    BY <1>4, NextIInv
  <1> QED
    BY <1>1, <1>2, <1>3, <1>4 DEF CallsNext, allVars, Memory, Call, CallImport, EnterWasm, ArgsRaise,
       CallEnds, HostReturn, HostRaise, AbortCall, Grow

\* No operation but unload() takes a slot in use, or a callable, away: what
\* load() and its failure exits change is the slot they fill.
LEMMA HandlesStay ==
    ASSUME IInv, NEW s \in Slots, in_use[s],
           \/ Load
           \/ \E t \in Slots, name \in Names : Find(t, name)
           \/ \E t \in Slots, i \in Imports, c \in Callables : Link(t, i, c)
           \/ \E c \in Callables : Define(c) \/ Drop(c)
    PROVE  in_use'[s] /\ runtime'[s] = runtime[s] /\ callables \subseteq callables'
  <1> USE DEF python
  <1>1. CASE LoadModule \/ NewRuntime \/ NewRuntimeFails
    BY <1>1, LoadFacts DEF LoadModule, NewRuntime, NewRuntimeFails, IInv, TypeOK
  <1>2. CASE ParseModuleFails \/ LoadModuleFails
    BY <1>2, LoadFacts DEF ParseModuleFails, LoadModuleFails, LoadFailed, ClearPointers, IInv, TypeOK
  <1>3. CASE \/ LoadRefused \/ ParseModule \/ Abort
             \/ \E t \in Slots : CopyBlob(t)
             \/ \E c \in Callables : Define(c) \/ Drop(c)
             \/ \E t \in Slots, name \in Names : Find(t, name)
             \/ \E t \in Slots, i \in Imports, c \in Callables : Link(t, i, c)
    BY <1>3 DEF LoadRefused, ParseModule, Abort, CopyBlob, Define, Drop, Find, Link, bss
  <1> QED
    BY <1>1, <1>2, <1>3 DEF Load, LoadRaises

\* A frame stays live as long as its slot stays in use.
LEMMA FrameStays ==
    ASSUME IInv, IInv', NEW f \in Frame, FrameLive(f),
           in_use'[f.slot], runtime'[f.slot] = runtime[f.slot]
    PROVE  FrameLive(f)'
  <1>1. f.slot \in Slots
    BY DEF Frame
  <1>2. f.slot \in InUse' /\ runtime'[f.slot] # NULL
    BY <1>1, SizesAssumption DEF InUse, IInv, TypeOK, Coherent, NULL, Loads
  <1>3. module'[f.slot] = runtime'[f.slot]
    BY <1>2 DEF IInv, Coherent
  <1>4. runtime'[f.slot] \in runtimes' \cap modules'
    BY <1>1, <1>2, <1>3 DEF IInv, NoDangling
  <1> QED
    BY <1>4 DEF FrameLive

\* unload() takes away the objects of one slot, and no callable.
LEMMA UnloadOthers ==
    ASSUME IInv, NEW s \in Slots, NEW t \in Slots, t # s, Unload(t)
    PROVE  in_use'[s] = in_use[s] /\ runtime'[s] = runtime[s]
  BY DEF Unload, ClearPointers, IInv, TypeOK

\* No step of the table takes a callable away.
LEMMA SlotStepCallables == ASSUME IInv, SlotStep PROVE callables \subseteq callables'
  BY DEF SlotStep, Load, LoadRaises, LoadRefused, CopyBlob, NewRuntime, NewRuntimeFails, ParseModule,
     ParseModuleFails, LoadModuleFails, LoadFailed, LoadModule, Abort, Unload, Find, Link, Define, Drop,
     python

\* A step of the table leaves the stack of calls alone; Python takes it, so no
\* wasm code runs.
LEMMA SlotStepFrames ==
    ASSUME CallsIInv, SlotStep
    PROVE  StackSound'
  <1>1. frames' = frames /\ StackOK /\ PythonRuns
    BY DEF SlotStep, callVars, CallsIInv, CallsTypeOK, StackOK
  <1>2. \A n \in 1 .. Len(frames) : frames[n].at # "wasm"
    BY <1>1, NoneAtWasm
  <1>3. \A n \in 1 .. Len(frames) : NATMOD => frames[n].callable \in callables' \cup {NULL}
    BY SlotStepCallables DEF CallsIInv, CalleeAlive
  <1> QED
    BY <1>1, <1>2, <1>3 DEF StackSound, StackOK, WasmLive, CalleeAlive

\* A collection in the middle of calls keeps their modules and callables.
LEMMA CollectFrames ==
    ASSUME CallsIInv, IInv', CollectInCall
    PROVE  /\ StackSound'
           /\ \A f \in Frame : FrameLive(f) => FrameLive(f)'
  <1>1. frames' = frames /\ StackOK /\ UNCHANGED <<in_use, runtime, pc>>
    BY DEF CollectInCall, CollectKeeping, callVars, CallsIInv, CallsTypeOK, StackOK, bss, control
  <1>2. ASSUME NEW f \in Frame, FrameLive(f) PROVE FrameLive(f)'
    BY <1>1, <1>2, FrameStays DEF CallsIInv, FrameLive
  <1>3. \A n \in 1 .. Len(frames) : frames[n] \in Frame
    BY <1>1 DEF StackOK
  <1>4. WasmLive'
    BY <1>1, <1>2, <1>3 DEF WasmLive, CallsIInv
  <1>5. CalleeAlive'
    BY <1>1 DEF CollectInCall, CollectKeeping, Running, CallsIInv, CalleeAlive
  <1> QED
    BY <1>1, <1>2, <1>4, <1>5 DEF StackSound, StackOK

\* A call starts in the table as it is: the function it read is code of the
\* module of its slot.
LEMMA CallFrames ==
    ASSUME CallsIInv, NEW s \in Slots, NEW k \in FnSlots, Call(s, k)
    PROVE  /\ StackSound'
           /\ \E f \in Frame : FrameLive(f) /\ frames' = Append(frames, f) /\ UNCHANGED vars
  <1> DEFINE f == [slot |-> s, fn |-> fns[s][k], at |-> "args", callable |-> NULL]
  <1>1. in_use[s] /\ k < n_fns[s] /\ fns[s][k] \in Function
    BY DEF Call, HandleOK, GoodIndex, CallsIInv, IInv, TypeOK
  <1>2. s \in InUse /\ runtime[s] \in Loads /\ fns[s][k].module = runtime[s]
    BY <1>1 DEF InUse, CallsIInv, IInv, TypeOK, Coherent
  <1>3. f \in Frame
    BY <1>1, <1>2 DEF Frame, Function
  <1>4. FrameLive(f)
    <2>1. runtime[s] # NULL
      BY <1>2, SizesAssumption DEF NULL, Loads
    <2>2. runtime[s] \in runtimes /\ fns[s][k].module \in modules
      BY <1>1, <1>2, <2>1 DEF CallsIInv, IInv, NoDangling
    <2>3. f.fn = fns[s][k] /\ f.slot = s
      OBVIOUS
    <2> QED
      BY <1>1, <1>2, <2>2, <2>3 DEF FrameLive
  <1>5. /\ frames' = Append(frames, f) /\ Len(frames) < MAX_DEPTH /\ UNCHANGED vars
        /\ PythonRuns /\ f.callable = NULL /\ f.at = "args"
    BY DEF Call
  <1> HIDE DEF f
  <1>6. StackSound'
    BY <1>3, <1>5, FramesChange
  <1> QED
    BY <1>3, <1>4, <1>5, <1>6

\* The innermost call comes to its wasm code, to a host import, or back from
\* one: its module is live, and so is the callable it then runs.
LEMMA TopFrames ==
    ASSUME CallsIInv, EnterWasm \/ HostReturn \/ \E i \in Imports : CallImport(i)
    PROVE  /\ StackSound'
           /\ \E f \in Frame : /\ FrameLive(f) /\ frames' = Append(Outer, f)
                               /\ frames # <<>> /\ UNCHANGED vars
  <1>1. frames # <<>> /\ UNCHANGED vars /\ pc = "idle"
    BY DEF EnterWasm, HostReturn, CallImport, At, WasmRuns
  <1>2. Len(frames) \in 1 .. Len(frames) /\ Top \in Frame /\ Top = frames[Len(frames)]
    BY <1>1, Pop DEF CallsIInv, CallsTypeOK, Top
  <1>3. FrameLive(Top) /\ (NATMOD => Top.callable \in callables \cup {NULL})
    <2>1. CASE EnterWasm \/ HostReturn
      BY <1>2, <2>1 DEF EnterWasm, HostReturn, CallsIInv, CalleeAlive
    <2>2. CASE \E i \in Imports : CallImport(i)
      BY <1>2, <2>2 DEF CallImport, WasmRuns, At, CallsIInv, CalleeAlive, WasmLive
    <2> QED
      BY <2>1, <2>2
  <1>4. CASE EnterWasm
    <2>1. [Top EXCEPT !.at = "wasm"] \in Frame /\ FrameLive([Top EXCEPT !.at = "wasm"])
          /\ [Top EXCEPT !.at = "wasm"].callable = Top.callable
      BY <1>2, <1>3 DEF Frame, FrameLive
    <2>2. frames' = Append(Outer, [Top EXCEPT !.at = "wasm"])
      BY <1>4 DEF EnterWasm
    <2> QED
      BY <1>1, <1>3, <2>1, <2>2, FramesChange
  <1>5. CASE HostReturn
    <2>1. [Top EXCEPT !.at = "wasm", !.callable = NULL] \in Frame
          /\ FrameLive([Top EXCEPT !.at = "wasm", !.callable = NULL])
          /\ [Top EXCEPT !.at = "wasm", !.callable = NULL].callable = NULL
      BY <1>2, <1>3 DEF Frame, FrameLive
    <2>2. frames' = Append(Outer, [Top EXCEPT !.at = "wasm", !.callable = NULL])
      BY <1>5 DEF HostReturn
    <2> QED
      BY <1>1, <2>1, <2>2, FramesChange
  <1>6. ASSUME NEW i \in Imports, CallImport(i)
        PROVE  /\ StackSound'
               /\ \E f \in Frame : FrameLive(f) /\ frames' = Append(Outer, f)
    <2> DEFINE c == wired[Top.fn.module][i]
    <2> DEFINE f == [Top EXCEPT !.at = "host", !.callable = c]
    <2>1. c # NULL /\ frames' = Append(Outer, f)
      BY <1>6 DEF CallImport
    <2>2. Top.slot \in InUse /\ module[Top.slot] = Top.fn.module /\ Top.fn.module \in Loads
      BY <1>2, <1>3 DEF Frame, FrameLive, InUse, CallsIInv, IInv, TypeOK, Coherent
    <2>3. c \in Callables
      BY <2>1, <2>2 DEF CallsIInv, IInv, TypeOK
    <2>4. NATMOD => c \in callables
      BY <2>1, <2>2 DEF CallsIInv, IInv, NatmodAlive, CallableAlive
    <2>5. f \in Frame /\ FrameLive(f) /\ f.callable = c /\ f.at = "host"
      BY <1>2, <1>3, <2>3 DEF Frame, FrameLive
    <2> HIDE DEF f, c
    <2> QED
      BY <1>1, <2>1, <2>4, <2>5, FramesChange
  <1> QED
    BY <1>1, <1>4, <1>5, <1>6

\* The innermost call ends: it returned, trapped, raised or was aborted.
Ends == ArgsRaise \/ CallEnds \/ HostRaise \/ AbortCall

LEMMA EndFrames ==
    ASSUME CallsIInv, Ends
    PROVE  StackSound' /\ frames # <<>> /\ frames' = Outer /\ UNCHANGED vars
  <1>1. frames # <<>> /\ frames' = Outer /\ UNCHANGED vars
    BY DEF Ends, ArgsRaise, CallEnds, HostRaise, AbortCall, At, WasmRuns
  <1> QED
    BY <1>1, FramesChange

-----------------------------------------------------------------------------
(* Linear memory and the windows onto it.                                   *)

\* The types of the memories and the windows.
MemoryOK ==
    /\ spent \in SUBSET Loads
    /\ pages \in [Loads -> 1 .. MAX_PAGES]
    /\ base \in [Loads -> 1 .. MAX_PAGES]
    /\ window \in [Loads -> Window]

\* A memory that grew fits no window anybody has.
LEMMA GrowMemory ==
    ASSUME CallsIInv, Grow
    PROVE  MemoryOK' /\ SizeDetectsGrow' /\ Growing'
  <1> DEFINE g == Top.fn.module
  <1>1. g \in Loads
    <2>1. frames # <<>> /\ frames \in Seq(Frame)
      BY DEF Grow, WasmRuns, At, CallsIInv, CallsTypeOK
    <2> QED
      BY <2>1, Pop DEF Frame
  <1>2. PICK moved \in {0, 1} : base' = [base EXCEPT ![g] = @ + moved]
    BY DEF Grow
  <1>3. pages[g] < MAX_PAGES /\ pages' = [pages EXCEPT ![g] = @ + 1] /\ UNCHANGED <<spent, window>>
    BY DEF Grow
  <1> HIDE DEF g
  <1> USE CallsAssumption DEF Window
  <1>4. /\ MemoryOK
        /\ \A h \in Loads : window[h].len <= pages[h] /\ base[h] <= pages[h]
        /\ \A h \in Loads : window[h].len = pages[h] => window[h].base = base[h]
    BY DEF CallsIInv, CallsTypeOK, MemoryOK, Growing, SizeDetectsGrow, StillFits
  <1>5. MemoryOK'
    BY <1>1, <1>2, <1>3, <1>4 DEF MemoryOK
  <1>6. Growing'
    BY <1>1, <1>2, <1>3, <1>4 DEF MemoryOK, Growing
  <1>7. SizeDetectsGrow'
    BY <1>1, <1>2, <1>3, <1>4 DEF MemoryOK, SizeDetectsGrow, StillFits
  <1> QED
    BY <1>5, <1>6, <1>7

\* Every other step leaves the memories alone; memory() binds the window anew,
\* and a soft reset takes all windows away.
LEMMA MemoryStep ==
    ASSUME CallsIInv, [CallsNext]_allVars
    PROVE  MemoryOK' /\ SizeDetectsGrow' /\ Growing'
  <1> USE CallsAssumption DEF Window, NoWindow
  <1>1. MemoryOK /\ SizeDetectsGrow /\ Growing
    BY DEF CallsIInv, CallsTypeOK, MemoryOK
  <1>2. ASSUME NEW s \in Slots, Memory(s)
        PROVE  MemoryOK' /\ SizeDetectsGrow' /\ Growing'
    <2>1. runtime[s] \in Loads
      BY <1>2 DEF Memory, HandleOK, CallsIInv, IInv, TypeOK, Coherent, InUse
    <2> QED
      BY <1>1, <1>2, <2>1 DEF Memory, MemoryOK, SizeDetectsGrow, StillFits, Growing
  <1>3. CASE ResetAll
    BY <1>1, <1>3 DEF ResetAll, MemoryOK, SizeDetectsGrow, StillFits, Growing
  <1>4. CASE HostRaise \/ AbortCall
    <2>1. Top.fn.module \in Loads
      <3>1. frames # <<>> /\ frames \in Seq(Frame)
        BY <1>4 DEF HostRaise, AbortCall, WasmRuns, At, CallsIInv, CallsTypeOK
      <3> QED
        BY <3>1, Pop DEF Frame
    <2> QED
      BY <1>1, <1>4, <2>1 DEF HostRaise, AbortCall, MemoryOK, SizeDetectsGrow, StillFits, Growing
  <1>5. CASE UNCHANGED <<spent, pages, base, window>>
    BY <1>1, <1>5 DEF MemoryOK, SizeDetectsGrow, StillFits, Growing
  <1> QED
    BY <1>2, <1>3, <1>4, <1>5, GrowMemory DEF CallsNext, allVars, callVars, SlotStep, CollectInCall,
       Call, CallImport, EnterWasm, ArgsRaise, CallEnds, HostReturn

-----------------------------------------------------------------------------
(* The theorems.                                                            *)

\* The invariant of the calls is inductive.
LEMMA CallsNextInv == CallsIInv /\ [CallsNext]_allVars => CallsIInv'
  <1> SUFFICES ASSUME CallsIInv, [CallsNext]_allVars PROVE CallsIInv'
    OBVIOUS
  <1>1. IInv'
    BY CallsNextIInv DEF CallsIInv
  <1>2. MemoryOK' /\ SizeDetectsGrow' /\ Growing'
    BY MemoryStep
  <1>3. StackSound'
    <2>1. CASE SlotStep \/ CollectInCall
      BY <1>1, <2>1, SlotStepFrames, CollectFrames
    <2>2. CASE ResetAll
      BY <2>2, CallsAssumption DEF ResetAll, StackSound, StackOK, WasmLive, CalleeAlive
    <2>3. ASSUME NEW s \in Slots, NEW k \in FnSlots, Call(s, k)
          PROVE  StackSound'
      BY <2>3, CallFrames
    <2>4. CASE EnterWasm \/ HostReturn \/ \E i \in Imports : CallImport(i)
      BY <2>4, TopFrames
    <2>5. CASE Ends
      BY <2>5, EndFrames
    <2>6. CASE UNCHANGED <<vars, frames>>
      BY <2>6 DEF vars, bss, heap, python, control, CallsIInv, CallsTypeOK, StackSound, StackOK,
         WasmLive, FrameLive, CalleeAlive
    <2> QED
      BY <2>1, <2>2, <2>3, <2>4, <2>5, <2>6 DEF CallsNext, allVars, callVars, Memory, Grow, Ends
  <1> QED
    BY <1>1, <1>2, <1>3 DEF CallsIInv, CallsTypeOK, IInv, StackSound, StackOK, MemoryOK

\* The invariant of the calls holds in every reachable state, whatever programs
\* unload in the middle of calls.
THEOREM CallsInvariance == CallsSpec => []CallsIInv
  <1>1. CallsInit => CallsIInv
    <2> SUFFICES ASSUME CallsInit PROVE CallsIInv
      OBVIOUS
    <2>1. IInv
      BY InitIInv DEF CallsInit
    <2>2. frames \in Seq(Frame) /\ Len(frames) = 0
      BY DEF CallsInit
    <2> QED
      BY <2>1, <2>2, CallsAssumption DEF CallsInit, CallsIInv, CallsTypeOK, IInv, WasmLive,
         CalleeAlive, SizeDetectsGrow, StillFits, Growing, Window, NoWindow
  <1> QED
    BY <1>1, CallsNextInv, PTL DEF CallsSpec

\* Every variable of the calls keeps its type.
THEOREM CallsTypeCorrect == CallsSpec => []CallsTypeOK
  <1>1. CallsIInv => CallsTypeOK
    BY DEF CallsIInv
  <1> QED
    BY <1>1, CallsInvariance, PTL

\* A live frame stays live in every step but an unload() of its slot.
LEMMA LiveStays ==
    ASSUME CallsIInv, IInv', [CallsNext]_allVars, NEW f \in Frame, FrameLive(f), ~Unload(f.slot),
           ~ResetAll
    PROVE  FrameLive(f)'
  <1>1. f.slot \in Slots /\ in_use[f.slot] /\ IInv
    BY DEF Frame, FrameLive, CallsIInv
  <1>2. CASE SlotStep
    <2>1. in_use'[f.slot] /\ runtime'[f.slot] = runtime[f.slot]
      <3>1. CASE \E t \in Slots : Unload(t)
        BY <1>1, <3>1, UnloadOthers
      <3>2. CASE ~\E t \in Slots : Unload(t)
        BY <1>1, <1>2, <3>2, HandlesStay DEF SlotStep
      <3> QED
        BY <3>1, <3>2
    <2> QED
      BY <1>1, <2>1, FrameStays
  <1>3. CASE CollectInCall
    BY <1>3, CollectFrames
  <1>4. CASE UNCHANGED vars
    BY <1>4 DEF vars, bss, heap, FrameLive
  <1> QED
    BY <1>2, <1>3, <1>4 DEF CallsNext, allVars, Memory, Call, CallImport, EnterWasm, ArgsRaise,
       CallEnds, HostReturn, HostRaise, AbortCall, Grow

\* A frame that is new on the stack is live.
LEMMA NewFrameLive ==
    ASSUME CallsIInv, [CallsNext]_allVars, NEW f \in InFlightCalls', f \notin InFlightCalls
    PROVE  FrameLive(f)'
  <1>1. frames \in Seq(Frame) /\ frames' # frames
    BY DEF CallsIInv, CallsTypeOK, InFlightCalls
  <1>2. ASSUME NEW new \in Frame, FrameLive(new), UNCHANGED vars,
               \/ frames' = Append(frames, new)
               \/ frames' = Append(Outer, new) /\ frames # <<>>
        PROVE  FrameLive(f)'
    <2>1. f = new
      <3>1. CASE frames' = Append(frames, new)
        BY <1>1, <3>1, AppendProperties DEF InFlightCalls
      <3>2. CASE frames' = Append(Outer, new) /\ frames # <<>>
        BY <1>1, <3>2, Pop, AppendProperties DEF InFlightCalls
      <3> QED
        BY <1>2, <3>1, <3>2
    <2> QED
      BY <1>2, <2>1 DEF vars, bss, heap, FrameLive
  <1>3. ASSUME NEW s \in Slots, NEW k \in FnSlots, Call(s, k) PROVE FrameLive(f)'
    BY <1>2, <1>3, CallFrames
  <1>4. CASE EnterWasm \/ HostReturn \/ \E i \in Imports : CallImport(i)
    BY <1>2, <1>4, TopFrames
  <1>5. CASE Ends
    <2>1. frames' = Outer /\ frames # <<>>
      BY <1>5, EndFrames
    <2> QED
      BY <1>1, <2>1, Pop DEF InFlightCalls
  <1> QED
    BY <1>1, <1>3, <1>4, <1>5 DEF CallsNext, allVars, callVars, SlotStep, CollectInCall, ResetAll,
       Memory, Grow, Ends

\* However deep calls and callbacks nest, and whatever they do to the table, no
\* call loses its module but by an unload() of that module.
THEOREM FramesKeptAlways == CallsSpec => FramesKept
  <1>1. CallsIInv /\ [CallsNext]_allVars => [FrameKept]_allVars
    <2> SUFFICES ASSUME CallsIInv, [CallsNext]_allVars PROVE FrameKept
      OBVIOUS
    <2>1. IInv'
      BY CallsNextIInv DEF CallsIInv
    <2>2. \A f \in InFlightCalls' \ InFlightCalls : FrameLive(f)'
      BY NewFrameLive
    <2>3. InFlightCalls \subseteq Frame
      BY DEF InFlightCalls, CallsIInv, CallsTypeOK
    <2>4. CASE ResetAll
      BY <2>2, <2>4 DEF ResetAll, FrameKept, InFlightCalls
    <2>5. CASE ~ResetAll
      BY <2>1, <2>2, <2>3, <2>5, LiveStays DEF FrameKept
    <2> QED
      BY <2>4, <2>5
  <1> QED
    BY <1>1, CallsInvariance, PTL DEF CallsSpec, FramesKept

\* So a program that unloads no module while a call of it is in flight returns
\* into live modules only.
Careful == \A f \in InFlightCalls : ~Unload(f.slot)

THEOREM CarefulFramesLive == CallsSpec /\ [][Careful]_allVars => []FramesLive
  <1>1. CallsInit => FramesLive
    BY DEF CallsInit, FramesLive
  <1>2. FramesLive /\ [FrameKept]_allVars /\ [Careful]_allVars => FramesLive'
    <2>1. FramesLive <=> \A f \in InFlightCalls : FrameLive(f)
      BY DEF FramesLive, InFlightCalls
    <2>2. FramesLive' <=> \A f \in InFlightCalls' : FrameLive(f)'
      BY DEF FramesLive, InFlightCalls
    <2>3. CASE UNCHANGED allVars
      BY <2>3 DEF allVars, vars, callVars, bss, heap, FramesLive, FrameLive
    <2> QED
      BY <2>1, <2>2, <2>3 DEF FrameKept, Careful
  <1> QED
    BY <1>1, <1>2, FramesKeptAlways, PTL DEF CallsSpec, FramesKept

\* In a natmod no callable is collected while a trampoline runs it.
THEOREM CalleeAliveAlways == CallsSpec => []CalleeAlive
  <1>1. CallsIInv => CalleeAlive
    BY DEF CallsIInv
  <1> QED
    BY <1>1, CallsInvariance, PTL

\* A window as long as the memory is a window onto the memory.
THEOREM SizeDetectsGrowAlways == CallsSpec => []SizeDetectsGrow
  <1>1. CallsIInv => SizeDetectsGrow
    BY DEF CallsIInv
  <1> QED
    BY <1>1, CallsInvariance, PTL

-----------------------------------------------------------------------------
(* The slot table under calls that nest.                                    *)

\* Whatever callbacks do in the middle of calls, the table keeps its invariant.
THEOREM CallsTableInvariance == CallsSpec => []IInv
  <1>1. CallsInit => IInv
    BY InitIInv DEF CallsInit
  <1> QED
    BY <1>1, CallsNextIInv, PTL DEF CallsSpec

\* Calls, callbacks and the collections in them leave the handles alone.
LEMMA CallsStepTable ==
    ASSUME [CallsNext]_allVars
    PROVE  [Next]_vars \/ UNCHANGED <<bss, loaded>>
  <1>1. CASE SlotStep \/ ResetAll
    BY <1>1 DEF SlotStep, ResetAll, Next, SlotOp
  <1>2. CASE CollectInCall
    BY <1>2 DEF CollectInCall, CollectKeeping
  <1>3. CASE UNCHANGED vars
    BY <1>3
  <1> QED
    BY <1>1, <1>2, <1>3 DEF CallsNext, allVars, Memory, Call, CallImport, EnterWasm, ArgsRaise,
       CallEnds, HostReturn, HostRaise, AbortCall, Grow

\* The table used from within calls still implements the abstract one: what
\* callbacks open and close in the middle of a call are handles like any other,
\* each naming one instance.
THEOREM CallsRefinement == CallsSpec => ImplementsHandleTable
  <1>1. CallsInit => HT!Init
    BY InitRefines DEF CallsInit
  <1>2. IInv /\ [CallsNext]_allVars => [HT!Next]_HT!vars
    <2>1. UNCHANGED <<bss, loaded>> => UNCHANGED HT!vars
      BY DEF bss, HT!vars
    <2> QED
      BY <2>1, StepRefines, CallsStepTable
  <1> QED
    BY <1>1, <1>2, CallsTableInvariance, PTL DEF CallsSpec, ImplementsHandleTable, HT!Spec

\* A find() in a callback moves no index that a caller further out got.
THEOREM CallsIndicesStable == CallsSpec => IndicesStable
  <1>1. IInv /\ [CallsNext]_allVars => [IndexStable]_vars
    <2>1. IInv /\ UNCHANGED <<bss, loaded>> => IndexStable
      BY DEF bss, IndexStable
    <2> QED
      BY <2>1, IndexStableStep, CallsStepTable
  <1> QED
    BY <1>1, CallsTableInvariance, PTL DEF CallsSpec, IndicesStable

=============================================================================
