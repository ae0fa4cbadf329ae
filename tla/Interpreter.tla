----------------------------- MODULE Interpreter -----------------------------
(***************************************************************************)
(* exec.c driven by its host (test/runtest.c): instantiate and invoke,     *)
(* invoke_func and exec_expr, all working on the one stack of the store.   *)
(*                                                                         *)
(* A program is whatever the validator accepts, so the next instruction is *)
(* a free choice among those whose operands, labels and results are where  *)
(* validation promises them; nothing else restricts it.  An instruction is *)
(* one step, except that a branch and a return are one step per iteration  *)
(* of the C loops that unwind the stack.                                   *)
(*                                                                         *)
(* A trap leaves the C functions through __throw with the stack as it was  *)
(* at that point.  The host then empties it by assigning idx alone: the    *)
(* two lists still point at the entries of the abandoned computation.      *)
(***************************************************************************)
EXTENDS OperandStack, FiniteSets

VARIABLES
    st,     \* S->stack
    host,   \* what the host called
    calls,  \* the C activations of invoke_func: the F that its exec_expr has
            \* cached, and frame.arity
    pc      \* where the innermost exec_expr or invoke_func is

vars == <<st, host, calls, pc>>

Hosts == {"idle", "invoke",                     \* invoke
          "allocs", "inits", "start", "done",   \* instantiate, in this order
          "trapped"}                            \* either returned an error

Call == [frame : Nodes, arity : Arities]

Vals == Seq(Val \cup {LINK})

AtHost == [at |-> "host"]                       \* no exec_expr is running
Run    == [at |-> "run"]                        \* next instruction
Return == [at |-> "return"]                     \* next_ip = NULL
Reenter(b) == [at |-> "loop", blk |-> b]        \* next_ip = L.continuation
Unwinding(left, vals, parent) ==                \* in the loop of __br
    [at |-> "unwind", left |-> left, vals |-> vals, parent |-> parent]
Discarding(vals) ==                             \* in pop_while_not_frame
    [at |-> "discard", vals |-> vals]

PCs == {AtHost, Run, Return}
       \cup [at : {"loop"}, blk : Blocks]
       \cup [at : {"unwind"}, left : Nat, vals : Vals, parent : Blocks \cup {NULL}]
       \cup [at : {"discard"}, vals : Vals]

TypeOK ==
    /\ st \in Stack
    /\ host \in Hosts
    /\ calls \in Seq(Call)
    /\ pc \in PCs

Init ==
    /\ st = NewStack
    /\ host = "idle"
    /\ calls = <<>>
    /\ pc = AtHost

-----------------------------------------------------------------------------

\* __throw: every C function up to the host returns the error.
Throw(S) ==
    /\ st' = S
    /\ host' = "trapped"
    /\ calls' = <<>>
    /\ pc' = AtHost

Continue(S, next) ==
    /\ st' = S
    /\ pc' = next
    /\ UNCHANGED <<host, calls>>

\* Mutant: exec_expr looks up the current frame before push_frame.
InvokeFuncEarly(S, m, n, caller) ==
    LET P == PopN(S, m)
        L == PushLabel(PushFrame(P, n), n, NULL)
    IN  IF L.idx # P.idx + 2 THEN Throw(L)
        ELSE /\ st' = L
             /\ calls' = Append(calls, [frame |-> P.frames, arity |-> n])
             /\ host' = caller
             /\ pc' = Run

\* invoke_func up to the call of exec_expr, with m arguments on top of S.
InvokeFunc(S, m, n, caller) ==
    LET P == PopN(S, m)
        F == PushFrame(P, n)
        L == PushLabel(F, n, NULL)
    IN  \/ Full(P) /\ Throw(P)
        \/ ~Full(P) /\ Full(F) /\ Throw(F)
        \/ /\ ~Full(P) /\ ~Full(F)
           /\ st' = L
           /\ calls' = Append(calls, [frame |-> L.frames, arity |-> n])
           /\ host' = caller
           /\ pc' = Run

Top == Len(calls)
Current == calls[Top]
AtInstr == pc = Run

\* <<k, r>>: the instruction takes k operands and leaves r results.  What the
\* values are does not matter here.  memory.copy, table.copy, memory.init and
\* table.init run nested instructions in the slots of their three operands.
ParametricProfiles == {<<1, 0>>, <<3, 1>>}            \* drop or br_if; select
VariableProfiles   == {<<0, 1>>, <<1, 0>>}            \* get; set
NumericProfiles    == {<<0, 1>>, <<1, 1>>, <<2, 1>>}  \* const; unary; binary
ReferenceProfiles  == {<<0, 1>>, <<1, 1>>}            \* ref.null, ref.func; ref.is_null
TableProfiles      == {<<0, 1>>, <<1, 1>>, <<2, 0>>,  \* size; get; set;
                       <<2, 1>>, <<3, 0>>}            \* grow; fill, copy, init
LoadProfiles       == {<<1, 1>>}
StoreProfiles      == {<<2, 0>>}
MemoryProfiles     == {<<0, 1>>, <<1, 1>>, <<3, 0>>}  \* size; grow; fill, copy, init

Profiles == ParametricProfiles \cup VariableProfiles \cup NumericProfiles
            \cup ReferenceProfiles \cup TableProfiles \cup LoadProfiles
            \cup StoreProfiles \cup MemoryProfiles

Operate(k, r, v) ==
    /\ AtInstr
    /\ <<k, r>> \in Profiles
    /\ HasVals(st, k)
    /\ LET P == PopN(st, k)
       IN  \/ r = 0 /\ Continue(P, Run)
           \/ r = 1 /\ ~Full(P) /\ Continue(PushVal(P, v), Run)
           \/ r = 1 /\ Full(P) /\ Throw(P)

\* LOCAL_TEE pushes its operand twice and falls through to LOCAL_SET.
LocalTee ==
    /\ AtInstr
    /\ HasVals(st, 1)
    /\ LET v == TopVals(st, 1)[1]
           P == PushVal(PopN(st, 1), v)
       IN  \/ Full(P) /\ Throw(P)
           \/ ~Full(P) /\ Continue(PopN(PushVal(P, v), 1), Run)

\* unreachable, or an instruction that traps once its k operands are popped.
Trap(k) ==
    /\ AtInstr
    /\ HasVals(st, k)
    /\ Throw(PopN(st, k))

-----------------------------------------------------------------------------
(* Structured control.                                                     *)

EnterBlock(S, b) ==
    LET vals == TopVals(S, b.rt1)
        P    == PopN(S, b.rt1)
        L    == PushLabel(P, LabelArity(b), b)
        V    == PushVals(L, vals)
    IN  \/ Full(P) /\ Throw(P)
        \/ ~Full(P) /\ Overflows(L, b.rt1) /\ Throw(V)
        \/ ~Full(P) /\ ~Overflows(L, b.rt1) /\ Continue(V, Run)

Block(b) ==
    /\ AtInstr
    /\ b.op \in {"block", "loop"}
    /\ HasVals(st, b.rt1)
    /\ EnterBlock(st, b)

\* The condition is popped first.  Without an else branch a false condition
\* executes END next, which the choice of the next instruction includes.
If(b) ==
    /\ AtInstr
    /\ b.op = "if"
    /\ HasVals(st, b.rt1 + 1)
    /\ EnterBlock(PopN(st, 1), b)

\* A branch to a loop executes the loop instruction again.
ReenterLoop ==
    /\ pc.at = "loop"
    /\ EnterBlock(st, pc.blk)

\* The results a validated body leaves when it reaches its END.
NumResults(label) ==
    IF label.parent = NULL THEN label.arity ELSE label.parent.rt2

\* END, or the ELSE that ends a then branch: pop_vals, try_pop_label,
\* push_vals.  The function's own label has no parent: next_ip is NULL.
End ==
    /\ AtInstr
    /\ \E b \in Slots :
        /\ IsBase(st, b)
        /\ st.pool[b].type = "label"
        /\ st.idx - b = NumResults(st.pool[b])
        /\ LET vals == TopVals(st, st.idx - b)
           IN  Continue(PushVals(PopLabel(PopN(st, st.idx - b)), vals),
                        IF st.pool[b].parent = NULL THEN Return ELSE Run)

\* Mutant: the loop of __br stops one label early.
BrShort(l, c) ==
    /\ AtInstr
    /\ l < Cardinality(OwnLabels(st))
    /\ \E walk \in [0 .. l -> OwnLabels(st)] :
        /\ IsWalk(st, l, walk)
        /\ LET n == st.pool[walk[l]].arity
           IN  /\ HasVals(st, c + n)
               /\ Continue(PopN(st, c + n),
                           Unwinding(IF l = 0 THEN 1 ELSE l, TopVals(PopN(st, c), n), NULL))

\* br with c = 0; br_if that is taken and br_table with c = 1.  Validation
\* promises a label of this function; the walk of list_get_elem finds it.
Br(l, c) ==
    /\ AtInstr
    /\ l < Cardinality(OwnLabels(st))
    /\ \E walk \in [0 .. l -> OwnLabels(st)] :
        /\ IsWalk(st, l, walk)
        /\ LET n == st.pool[walk[l]].arity
           IN  /\ HasVals(st, c + n)
               /\ Continue(PopN(st, c + n),
                           Unwinding(l + 1, TopVals(PopN(st, c), n), NULL))

\* One iteration: pop_vals, pop_label.
Unwind ==
    /\ pc.at = "unwind"
    /\ pc.left > 0
    /\ \E b \in Slots :
        /\ IsBase(st, b)
        /\ LET P == PopN(st, st.idx - b)
           IN  Continue(PopLabel(P),
                        Unwinding(pc.left - 1, pc.vals,
                                  IF P.pool[b].type = "label"
                                  THEN P.pool[b].parent ELSE NULL))

\* Mutant: the values a branch takes along are not pushed again.
FinishBrEmpty ==
    /\ pc.at = "unwind"
    /\ pc.left = 0
    /\ \/ pc.parent = NULL /\ Continue(st, Return)
       \/ pc.parent # NULL /\ Continue(st, Run)

FinishBr ==
    /\ pc.at = "unwind"
    /\ pc.left = 0
    /\ LET S == PushVals(st, pc.vals)
       IN  \/ pc.parent = NULL /\ Continue(S, Return)
           \/ /\ pc.parent # NULL
              /\ Continue(S, IF pc.parent.op = "loop" THEN Reenter(pc.parent) ELSE Run)

-----------------------------------------------------------------------------
(* Calls and returns.                                                      *)

\* call with c = 0; call_indirect, which first pops the table index, with 1.
CallFunc(m, n, c) ==
    /\ AtInstr
    /\ HasVals(st, c + m)
    /\ InvokeFunc(PopN(st, c), m, n, host)

ReturnInstr ==
    /\ AtInstr
    /\ HasVals(st, Current.arity)
    /\ Continue(st, Return)

\* invoke_func after exec_expr: take the results off the stack ...
PopResults ==
    /\ pc = Return
    /\ Continue(PopN(st, Current.arity), Discarding(TopVals(st, Current.arity)))

\* Mutant: the loop does not move on from a value.
DiscardStuck ==
    /\ pc.at = "discard"
    /\ st.idx >= 0
    /\ \/ st.pool[st.idx].type = "val" /\ Continue(st, pc)
       \/ st.pool[st.idx].type = "label" /\ Continue(PopLabel(st), pc)

\* Mutant: the loop goes on below the frame.
DiscardPast ==
    /\ pc.at = "discard"
    /\ st.idx >= 0
    /\ \/ st.pool[st.idx].type = "val" /\ Continue(PopN(st, 1), pc)
       \/ st.pool[st.idx].type = "label" /\ Continue(PopLabel(st), pc)
       \/ st.pool[st.idx].type = "frame" /\ Continue(PopFrame(st), pc)

\* ... pop_while_not_frame ...
DiscardEntry ==
    /\ pc.at = "discard"
    /\ st.idx >= 0
    /\ \/ /\ st.pool[st.idx].type = "val"
          /\ Continue(PopN(st, 1), pc)
       \/ /\ st.pool[st.idx].type = "label"
          /\ Continue(PopLabel(st), pc)

AtFrame ==
    /\ pc.at = "discard"
    /\ st.idx >= 0
    /\ st.pool[st.idx].type = "frame"

Leave(S, back, next) ==
    /\ st' = S
    /\ calls' = SubSeq(calls, 1, Top - 1)
    /\ host' = back
    /\ pc' = next

\* ... pop_frame, push_vals: back in the caller's exec_expr, ...
ReturnToCaller ==
    /\ AtFrame
    /\ Top > 1
    /\ Leave(PushVals(PopFrame(st), pc.vals), host, Run)

\* Mutant: the results stay on the stack.
ReturnToHostFull ==
    /\ AtFrame
    /\ Top = 1 /\ host = "invoke"
    /\ Leave(PushVals(PopFrame(st), pc.vals), "idle", AtHost)

\* ... in invoke, which pops the results for the host, ...
ReturnToHost ==
    /\ AtFrame
    /\ Top = 1 /\ host = "invoke"
    /\ Leave(PopN(PushVals(PopFrame(st), pc.vals), Len(pc.vals)), "idle", AtHost)

\* ... or in instantiate after the start function, which has no results.
ReturnFromStart ==
    /\ AtFrame
    /\ Top = 1 /\ host = "start"
    /\ Leave(PushVals(PopFrame(st), pc.vals), "done", AtHost)

-----------------------------------------------------------------------------
(* The host.                                                               *)

\* invoke with m arguments of a function with n results.
HostInvoke(m, n, v) ==
    /\ host = "idle"
    /\ InvokeFunc(PushVals(st, [k \in 1 .. m |-> v]), m, n, "invoke")

InstStep(S, next) ==
    /\ st' = S
    /\ host' = next
    /\ UNCHANGED <<calls, pc>>

\* instantiate pushes a frame for the constant expressions, ...
InstBegin ==
    /\ host = "idle"
    /\ InstStep(PushFrame(st, 0), "allocs")

\* ... evaluates the initialiser of a global or of an element: the END of a
\* constant expression finds no label to pop, ...
InstAlloc(v) ==
    /\ host = "allocs"
    /\ InstStep(PopN(PushVal(st, v), 1), "allocs")

InstExports ==
    /\ host = "allocs"
    /\ InstStep(st, "inits")

\* ... copies an active element or data segment: the offset, 0 and the length
\* are pushed, and table.init or memory.init pops them and may trap, ...
InstInit(v) ==
    /\ host = "inits"
    /\ LET S == PopN(PushVals(st, <<v, v, v>>), 3)
       IN  InstStep(S, "inits") \/ Throw(S)

\* ... calls the start function, if there is one, ...
InstStart ==
    /\ host = "inits"
    /\ InvokeFunc(st, 0, 0, "start")

\* ... and pops its frame.
InstEnd ==
    /\ host \in {"inits", "done"}
    /\ InstStep(PopFrame(st), "idle")

\* After an expected error the host empties the stack: only idx is assigned.
HostReset ==
    /\ host = "trapped"
    /\ InstStep(SetTop(st, -1), "idle")

-----------------------------------------------------------------------------

HostNext ==
    \/ \E m, n \in Arities, v \in Val : HostInvoke(m, n, v)
    \/ InstBegin
    \/ \E v \in Val : InstAlloc(v) \/ InstInit(v)
    \/ InstExports
    \/ InstStart
    \/ InstEnd
    \/ HostReset

ExecNext ==
    \/ \E p \in Profiles, v \in Val : Operate(p[1], p[2], v)
    \/ LocalTee
    \/ \E k \in 0 .. 3 : Trap(k)
    \/ \E b \in Blocks : Block(b) \/ If(b)
    \/ End
    \/ \E l \in 0 .. NumSlots, c \in 0 .. 1 : Br(l, c)
    \/ \E m, n \in Arities, c \in 0 .. 1 : CallFunc(m, n, c)
    \/ ReturnInstr

\* Steps in which the C code has no choice: it only runs on.
Unwinder ==
    \/ ReenterLoop
    \/ Unwind
    \/ FinishBr
    \/ PopResults
    \/ DiscardEntry
    \/ ReturnToCaller
    \/ ReturnToHost
    \/ ReturnFromStart

Next == HostNext \/ ExecNext \/ Unwinder

Spec == Init /\ [][Next]_vars

\* The interpreter's only thread keeps running.
FairSpec == Spec /\ WF_vars(Unwinder)

-----------------------------------------------------------------------------
(* Properties.                                                             *)

\* Both lists visit exactly the live labels and frames from the top down,
\* whatever a host reset left in them: list_tail is the current frame and
\* list_get_elem(l) the l-th label although idx and the lists are restored
\* by different code.
ListsFollowStack ==
    /\ Linked(st, "label", st.labels)
    /\ Linked(st, "frame", st.frames)

\* No list operation writes a link into an entry that holds a live value: the
\* stale tails that a reset leaves behind only ever point at dead entries or
\* at frames.
LiveValuesIntact ==
    \A i \in SlotsOf(st, "val") : st.pool[i].val # LINK

\* Each C activation of exec_expr caches the frame entry it was started for,
\* and those are the frames on the stack, in order, with one more for
\* instantiate below them: F stays right across nested calls and returns.
FramesMatchCalls ==
    host # "trapped" =>
        LET inst   == IF host \in {"idle", "invoke"} THEN 0 ELSE 1
            frames == SlotsOf(st, "frame")
        IN  /\ Cardinality(frames) = Len(calls) + inst
            /\ \A k \in 1 .. Len(calls) :
                  /\ calls[k].frame \in frames
                  /\ st.pool[calls[k].frame].arity = calls[k].arity
                  /\ Cardinality({f \in frames : f < calls[k].frame}) = k - 1 + inst

\* For every label index validation admits, list_get_elem reaches the label
\* that has l labels of the same activation above it.
BranchFindsLabel ==
    AtInstr =>
        \A l \in 0 .. Cardinality(OwnLabels(st)) - 1 :
            \E walk \in [0 .. l -> OwnLabels(st)] :
                /\ IsWalk(st, l, walk)
                /\ Cardinality({j \in OwnLabels(st) : j > walk[l]}) = l

\* What a return takes off the stack are the callee's results: invoke_func pops
\* frame.arity entries without looking at them.
ReturnTakesResults ==
    pc = Return => /\ HasVals(st, Current.arity)
                   /\ st.idx - Current.arity >= Current.frame

\* When an invocation or an instantiation has succeeded, and after a reset, the
\* stack is empty: nothing leaks from one host command to the next.
IdleStackEmpty == host = "idle" => st.idx = -1

\* No step of a function, of its traps or of its return disturbs the entries
\* of its callers.
CallersUntouched ==
    [][calls # <<>> =>
           \A i \in 0 .. Current.frame - 1 :
               i <= st'.idx /\ st'.pool[i] = st.pool[i]]_vars

\* The loops of a branch and of a return come to an end.
UnwindingEnds ==
    pc.at \in {"unwind", "return", "discard"} ~> pc.at \in {"run", "loop", "host"}

-----------------------------------------------------------------------------
(* The inductive invariant.                                                *)

\* At a return the results may lie directly on the frame.
Settled == IF pc = Return THEN PopN(st, Current.arity) ELSE st

\* The activations own the frames on the stack, one by one, and at least the
\* label of its function separates a caller's frame from its callee's.
CallsOK ==
    /\ Top > 0
    /\ IsTop(st, "frame", Current.frame)
    /\ \A k \in 1 .. Top : /\ calls[k].frame \in SlotsOf(st, "frame")
                           /\ calls[k].arity = st.pool[calls[k].frame].arity
    /\ \A k \in 1 .. Top - 1 : IsBelow(st, "frame", calls[k + 1].frame, calls[k].frame)
    /\ \A k \in 1 .. Top : \A j \in 1 .. k - 1 : calls[j].frame + 1 < calls[k].frame
    /\ calls[1].frame = (IF host = "invoke" THEN 0 ELSE 1)
    /\ host = "start" => calls[1].arity = 0

SavedOK == pc.vals \in Seq(Val) /\ st.idx + Len(pc.vals) < NumSlots

PcOK ==
    LET f == Current.frame
    IN  \/ pc = Run /\ st.idx > f
        \/ /\ pc.at = "loop"
           /\ pc.blk.op = "loop" /\ st.idx > f /\ HasVals(st, pc.blk.rt1)
        \/ /\ pc = Return
           /\ HasVals(st, Current.arity) /\ st.idx - Current.arity >= f
           /\ LiveValuesIntact
        \/ /\ pc.at = "unwind" /\ SavedOK
           /\ IF pc.left > 0
              THEN \E walk \in [0 .. pc.left - 1 -> OwnLabels(st)] :
                      /\ IsWalk(st, pc.left - 1, walk)
                      /\ Len(pc.vals) = st.pool[walk[pc.left - 1]].arity
              ELSE IF pc.parent = NULL
                   THEN st.idx = f /\ Len(pc.vals) = Current.arity
                   ELSE st.idx > f /\ Len(pc.vals) = LabelArity(pc.parent)
        \/ /\ pc.at = "discard" /\ SavedOK
           /\ Len(pc.vals) = Current.arity /\ st.idx >= f

ControlOK ==
    IF host \in {"invoke", "start"}
    THEN CallsOK /\ PcOK
    ELSE /\ calls = <<>> /\ pc = AtHost
         /\ host = "idle" => st.idx = -1
         /\ host \in {"allocs", "inits", "done"} => st.idx = 0

IInv == TypeOK /\ WellFormed(Settled) /\ ControlOK
=============================================================================
