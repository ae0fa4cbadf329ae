--------------------------- MODULE ActivationStack ---------------------------
(***************************************************************************)
(* What the interpreter's stack promises: the stack of the WebAssembly     *)
(* execution model.  It is a sequence of values, labels and frames; labels *)
(* and frames are found by their position in it; a branch and a return are *)
(* one step, which keeps the stack busy for a while; nothing bounds its    *)
(* length; a trap abandons all of it.                                      *)
(***************************************************************************)
EXTENDS Integers, Sequences, FiniteSets

CONSTANTS
    Val,       \* values
    MaxArity,  \* bound on parameters and results
    Blocks,    \* the block instructions of the program
    NULL       \* the block of a function's own label

VARIABLES
    stack,     \* the bottom entry first
    mode,      \* "idle", "invoke", "inst" or "trapped"
    busy       \* the last instruction is still at work

avars == <<stack, mode, busy>>

V(v)    == [type |-> "val", val |-> v]
L(n, b) == [type |-> "label", arity |-> n, parent |-> b]
F(n)    == [type |-> "frame", arity |-> n]

LabelOf(b) == L(IF b.op = "loop" THEN b.rt1 ELSE b.rt2, b)

Len0 == Len(stack)
Last(n)    == SubSeq(stack, Len0 + 1 - n, Len0)
AllBut(n)  == SubSeq(stack, 1, Len0 - n)
Upto(i)    == SubSeq(stack, 1, i)
AreVals(n) == n <= Len0 /\ \A i \in Len0 + 1 - n .. Len0 : stack[i].type = "val"

\* i holds the current frame.
IsFrame(i) == /\ stack[i].type = "frame"
              /\ \A j \in i + 1 .. Len0 : stack[j].type # "frame"

\* i holds the l-th label, counted from the top within the current frame.
IsLabel(l, i) ==
    /\ stack[i].type = "label"
    /\ \A j \in i + 1 .. Len0 : stack[j].type # "frame"
    /\ Cardinality({j \in i + 1 .. Len0 : stack[j].type = "label"}) = l

-----------------------------------------------------------------------------

Init == stack = <<>> /\ mode = "idle" /\ busy = FALSE

Running == mode \in {"invoke", "inst"} /\ \E i \in 1 .. Len0 : stack[i].type = "label"

Operate(k, r, v) ==
    /\ Running
    /\ AreVals(k)
    /\ stack' = AllBut(k) \o (IF r = 1 THEN <<V(v)>> ELSE <<>>)
    /\ UNCHANGED mode

Enter(b) ==
    /\ Running
    /\ \E c \in 0 .. 1 :
        /\ AreVals(c + b.rt1)
        /\ stack' = AllBut(c + b.rt1) \o <<LabelOf(b)>>
                    \o SubSeq(stack, Len0 - c - b.rt1 + 1, Len0 - c)
    /\ UNCHANGED mode

Exit ==
    /\ Running
    /\ \E i \in 1 .. Len0 :
        /\ IsLabel(0, i)
        /\ stack[i].parent # NULL
        /\ Len0 - i = stack[i].parent.rt2
        /\ stack' = Upto(i - 1) \o Last(Len0 - i)
    /\ UNCHANGED mode

\* The results replace the frame and what is above it, after c entries were
\* popped.  The outermost invocation hands them to the host.
Leave(c) ==
    /\ Running
    /\ \E i \in 1 .. Len0 :
        /\ IsFrame(i)
        /\ LET n == stack[i].arity
           IN  /\ AreVals(c + n)
               /\ \/ /\ mode = "invoke" /\ i = 1
                     /\ stack' = <<>> /\ mode' = "idle"
                  \/ /\ mode = "inst" \/ i > 1
                     /\ stack' = Upto(i - 1) \o SubSeq(stack, Len0 - c - n + 1, Len0 - c)
                     /\ UNCHANGED mode

Branch(l, c) ==
    /\ Running
    /\ \E i \in 1 .. Len0 :
        /\ IsLabel(l, i)
        /\ AreVals(c + stack[i].arity)
        /\ \/ stack[i].parent = NULL /\ Leave(c)
           \/ /\ stack[i].parent # NULL
              /\ stack' = (IF stack[i].parent.op = "loop" THEN Upto(i) ELSE Upto(i - 1))
                          \o SubSeq(stack, Len0 - c - stack[i].arity + 1, Len0 - c)
              /\ UNCHANGED mode

Call(m, n) ==
    /\ Running
    /\ AreVals(m)
    /\ stack' = AllBut(m) \o <<F(n), L(n, NULL)>>
    /\ UNCHANGED mode

Invoke(n) ==
    /\ mode = "idle"
    /\ stack' = <<F(n), L(n, NULL)>>
    /\ mode' = "invoke"

Instantiate ==
    /\ mode = "idle"
    /\ stack' = <<F(0)>>
    /\ mode' = "inst"

Start ==
    /\ mode = "inst" /\ stack = <<F(0)>>
    /\ stack' = <<F(0), F(0), L(0, NULL)>>
    /\ UNCHANGED mode

Instantiated ==
    /\ mode = "inst" /\ stack = <<F(0)>>
    /\ stack' = <<>>
    /\ mode' = "idle"

\* A trap, or the exhaustion of a bounded stack.
Trap ==
    /\ mode # "trapped" /\ mode' = "trapped"
    /\ stack' = <<>>

Reset ==
    /\ mode = "trapped"
    /\ mode' = "idle"
    /\ UNCHANGED stack

Instruction ==
    \/ \E k \in 0 .. 3, r \in 0 .. 1, v \in Val : Operate(k, r, v)
    \/ \E b \in Blocks : Enter(b)
    \/ Exit
    \/ \E l \in 0 .. Len0, c \in 0 .. 1 : Branch(l, c)
    \/ Leave(0)
    \/ \E m \in 0 .. MaxArity + 1, n \in 0 .. MaxArity : Call(m, n)
    \/ \E n \in 0 .. MaxArity : Invoke(n)
    \/ Instantiate
    \/ Start
    \/ Instantiated
    \/ Reset

\* Nothing changes until an instruction is done.
Next ==
    \/ Trap /\ busy' = FALSE
    \/ ~busy /\ Instruction /\ busy' \in BOOLEAN
    \/ busy /\ busy' = FALSE /\ UNCHANGED <<stack, mode>>

Spec == Init /\ [][Next]_avars
=============================================================================
