--------------------------- MODULE InputPreflight ---------------------------
(***************************************************************************)
(* passesInputPreflight of src/adapters/agui/interrupt.ts, the bounded     *)
(* traversal that fromAguiRunAgentInput makes before any recursive parser  *)
(* sees its arguments.  One step is one round of its loop.                 *)
(*                                                                         *)
(* A value is Leaf (null, or anything that is neither object nor function) *)
(* or an object; heap[o] lists the values under the keys of object o.      *)
(* Objects can be shared and can be cyclic.                                *)
(***************************************************************************)
EXTENDS Naturals, Sequences, FiniteSets

CONSTANTS
    Objects,        \* object identities
    Leaf,           \* a value without keys
    MaxKeys,        \* bound: keys of one object
    Arguments,      \* the lists of values handed to the preflight
    Limits          \* the [maxInputDepth, maxInputNodes] options of a call

Values == Objects \cup {Leaf}
SeqsUpTo(n, S) == UNION {[1 .. m -> S] : m \in 0 .. n}

ASSUME PreflightAssumption ==
    /\ Leaf \notin Objects
    /\ MaxKeys \in Nat
    /\ Arguments \subseteq Seq(Values)
    /\ Limits \subseteq [maxInputDepth : Nat, maxInputNodes : Nat]

VARIABLES
    heap,           \* the keys of every object; the traversal never writes it
    values,         \* the argument list
    limits,         \* the limits in force
    stack,          \* frames to be handled, the next one last
    activePath,     \* the objects between a root and the current frame
    visitedNodes,
    pendingNodes,
    verdict         \* "none" until the call returns

vars == <<heap, values, limits, stack, activePath, visitedNodes, pendingNodes, verdict>>

VisitFrame(v, depth) == [phase |-> "visit", value |-> v, depth |-> depth]
LeaveFrame(v) == [phase |-> "leave", value |-> v, depth |-> 0]

\* parseInputLimits: both limits are at least 1, or there are none.
LimitsAreValid(l) == l.maxInputDepth >= 1 /\ l.maxInputNodes >= 1

Init ==
    /\ heap \in [Objects -> SeqsUpTo(MaxKeys, Values)]
    /\ values \in Arguments
    /\ limits \in Limits
    /\ stack = [k \in DOMAIN values |-> VisitFrame(values[k], 0)]
    /\ activePath = {}
    /\ visitedNodes = 0
    /\ pendingNodes = Len(values)
    /\ verdict = IF LimitsAreValid(limits) THEN "none" ELSE "rejected"

Top == stack[Len(stack)]
Popped == SubSeq(stack, 1, Len(stack) - 1)

Reject ==
    /\ verdict' = "rejected"
    /\ stack' = Popped
    /\ visitedNodes' = visitedNodes + 1
    /\ pendingNodes' = pendingNodes - 1
    /\ UNCHANGED <<heap, values, limits, activePath>>

\* Mutant of ExceedsNodes: the values still on the stack are not counted.
ExceedsNodesAhead(visited, pending, keys) == visited + keys > limits.maxInputNodes

\* The node budget, tried before the keys are read.
ExceedsNodes(visited, pending, keys) == visited + pending + keys > limits.maxInputNodes

\* Mutant of TooDeep: the deepest level that is allowed is refused.
TooDeepEarly(depth) == depth >= limits.maxInputDepth

TooDeep(depth) == depth > limits.maxInputDepth

\* The frame ends the call: a limit is passed, or the object is its own ancestor.
Refuses ==
    \/ visitedNodes + 1 > limits.maxInputNodes
    \/ TooDeep(Top.depth)
    \/ /\ Top.value # Leaf
       /\ \/ Top.value \in activePath
          \/ ExceedsNodes(visitedNodes + 1, pendingNodes - 1, Len(heap[Top.value]))

\* Mutant of Leave: an object stays on the path after its last key.
LeaveLate ==
    /\ verdict = "none" /\ stack # << >>
    /\ Top.phase = "leave"
    /\ stack' = Popped
    /\ UNCHANGED <<heap, values, limits, activePath, visitedNodes, pendingNodes, verdict>>

Leave ==
    /\ verdict = "none" /\ stack # << >>
    /\ Top.phase = "leave"
    /\ stack' = Popped
    /\ activePath' = activePath \ {Top.value}
    /\ UNCHANGED <<heap, values, limits, visitedNodes, pendingNodes, verdict>>

VisitRefused ==
    /\ verdict = "none" /\ stack # << >>
    /\ Top.phase = "visit"
    /\ Refuses
    /\ Reject

VisitLeaf ==
    /\ verdict = "none" /\ stack # << >>
    /\ Top.phase = "visit" /\ Top.value = Leaf
    /\ ~ Refuses
    /\ stack' = Popped
    /\ visitedNodes' = visitedNodes + 1
    /\ pendingNodes' = pendingNodes - 1
    /\ UNCHANGED <<heap, values, limits, activePath, verdict>>

\* The keys go on the stack in reverse, above the frame that leaves the object.
VisitObject ==
    /\ verdict = "none" /\ stack # << >>
    /\ Top.phase = "visit" /\ Top.value # Leaf
    /\ ~ Refuses
    /\ LET keys == heap[Top.value]
           n == Len(keys)
       IN  /\ stack' = Popped \o <<LeaveFrame(Top.value)>>
                         \o [k \in 1 .. n |-> VisitFrame(keys[n + 1 - k], Top.depth + 1)]
           /\ pendingNodes' = pendingNodes - 1 + n
    /\ activePath' = activePath \cup {Top.value}
    /\ visitedNodes' = visitedNodes + 1
    /\ UNCHANGED <<heap, values, limits, verdict>>

Pass ==
    /\ verdict = "none" /\ stack = << >>
    /\ verdict' = "passed"
    /\ UNCHANGED <<heap, values, limits, stack, activePath, visitedNodes, pendingNodes>>

Next == Leave \/ VisitRefused \/ VisitLeaf \/ VisitObject \/ Pass

\* The loop is synchronous: it runs until it returns.
Spec == Init /\ [][Next]_vars /\ WF_vars(Next)

-----------------------------------------------------------------------------

FramesOf(phase) == {k \in DOMAIN stack : stack[k].phase = phase}

\* Types of all variables, and what the two counters and the path stand for: the
\* pending nodes are the visit frames, the active path is the leave frames, each
\* object once.
TypeOK ==
    /\ heap \in [Objects -> SeqsUpTo(MaxKeys, Values)]
    /\ values \in Arguments
    /\ limits \in Limits
    /\ verdict \in {"none", "passed", "rejected"}
    /\ visitedNodes \in Nat
    /\ verdict = "none" =>
         /\ pendingNodes = Cardinality(FramesOf("visit"))
         /\ activePath = {stack[k].value : k \in FramesOf("leave")}
         /\ Cardinality(activePath) = Cardinality(FramesOf("leave"))

\* A bounded traversal: whatever is handed in, cyclic or shared as it may be, the
\* call looks at no more than maxInputNodes + 1 values and its stack never holds
\* more than the node budget (or the argument list) and one frame per level.
WorkIsBounded ==
    LET nodes == limits.maxInputNodes
        budget == IF Len(values) > nodes THEN Len(values) ELSE nodes
    IN  LimitsAreValid(limits) =>
          /\ visitedNodes <= nodes + 1
          /\ Len(stack) <= budget + limits.maxInputDepth + 1

\* Reference: the arguments unfolded to trees.  Some value lies below level depth.
ReachesBelow(depth) ==
    LET deep[n \in 0 .. depth + 1, v \in Values] ==
          n = 0 \/ (v # Leaf /\ \E k \in DOMAIN heap[v] : deep[n - 1, heap[v][k]])
    IN  \E k \in DOMAIN values : deep[depth + 1, values[k]]

\* Reference: the number of values on the levels up to depth.
NodesWithin(depth) ==
    LET size[n \in 0 .. depth, v \in Values] ==
          IF n = 0 \/ v = Leaf THEN 1
          ELSE LET keys[k \in 0 .. Len(heap[v])] ==
                     IF k = 0 THEN 1 ELSE keys[k - 1] + size[n - 1, heap[v][k]]
               IN  keys[Len(heap[v])]
        sum[k \in 0 .. Len(values)] ==
          IF k = 0 THEN 0 ELSE sum[k - 1] + size[depth, values[k]]
    IN  sum[Len(values)]

Fits ==
    /\ LimitsAreValid(limits)
    /\ ~ ReachesBelow(limits.maxInputDepth)
    /\ NodesWithin(limits.maxInputDepth) <= limits.maxInputNodes

\* The call always returns, and returns true exactly if the unfolded arguments
\* keep within both limits.  A cycle is an infinite tree; an object that is only
\* shared counts once per occurrence and is no cycle.
PreflightDecides == <>[](verdict = IF Fits THEN "passed" ELSE "rejected")
=============================================================================
