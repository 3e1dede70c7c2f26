--------------------------- MODULE AdapterProofs ---------------------------
(***************************************************************************)
(* What the adapters do with input before anything is decided on it.       *)
(*                                                                         *)
(* passesInputPreflight of src/adapters/agui/interrupt.ts does bounded     *)
(* work, for arguments of any shape, limits of any size and objects of any *)
(* number.  That the stack is bounded rests on a level for each of its     *)
(* frames: leave frames have different levels, all within the limit, so    *)
(* there are no more of them than levels (LevelsIn, LeavesBounded).        *)
(* Its verdict is right: it returns true exactly if the arguments, with    *)
(* every occurrence of a shared object counted, are finite trees within    *)
(* both limits.  The frames of its stack stand for the occurrences that    *)
(* are still to be visited (Walked, Ahead).                                *)
(*                                                                         *)
(* Two validators of src/adapters/mcp/elicitation.ts are written apart:    *)
(* the zod refinements that admit a field definition when a request is     *)
(* projected, and fieldValueIsValid, which judges the client's content.    *)
(* They agree on defaults, for every definition.                           *)
(***************************************************************************)
EXTENDS InputPreflight, McpElicitation, FiniteSetTheorems, WellFoundedInduction, TLAPS

-----------------------------------------------------------------------------
(* The preflight: the inductive invariant *)

Frame == [phase : {"visit", "leave"}, value : Values, depth : Nat]

FramesIn(s, phase) == {k \in DOMAIN s : s[k].phase = phase}

\* Every frame has a level: a visit frame its depth, a leave frame that of its
\* object, which is within the limit and below the levels of all frames above it.
LevelsIn(s, maxDepth) ==
    \E level \in [DOMAIN s -> Nat] :
        /\ \A k \in FramesIn(s, "visit") : level[k] = s[k].depth
        /\ \A j \in FramesIn(s, "leave") :
             /\ level[j] <= maxDepth
             /\ \A k \in DOMAIN s : j < k => level[j] < level[k]

\* The path holds the objects to be left, each of them once.
PathOf(s, path) ==
    /\ path = {s[k].value : k \in FramesIn(s, "leave")}
    /\ \A j, k \in FramesIn(s, "leave") : s[j].value = s[k].value => j = k
    /\ Cardinality(path) = Cardinality(FramesIn(s, "leave"))

Budget ==
    IF Len(values) > limits.maxInputNodes THEN Len(values) ELSE limits.maxInputNodes

\* While the loop runs.
Running ==
    /\ stack \in Seq(Frame)
    /\ LimitsAreValid(limits)
    /\ pendingNodes = Cardinality(FramesIn(stack, "visit"))
    /\ visitedNodes <= limits.maxInputNodes
    /\ visitedNodes + pendingNodes <= Budget
    /\ PathOf(stack, activePath)
    /\ LevelsIn(stack, limits.maxInputDepth)

PreflightInv ==
    /\ heap \in [Objects -> SeqsUpTo(MaxKeys, Values)]
    /\ values \in Arguments
    /\ limits \in Limits
    /\ verdict \in {"none", "passed", "rejected"}
    /\ visitedNodes \in Nat
    /\ IF verdict = "none" THEN Running ELSE WorkIsBounded

-----------------------------------------------------------------------------
(* Stacks *)

\* The frames of a stack are finitely many.
LEMMA FramesFinite ==
    ASSUME NEW s \in Seq(Frame), NEW phase
    PROVE  /\ IsFiniteSet(FramesIn(s, phase))
           /\ Cardinality(FramesIn(s, phase)) \in Nat
<1> DEFINE n == Len(s)
<1>1. n \in Nat /\ DOMAIN s = 1 .. n
  OBVIOUS
<1> HIDE DEF n
<1>2. IsFiniteSet(1 .. n)
  BY <1>1, FS_Interval
<1>3. FramesIn(s, phase) \in SUBSET (1 .. n)
  BY <1>1 DEF FramesIn
<1>4. IsFiniteSet(FramesIn(s, phase))
  BY <1>2, <1>3, FS_Subset
<1> QED
  BY <1>4, FS_CardinalityType

\* A stack is its visit frames and its leave frames.
LEMMA FramesAdd ==
    ASSUME NEW s \in Seq(Frame)
    PROVE  Len(s) = Cardinality(FramesIn(s, "visit")) + Cardinality(FramesIn(s, "leave"))
<1> DEFINE n == Len(s)
           V == FramesIn(s, "visit")
           L == FramesIn(s, "leave")
<1>1. n \in Nat /\ DOMAIN s = 1 .. n
  OBVIOUS
<1>2. V \cup L = 1 .. n /\ V \cap L = {}
  <2>0. \A k \in 1 .. n : s[k] \in Frame
    BY <1>1
  <2>1. \A k \in 1 .. n : s[k].phase \in {"visit", "leave"}
    BY <2>0 DEF Frame
  <2> QED
    BY <1>1, <2>1 DEF FramesIn
<1>3. IsFiniteSet(V) /\ IsFiniteSet(L) /\ Cardinality(V) \in Nat /\ Cardinality(L) \in Nat
  BY FramesFinite
<1> HIDE DEF n, V, L
<1>4. Cardinality(V \cup L) = Cardinality(V) + Cardinality(L) - Cardinality(V \cap L)
  BY <1>3, FS_Union
<1>5. Cardinality(1 .. n) = n
  BY <1>1, FS_Interval
<1>6. Cardinality(V \cap L) = 0 /\ Cardinality(V \cup L) = n
  BY <1>2, <1>5, FS_EmptySet
<1>7. n = Cardinality(V) + Cardinality(L)
  BY <1>1, <1>3, <1>4, <1>6
<1> QED
  BY <1>7 DEF n, V, L

\* Leave frames have different levels, so there is at most one for each.
LEMMA LeavesBounded ==
    ASSUME NEW s \in Seq(Frame), NEW m \in Nat, LevelsIn(s, m)
    PROVE  Cardinality(FramesIn(s, "leave")) <= m + 1
<1> DEFINE L == FramesIn(s, "leave")
<1>1. PICK level \in [DOMAIN s -> Nat] :
         \A j \in L : level[j] <= m /\ \A k \in DOMAIN s : j < k => level[j] < level[k]
  BY DEF LevelsIn
<1>2. L \subseteq DOMAIN s /\ L \subseteq Nat
  BY DEF FramesIn
<1> HIDE DEF L
<1> DEFINE f == [j \in L |-> level[j]]
<1>3. f \in [L -> 0 .. m]
  BY <1>1, <1>2
<1>4. \A j, k \in L : f[j] = f[k] => j = k
  BY <1>1, <1>2
<1> HIDE DEF f
<1>5. f \in Injection(L, 0 .. m)
  BY <1>3, <1>4 DEF Injection, IsInjective
<1>6. IsFiniteSet(0 .. m) /\ Cardinality(0 .. m) = m + 1
  BY FS_Interval
<1> QED
  BY <1>5, <1>6, FS_Injection DEF L

\* Taking the top frame off.
LEMMA PopFrames ==
    ASSUME NEW s \in Seq(Frame), s # << >>
    PROVE  LET n == Len(s)
               t == SubSeq(s, 1, n - 1)
           IN  /\ n \in Nat \ {0} /\ s[n] \in Frame /\ DOMAIN s = 1 .. n
               /\ t \in Seq(Frame) /\ Len(t) = n - 1 /\ DOMAIN t = 1 .. n - 1
               /\ \A k \in 1 .. n - 1 : t[k] = s[k]
               /\ \A phase : FramesIn(t, phase) = FramesIn(s, phase) \ {n}
<1> DEFINE n == Len(s)
           t == SubSeq(s, 1, n - 1)
<1>1. n \in Nat \ {0} /\ DOMAIN s = 1 .. n /\ \A k \in 1 .. n : s[k] \in Frame
  OBVIOUS
<1>2. t \in Seq(Frame) /\ Len(t) = n - 1 /\ \A k \in 1 .. n - 1 : t[k] = s[k]
  BY <1>1
<1> HIDE DEF n, t
<1>3. DOMAIN t = 1 .. n - 1
  BY <1>2
<1>4. ASSUME NEW phase PROVE FramesIn(t, phase) = FramesIn(s, phase) \ {n}
  BY <1>1, <1>2, <1>3 DEF FramesIn
<1> QED
  BY <1>1, <1>2, <1>3, <1>4 DEF n, t

\* The stack t, the leave frame f and the m visit frames w, and what they make.
Push(t, f, w) == t \o <<f>> \o w

Pushed(u, t, f, m, w) ==
    LET n == Len(t) + 1
    IN  /\ u \in Seq(Frame) /\ DOMAIN u = 1 .. n + m
        /\ \A k \in 1 .. n - 1 : u[k] = t[k]
        /\ u[n] = f
        /\ \A k \in n + 1 .. n + m : u[k] = w[k - n]
        /\ FramesIn(u, "leave") = FramesIn(t, "leave") \cup {n}
        /\ FramesIn(u, "visit") = FramesIn(t, "visit") \cup (n + 1 .. n + m)

\* Putting a leave frame and visit frames on.
LEMMA PushFrames ==
    ASSUME NEW t \in Seq(Frame), NEW f \in Frame, f.phase = "leave",
           NEW m \in Nat, NEW w \in [1 .. m -> Frame], \A k \in 1 .. m : w[k].phase = "visit"
    PROVE  Pushed(Push(t, f, w), t, f, m, w)
<1> DEFINE u == t \o <<f>> \o w
           n == Len(t) + 1
<1>1. w \in Seq(Frame) /\ Len(w) = m
  OBVIOUS
<1>2. u \in Seq(Frame) /\ Len(u) = n + m
  BY <1>1
<1>3. \A k \in 1 .. n - 1 : u[k] = t[k]
  BY <1>1
<1>4. u[n] = f
  BY <1>1
<1>5. \A k \in n + 1 .. n + m : u[k] = w[k - n]
  BY <1>1
<1>6. n \in Nat \ {0} /\ DOMAIN t = 1 .. n - 1
  OBVIOUS
<1> HIDE DEF u, n
<1>7. DOMAIN u = 1 .. n + m
  BY <1>2, <1>6
<1>8. \A k \in n + 1 .. n + m : u[k].phase = "visit"
  BY <1>5, <1>6
<1>9. FramesIn(u, "leave") = FramesIn(t, "leave") \cup {n}
  BY <1>3, <1>4, <1>6, <1>7, <1>8 DEF FramesIn
<1>10. FramesIn(u, "visit") = FramesIn(t, "visit") \cup (n + 1 .. n + m)
  BY <1>3, <1>4, <1>6, <1>7, <1>8 DEF FramesIn
<1> QED
  BY <1>2, <1>3, <1>4, <1>5, <1>7, <1>9, <1>10 DEF u, n, Push, Pushed

-----------------------------------------------------------------------------
(* The loop *)

\* What the invariant says of the work while the loop runs.
LEMMA RunningIsBounded ==
    ASSUME values \in Arguments, limits \in Limits, visitedNodes \in Nat, Running
    PROVE  WorkIsBounded
<1> DEFINE V == Cardinality(FramesIn(stack, "visit"))
           L == Cardinality(FramesIn(stack, "leave"))
<1>1. limits.maxInputNodes \in Nat /\ limits.maxInputDepth \in Nat /\ Len(values) \in Nat
  BY PreflightAssumption
<1>2. V \in Nat /\ L \in Nat /\ Len(stack) = V + L
  BY FramesFinite, FramesAdd DEF Running
<1>3. L <= limits.maxInputDepth + 1
  BY <1>1, LeavesBounded DEF Running
<1>4. V = pendingNodes /\ visitedNodes + pendingNodes <= Budget /\ visitedNodes <= limits.maxInputNodes
  BY DEF Running
<1>5. Budget \in Nat
  BY <1>1 DEF Budget
<1> HIDE DEF V, L
<1>6. Len(stack) <= Budget + limits.maxInputDepth + 1
  BY <1>1, <1>2, <1>3, <1>4, <1>5
<1> QED
  BY <1>1, <1>4, <1>6 DEF WorkIsBounded, Budget

\* The keys of an object are a sequence of values.
LEMMA KeysOf ==
    ASSUME heap \in [Objects -> SeqsUpTo(MaxKeys, Values)], NEW o \in Objects
    PROVE  Len(heap[o]) \in Nat /\ heap[o] \in [1 .. Len(heap[o]) -> Values]
<1>1. PICK m \in 0 .. MaxKeys : heap[o] \in [1 .. m -> Values]
  BY DEF SeqsUpTo
<1>2. m \in Nat
  BY PreflightAssumption
<1> QED
  BY <1>1, <1>2

\* Initially the arguments are to be visited.
LEMMA PreflightInitInv == Init => PreflightInv
<1> SUFFICES ASSUME Init PROVE PreflightInv
  OBVIOUS
<1>1. /\ heap \in [Objects -> SeqsUpTo(MaxKeys, Values)] /\ values \in Arguments
      /\ limits \in Limits /\ visitedNodes = 0 /\ pendingNodes = Len(values)
      /\ activePath = {} /\ stack = [k \in DOMAIN values |-> VisitFrame(values[k], 0)]
      /\ verdict = IF LimitsAreValid(limits) THEN "none" ELSE "rejected"
  BY DEF Init
<1>2. /\ limits.maxInputNodes \in Nat /\ limits.maxInputDepth \in Nat
      /\ values \in Seq(Values)
  BY <1>1, PreflightAssumption
<1> DEFINE n == Len(values)
<1>3. n \in Nat /\ DOMAIN values = 1 .. n /\ \A k \in 1 .. n : values[k] \in Values
  BY <1>2
<1>4. \A k \in 1 .. n : VisitFrame(values[k], 0) \in Frame
  BY <1>3 DEF VisitFrame, Frame
<1> HIDE DEF n
<1>5. /\ stack \in Seq(Frame) /\ DOMAIN stack = 1 .. n
      /\ \A k \in 1 .. n : stack[k].phase = "visit" /\ stack[k].depth = 0
  BY <1>1, <1>3, <1>4 DEF VisitFrame
<1>6. FramesIn(stack, "visit") = 1 .. n /\ FramesIn(stack, "leave") = {}
  BY <1>5 DEF FramesIn
<1>7. Cardinality(1 .. n) = n
  BY <1>3, FS_Interval
<1>8. PathOf(stack, activePath)
  BY <1>1, <1>6, FS_EmptySet DEF PathOf
<1>9. LevelsIn(stack, limits.maxInputDepth)
  <2> DEFINE level == [k \in DOMAIN stack |-> 0]
  <2>1. level \in [DOMAIN stack -> Nat] /\ \A k \in FramesIn(stack, "visit") : level[k] = stack[k].depth
    BY <1>5, <1>6
  <2> QED
    BY <1>6, <2>1 DEF LevelsIn
<1>10. visitedNodes + pendingNodes <= Budget
  BY <1>1, <1>2, <1>3 DEF Budget, n
<1>11. LimitsAreValid(limits) => Running
  BY <1>1, <1>2, <1>3, <1>5, <1>6, <1>7, <1>8, <1>9, <1>10 DEF Running, n
<1> QED
  BY <1>1, <1>11 DEF PreflightInv, WorkIsBounded

\* The top frame of a running loop, and the stack without it.
LEMMA TopFacts ==
    ASSUME PreflightInv, Running, stack # << >>
    PROVE  LET n == Len(stack) IN
           /\ n \in Nat \ {0} /\ DOMAIN stack = 1 .. n
           /\ Top \in Frame /\ Top = stack[n] /\ Popped \in Seq(Frame)
           /\ Len(Popped) = n - 1 /\ DOMAIN Popped = 1 .. n - 1
           /\ \A k \in 1 .. n - 1 : Popped[k] = stack[k]
           /\ \A phase : FramesIn(Popped, phase) = FramesIn(stack, phase) \ {n}
           /\ n \in FramesIn(stack, Top.phase)
<1>1. stack \in Seq(Frame)
  BY DEF Running
<1> DEFINE n == Len(stack)
<1>2. /\ n \in Nat \ {0} /\ DOMAIN stack = 1 .. n
      /\ Top \in Frame /\ Top = stack[n] /\ Popped \in Seq(Frame)
      /\ Len(Popped) = n - 1 /\ DOMAIN Popped = 1 .. n - 1
      /\ \A k \in 1 .. n - 1 : Popped[k] = stack[k]
      /\ \A phase : FramesIn(Popped, phase) = FramesIn(stack, phase) \ {n}
  BY <1>1, PopFrames DEF Top, Popped
<1>3. n \in FramesIn(stack, Top.phase)
  BY <1>2 DEF FramesIn
<1> QED
  BY <1>2, <1>3

\* The levels stay when the top frame is taken off.
LEMMA PopLevels ==
    ASSUME PreflightInv, Running, stack # << >>
    PROVE  LevelsIn(Popped, limits.maxInputDepth)
<1> DEFINE n == Len(stack)
           d == limits.maxInputDepth
<1>1. PICK level \in [DOMAIN stack -> Nat] :
        /\ \A k \in FramesIn(stack, "visit") : level[k] = stack[k].depth
        /\ \A j \in FramesIn(stack, "leave") :
             level[j] <= d /\ \A k \in DOMAIN stack : j < k => level[j] < level[k]
  BY DEF Running, LevelsIn
<1>2. /\ n \in Nat \ {0} /\ DOMAIN stack = 1 .. n /\ DOMAIN Popped = 1 .. n - 1
      /\ \A k \in 1 .. n - 1 : Popped[k] = stack[k]
      /\ \A phase : FramesIn(Popped, phase) = FramesIn(stack, phase) \ {n}
  BY TopFacts
<1>3. \A phase : FramesIn(Popped, phase) \subseteq DOMAIN Popped
  BY DEF FramesIn
<1> HIDE DEF n
<1> DEFINE g == [k \in DOMAIN Popped |-> level[k]]
<1>4. g \in [DOMAIN Popped -> Nat]
  BY <1>2
<1>5. \A k \in FramesIn(Popped, "visit") : g[k] = Popped[k].depth
  BY <1>1, <1>2, <1>3
<1>6. \A j \in FramesIn(Popped, "leave") :
         g[j] <= d /\ \A k \in DOMAIN Popped : j < k => g[j] < g[k]
  BY <1>1, <1>2, <1>3
<1> HIDE DEF g
<1> QED
  BY <1>4, <1>5, <1>6 DEF LevelsIn

\* Leaving an object takes it off the path: it was there once.
LEMMA LeaveKeeps ==
    ASSUME PreflightInv, Leave
    PROVE  PreflightInv'
<1>1. /\ Running /\ stack # << >> /\ Top.phase = "leave" /\ verdict = "none"
      /\ stack' = Popped /\ activePath' = activePath \ {Top.value}
      /\ UNCHANGED <<heap, values, limits, visitedNodes, pendingNodes, verdict>>
  BY DEF Leave, PreflightInv
<1> DEFINE n == Len(stack)
           L == FramesIn(stack, "leave")
<1>2. /\ n \in Nat \ {0} /\ DOMAIN Popped = 1 .. n - 1
      /\ Top = stack[n] /\ Popped \in Seq(Frame) /\ stack \in Seq(Frame)
      /\ \A k \in 1 .. n - 1 : Popped[k] = stack[k]
      /\ FramesIn(Popped, "leave") = L \ {n}
      /\ FramesIn(Popped, "visit") = FramesIn(stack, "visit") \ {n}
      /\ n \in L
  BY <1>1, TopFacts DEF Running
<1>3. n \notin FramesIn(stack, "visit")
  BY <1>2 DEF FramesIn
<1>4. PathOf(Popped, activePath \ {Top.value})
  <2>1. /\ activePath = {stack[k].value : k \in L}
        /\ \A j, k \in L : stack[j].value = stack[k].value => j = k
        /\ Cardinality(activePath) = Cardinality(L)
    BY <1>1 DEF Running, PathOf
  <2>2. L \ {n} \subseteq 1 .. n - 1
    BY <1>2 DEF FramesIn
  <2> HIDE DEF n, L
  <2>3. \A k \in L \ {n} : Popped[k].value = stack[k].value
    BY <1>2, <2>2
  <2>4. activePath \ {Top.value} = {Popped[k].value : k \in L \ {n}}
    BY <1>2, <2>1, <2>3
  <2>5. IsFiniteSet(L) /\ Cardinality(L) \in Nat
    BY <1>2, FramesFinite DEF L
  <2>6. IsFiniteSet(activePath)
    <3> DEFINE f == [k \in L |-> stack[k].value]
    <3>1. f \in Surjection(L, activePath)
      BY <2>1 DEF Surjection
    <3> QED
      BY <2>5, <3>1, FS_Surjection
  <2>7. Top.value \in activePath
    BY <1>2, <2>1
  <2>8. Cardinality(activePath \ {Top.value}) = Cardinality(L \ {n})
    <3>1. Cardinality(activePath \ {Top.value}) = Cardinality(activePath) - 1
      BY <2>6, <2>7, FS_RemoveElement
    <3>2. Cardinality(L \ {n}) = Cardinality(L) - 1
      BY <1>2, <2>5, FS_RemoveElement
    <3> QED
      BY <2>1, <3>1, <3>2
  <2> QED
    BY <1>2, <2>1, <2>3, <2>4, <2>8 DEF PathOf
<1>5. LevelsIn(Popped, limits.maxInputDepth)
  BY <1>1, PopLevels
<1>6. FramesIn(Popped, "visit") = FramesIn(stack, "visit")
  BY <1>2, <1>3
<1>7. Running'
  BY <1>1, <1>2, <1>4, <1>5, <1>6 DEF Running, Budget
<1> QED
  BY <1>1, <1>7 DEF PreflightInv

\* The visit frame that is handled was pending.
LEMMA VisitedFrame ==
    ASSUME PreflightInv, Running, stack # << >>, Top.phase = "visit"
    PROVE  /\ visitedNodes \in Nat /\ pendingNodes \in Nat /\ pendingNodes >= 1
           /\ Cardinality(FramesIn(Popped, "visit")) = pendingNodes - 1
           /\ IsFiniteSet(FramesIn(Popped, "visit"))
           /\ PathOf(Popped, activePath)
<1> DEFINE n == Len(stack)
           V == FramesIn(stack, "visit")
           L == FramesIn(stack, "leave")
<1>1. /\ n \in Nat \ {0} /\ DOMAIN stack = 1 .. n /\ stack \in Seq(Frame)
      /\ Top = stack[n]
      /\ \A k \in 1 .. n - 1 : Popped[k] = stack[k]
      /\ FramesIn(Popped, "leave") = L \ {n} /\ FramesIn(Popped, "visit") = V \ {n}
      /\ n \in V
  BY TopFacts DEF Running
<1>2. n \notin L /\ L \subseteq 1 .. n - 1
  BY <1>1 DEF FramesIn
<1>3. IsFiniteSet(V) /\ Cardinality(V) \in Nat
  BY <1>1, FramesFinite
<1>4. visitedNodes \in Nat /\ pendingNodes = Cardinality(V) /\ PathOf(stack, activePath)
  BY DEF PreflightInv, Running
<1> HIDE DEF n, V
<1>5. IsFiniteSet(V \ {n}) /\ Cardinality(V \ {n}) = Cardinality(V) - 1
  BY <1>1, <1>3, FS_RemoveElement
<1>6. Cardinality(V) # 0
  BY <1>1, <1>3, FS_EmptySet
<1>7. PathOf(Popped, activePath)
  <2>1. FramesIn(Popped, "leave") = L /\ \A k \in L : Popped[k] = stack[k]
    BY <1>1, <1>2
  <2> QED
    BY <1>4, <2>1 DEF PathOf
<1>8. pendingNodes \in Nat /\ pendingNodes >= 1
  BY <1>3, <1>4, <1>6
<1>9. /\ IsFiniteSet(FramesIn(Popped, "visit"))
      /\ Cardinality(FramesIn(Popped, "visit")) = pendingNodes - 1
  BY <1>1, <1>4, <1>5
<1> QED
  BY <1>4, <1>7, <1>8, <1>9

\* A refusal ends the call, with one more value seen.
LEMMA VisitRefusedKeeps ==
    ASSUME PreflightInv, VisitRefused
    PROVE  PreflightInv'
<1>1. /\ Running /\ stack # << >> /\ verdict = "none"
      /\ verdict' = "rejected" /\ stack' = Popped /\ visitedNodes' = visitedNodes + 1
      /\ UNCHANGED <<heap, values, limits>>
  BY Zenon DEF VisitRefused, Reject, PreflightInv
<1>2. Len(Popped) = Len(stack) - 1 /\ Len(stack) \in Nat
  BY <1>1, TopFacts
<1>3. /\ heap \in [Objects -> SeqsUpTo(MaxKeys, Values)] /\ values \in Arguments
      /\ limits \in Limits /\ visitedNodes \in Nat
  BY DEF PreflightInv
<1>4. /\ limits.maxInputNodes \in Nat /\ limits.maxInputDepth \in Nat /\ Len(values) \in Nat
      /\ visitedNodes <= limits.maxInputNodes
  BY <1>1, <1>3, PreflightAssumption DEF Running
<1> DEFINE most == Budget + limits.maxInputDepth + 1
<1>5. Len(stack) <= most
  <2>1. WorkIsBounded /\ LimitsAreValid(limits)
    BY <1>1, <1>3, RunningIsBounded DEF Running
  <2> QED
    BY <2>1 DEF WorkIsBounded, Budget
<1>6. WorkIsBounded'
  <2>1. most \in Nat
    BY <1>4 DEF Budget
  <2> HIDE DEF most
  <2>2. Len(Popped) <= most
    BY <1>2, <1>5, <2>1
  <2>3. visitedNodes + 1 <= limits.maxInputNodes + 1
    BY <1>3, <1>4
  <2> QED
    BY <1>1, <2>2, <2>3 DEF WorkIsBounded, Budget, most
<1> QED
  BY <1>1, <1>3, <1>6 DEF PreflightInv

\* A leaf is one pending value less and one visited value more.
LEMMA VisitLeafKeeps ==
    ASSUME PreflightInv, VisitLeaf
    PROVE  PreflightInv'
<1>1. /\ Running /\ stack # << >> /\ Top.phase = "visit" /\ verdict = "none" /\ ~ Refuses
      /\ stack' = Popped
      /\ visitedNodes' = visitedNodes + 1 /\ pendingNodes' = pendingNodes - 1
      /\ UNCHANGED <<heap, values, limits, activePath, verdict>>
  BY DEF VisitLeaf, PreflightInv
<1>2. /\ visitedNodes \in Nat /\ pendingNodes \in Nat
      /\ Cardinality(FramesIn(Popped, "visit")) = pendingNodes - 1
      /\ PathOf(Popped, activePath)
  BY <1>1, VisitedFrame
<1>3. LevelsIn(Popped, limits.maxInputDepth) /\ Popped \in Seq(Frame)
  BY <1>1, PopLevels, TopFacts
<1>4. limits.maxInputNodes \in Nat
  BY PreflightAssumption DEF PreflightInv
<1>5. visitedNodes' <= limits.maxInputNodes
  BY <1>1, <1>2, <1>4 DEF Refuses
<1>6. visitedNodes' + pendingNodes' = visitedNodes + pendingNodes
  BY <1>1, <1>2
<1>7. Running'
  BY <1>1, <1>2, <1>3, <1>5, <1>6 DEF Running, Budget
<1> QED
  BY <1>1, <1>2, <1>7 DEF PreflightInv

\* An object is put on the path and its keys on the stack, within the budget.
LEMMA VisitObjectKeeps ==
    ASSUME PreflightInv, VisitObject
    PROVE  PreflightInv'
<1> DEFINE o == Top.value
           keys == heap[o]
           m == Len(keys)
           n == Len(stack)
           f == LeaveFrame(o)
           w == [k \in 1 .. m |-> VisitFrame(keys[m + 1 - k], Top.depth + 1)]
           u == Popped \o <<f>> \o w
           d == limits.maxInputDepth
<1>1. /\ Running /\ stack # << >> /\ Top.phase = "visit" /\ verdict = "none" /\ ~ Refuses
      /\ o # Leaf
      /\ stack' = u /\ activePath' = activePath \cup {o}
      /\ visitedNodes' = visitedNodes + 1 /\ pendingNodes' = pendingNodes - 1 + m
      /\ UNCHANGED <<heap, values, limits, verdict>>
  BY DEF VisitObject, PreflightInv
<1>2. /\ n \in Nat \ {0} /\ DOMAIN stack = 1 .. n /\ Top \in Frame /\ Top = stack[n]
      /\ Popped \in Seq(Frame) /\ Len(Popped) + 1 = n /\ DOMAIN Popped = 1 .. n - 1
      /\ \A k \in 1 .. n - 1 : Popped[k] = stack[k]
      /\ \A phase : FramesIn(Popped, phase) = FramesIn(stack, phase) \ {n}
      /\ n \in FramesIn(stack, "visit")
  <2>1. /\ n \in Nat \ {0} /\ DOMAIN stack = 1 .. n /\ Top \in Frame /\ Top = stack[n]
        /\ Popped \in Seq(Frame) /\ Len(Popped) = n - 1 /\ DOMAIN Popped = 1 .. n - 1
        /\ \A k \in 1 .. n - 1 : Popped[k] = stack[k]
        /\ \A phase : FramesIn(Popped, phase) = FramesIn(stack, phase) \ {n}
        /\ n \in FramesIn(stack, Top.phase)
    BY <1>1, TopFacts, Zenon
  <2> HIDE DEF n
  <2>2. Len(Popped) + 1 = n
    BY <2>1
  <2> QED
    BY <1>1, <2>1, <2>2, Zenon
<1>3. /\ visitedNodes \in Nat /\ pendingNodes \in Nat
      /\ Cardinality(FramesIn(Popped, "visit")) = pendingNodes - 1
      /\ IsFiniteSet(FramesIn(Popped, "visit"))
      /\ PathOf(Popped, activePath)
  BY <1>1, VisitedFrame
<1>4. o \in Objects /\ Top.depth \in Nat
  BY <1>1, <1>2 DEF Frame, Values
<1>5. m \in Nat /\ keys \in [1 .. m -> Values]
  BY <1>4, KeysOf DEF PreflightInv
<1>6. limits.maxInputNodes \in Nat /\ d \in Nat /\ Len(values) \in Nat
  BY PreflightAssumption DEF PreflightInv
<1>7. /\ Top.depth <= d /\ o \notin activePath /\ visitedNodes + 1 <= limits.maxInputNodes
      /\ visitedNodes + 1 + (pendingNodes - 1) + m <= limits.maxInputNodes
  <2>1. /\ ~ (visitedNodes + 1 > limits.maxInputNodes) /\ ~ (Top.depth > d)
        /\ o \notin activePath
        /\ ~ (visitedNodes + 1 + (pendingNodes - 1) + m > limits.maxInputNodes)
    BY <1>1 DEF Refuses, TooDeep, ExceedsNodes
  <2> HIDE DEF d, o, m
  <2> QED
    BY <1>3, <1>4, <1>5, <1>6, <2>1
<1>8. f \in Frame /\ f.phase = "leave" /\ f.value = o
  BY <1>4 DEF LeaveFrame, Frame, Values
<1>9. w \in [1 .. m -> Frame] /\ \A k \in 1 .. m : w[k].phase = "visit" /\ w[k].depth = Top.depth + 1
  <2>1. ASSUME NEW k \in 1 .. m PROVE VisitFrame(keys[m + 1 - k], Top.depth + 1) \in Frame
    <3> HIDE DEF m, keys
    <3>1. keys[m + 1 - k] \in Values
      BY <1>5
    <3> QED
      BY <1>4, <3>1 DEF VisitFrame, Frame
  <2> QED
    BY <2>1 DEF VisitFrame
<1> HIDE DEF w, f, m, keys
<1>10. /\ u \in Seq(Frame) /\ DOMAIN u = 1 .. n + m
       /\ \A k \in 1 .. n - 1 : u[k] = Popped[k]
       /\ u[n] = f
       /\ \A k \in n + 1 .. n + m : u[k] = w[k - n]
       /\ FramesIn(u, "leave") = FramesIn(Popped, "leave") \cup {n}
       /\ FramesIn(u, "visit") = FramesIn(Popped, "visit") \cup (n + 1 .. n + m)
  <2>1. Popped \in Seq(Frame) /\ n = Len(Popped) + 1 /\ u = Push(Popped, f, w)
    BY <1>2 DEF Push
  <2>2. m \in Nat /\ f \in Frame /\ f.phase = "leave" /\ w \in [1 .. m -> Frame]
    BY <1>5, <1>8, <1>9
  <2>3. \A k \in 1 .. m : w[k].phase = "visit"
    BY <1>9
  <2> HIDE DEF n, o, u
  <2>4. Pushed(u, Popped, f, m, w)
    BY <2>1, <2>2, <2>3, PushFrames
  <2> QED
    BY <2>1, <2>4, Zenon DEF Pushed
<1>11. \A phase : FramesIn(Popped, phase) \subseteq 1 .. n - 1
  BY <1>2 DEF FramesIn
<1> HIDE DEF u, n, d
<1>12. Cardinality(FramesIn(u, "visit")) = pendingNodes - 1 + m
  <2> DEFINE V == FramesIn(Popped, "visit")
             N == n + 1 .. n + m
  <2>1. IsFiniteSet(N) /\ Cardinality(N) = m
    <3>1. n + 1 \in Int /\ n + m \in Int /\ n \in Nat
      BY <1>2, <1>5
    <3> DEFINE a == n + 1
               b == n + m
    <3>2. (IF a > b THEN 0 ELSE b - a + 1) = m
      BY <1>5, <3>1
    <3>4. a \in Int /\ b \in Int
      BY <3>1
    <3> HIDE DEF a, b
    <3>3. IsFiniteSet(a .. b) /\ Cardinality(a .. b) = IF a > b THEN 0 ELSE b - a + 1
      BY <3>4, FS_Interval, Zenon
    <3> QED
      BY <3>2, <3>3 DEF a, b
  <2>2. V \cap N = {}
    BY <1>2, <1>5, <1>11
  <2> HIDE DEF V, N
  <2>3. Cardinality(V \cup N) = Cardinality(V) + Cardinality(N) - Cardinality(V \cap N)
    BY <1>3, <2>1, FS_Union DEF V
  <2>4. Cardinality(V \cap N) = 0
    BY <2>2, FS_EmptySet
  <2>5. Cardinality(V) = pendingNodes - 1
    BY <1>3 DEF V
  <2>6. Cardinality(V \cup N) = pendingNodes - 1 + m
    BY <1>3, <1>5, <2>1, <2>3, <2>4, <2>5
  <2> QED
    BY <1>10, <2>6 DEF V, N
<1>13. PathOf(u, activePath \cup {o})
  <2> DEFINE L == FramesIn(Popped, "leave")
  <2>1. /\ activePath = {Popped[k].value : k \in L}
        /\ \A j, k \in L : Popped[j].value = Popped[k].value => j = k
        /\ Cardinality(activePath) = Cardinality(L)
    BY <1>3 DEF PathOf
  <2>2. L \subseteq 1 .. n - 1 /\ n \notin L
    BY <1>2, <1>11
  <2>3. FramesIn(u, "leave") = L \cup {n} /\ u[n].value = o
    BY <1>8, <1>10
  <2>4. IsFiniteSet(L)
    BY <1>2, FramesFinite
  <2> HIDE DEF L
  <2>5. \A k \in L : u[k].value = Popped[k].value
    BY <1>10, <2>2
  <2>6. IsFiniteSet(activePath)
    <3> DEFINE g == [k \in L |-> Popped[k].value]
    <3>1. g \in Surjection(L, activePath)
      BY <2>1 DEF Surjection
    <3> QED
      BY <2>4, <3>1, FS_Surjection
  <2>7. Cardinality(activePath \cup {o}) = Cardinality(activePath) + 1
    BY <1>7, <2>6, FS_AddElement
  <2>8. Cardinality(L \cup {n}) = Cardinality(L) + 1
    BY <2>2, <2>4, FS_AddElement
  <2>9. activePath \cup {o} = {u[k].value : k \in L \cup {n}}
    BY <2>1, <2>3, <2>5
  <2>10. \A j, k \in L \cup {n} : u[j].value = u[k].value => j = k
    BY <1>7, <2>1, <2>3, <2>5
  <2>11. Cardinality(activePath \cup {o}) = Cardinality(L \cup {n})
    BY <2>1, <2>7, <2>8
  <2> QED
    BY <2>3, <2>9, <2>10, <2>11 DEF PathOf
<1>14. LevelsIn(u, d)
  <2>1. PICK level \in [DOMAIN stack -> Nat] :
          /\ \A k \in FramesIn(stack, "visit") : level[k] = stack[k].depth
          /\ \A j \in FramesIn(stack, "leave") :
               level[j] <= d /\ \A k \in DOMAIN stack : j < k => level[j] < level[k]
    BY <1>1 DEF Running, LevelsIn, d
  <2> DEFINE g == [k \in DOMAIN u |-> IF k <= n THEN level[k] ELSE Top.depth + 1]
  <2>2. level[n] = Top.depth
    BY <1>2, <2>1
  <2>3. g \in [DOMAIN u -> Nat]
    BY <1>2, <1>4, <1>5, <1>10, SMTT(30)
  <2>4. \A k \in FramesIn(u, "visit") : g[k] = u[k].depth
    <3>1. ASSUME NEW k \in FramesIn(Popped, "visit") PROVE g[k] = u[k].depth
      <4>1. k \in 1 .. n - 1 /\ k \in FramesIn(stack, "visit")
        BY <1>2, <1>11
      <4> QED
        BY <1>2, <1>5, <1>10, <2>1, <4>1
    <3>2. ASSUME NEW k \in n + 1 .. n + m PROVE g[k] = u[k].depth
      <4>1. k - n \in 1 .. m /\ k \in 1 .. n + m /\ ~ (k <= n)
        BY <1>2, <1>5
      <4> QED
        BY <1>9, <1>10, <4>1
    <3> QED
      BY <1>10, <3>1, <3>2
  <2>5. ASSUME NEW j \in FramesIn(u, "leave")
        PROVE  g[j] <= d /\ \A k \in DOMAIN u : j < k => g[j] < g[k]
    <3>1. CASE j = n
      <4>1. g[j] = Top.depth
        BY <1>2, <1>5, <1>10, <2>2, <3>1
      <4>2. \A k \in DOMAIN u : j < k => g[k] = Top.depth + 1
        BY <1>2, <1>5, <1>10, <3>1
      <4> HIDE DEF g
      <4> QED
        BY <1>4, <1>7, <4>1, <4>2 DEF d
    <3>2. CASE j \in FramesIn(Popped, "leave")
      <4>1. j \in 1 .. n - 1 /\ j \in FramesIn(stack, "leave")
        BY <1>2, <1>11, <3>2
      <4>2. g[j] = level[j] /\ level[j] \in Nat
        BY <1>2, <1>5, <1>10, <4>1
      <4>3. level[j] <= d /\ \A k \in 1 .. n : j < k => level[j] < level[k]
        BY <1>2, <2>1, <4>1
      <4>4. level[j] < Top.depth
        BY <1>2, <2>2, <4>1, <4>3
      <4>5. ASSUME NEW k \in DOMAIN u, j < k PROVE level[j] < g[k]
        <5>1. CASE k <= n
          BY <1>2, <1>5, <1>10, <4>3, <4>5, <5>1
        <5>2. CASE ~ (k <= n)
          BY <1>4, <4>2, <4>4, <5>2
        <5> QED
          BY <5>1, <5>2
      <4> HIDE DEF g
      <4> QED
        BY <4>2, <4>3, <4>5
    <3> QED
      BY <1>10, <3>1, <3>2
  <2> HIDE DEF g
  <2> QED
    BY <2>3, <2>4, <2>5 DEF LevelsIn
<1>15. visitedNodes' + pendingNodes' <= Budget
  BY <1>1, <1>3, <1>5, <1>6, <1>7 DEF Budget
<1>16. Running'
  BY <1>1, <1>7, <1>10, <1>12, <1>13, <1>14, <1>15 DEF Running, Budget, d
<1> QED
  BY <1>1, <1>3, <1>16 DEF PreflightInv

\* Every round of the loop keeps the invariant.
LEMMA PreflightStepInv ==
    ASSUME PreflightInv, [Next]_vars
    PROVE  PreflightInv'
<1>1. CASE UNCHANGED vars
  BY <1>1 DEF vars, PreflightInv, Running, Budget, WorkIsBounded
<1>2. CASE Pass
  <2>1. Running /\ values \in Arguments /\ limits \in Limits /\ visitedNodes \in Nat
    BY <1>2 DEF Pass, PreflightInv
  <2>2. WorkIsBounded
    BY <2>1, RunningIsBounded
  <2> QED
    BY <1>2, <2>2 DEF Pass, PreflightInv, WorkIsBounded
<1> QED
  BY <1>1, <1>2, LeaveKeeps, VisitRefusedKeeps, VisitLeafKeeps, VisitObjectKeeps DEF Next

\* The invariant of the loop holds throughout, for arguments of any shape.
THEOREM PreflightSafety == Spec => []PreflightInv
<1>1. PreflightInv /\ [Next]_vars => PreflightInv'
  BY PreflightStepInv
<1> QED
  BY <1>1, PreflightInitInv, PTL DEF Spec

\* pendingNodes and activePath are what they stand for: the visit frames, and the
\* objects still to be left, each once.
THEOREM PreflightTypeCorrect == Spec => []TypeOK
<1>1. PreflightInv => TypeOK
  BY DEF PreflightInv, Running, PathOf, TypeOK, FramesOf, FramesIn
<1> QED
  BY <1>1, PreflightSafety, PTL

\* Whatever is handed in, cyclic, shared or deep as it may be, the call looks at no
\* more values than the budget allows and its stack stays bounded.
THEOREM PreflightWorkBounded == Spec => []WorkIsBounded
<1>1. PreflightInv => WorkIsBounded
  BY RunningIsBounded DEF PreflightInv
<1> QED
  BY <1>1, PreflightSafety, PTL

-----------------------------------------------------------------------------
(* The preflight: the verdict is right *)

\* An occurrence of a value in the unfolded arguments: the keys that lead to it
\* from an argument, each with the value found there.
Node == [key : Nat, value : Values]

ValueOf(p) == p[Len(p)].value
Parent(p) == SubSeq(p, 1, Len(p) - 1)
Above(p) == {p[i].value : i \in 1 .. Len(p) - 1}
Root(vs, k) == <<[key |-> k, value |-> vs[k]]>>
Child(h, p, k) == Append(p, [key |-> k, value |-> h[ValueOf(p)][k]])
KeysUnder(h, p) == IF ValueOf(p) = Leaf THEN {} ELSE DOMAIN h[ValueOf(p)]

OccurrencesIn(h, vs) ==
    {p \in Seq(Node) :
        /\ p # << >> /\ p[1].key \in DOMAIN vs /\ p[1].value = vs[p[1].key]
        /\ \A i \in 1 .. Len(p) - 1 :
             /\ p[i].value # Leaf
             /\ p[i + 1].key \in DOMAIN h[p[i].value]
             /\ p[i + 1].value = h[p[i].value][p[i + 1].key]}

\* No object is its own ancestor.
IsAcyclic(p) == \A i, j \in 1 .. Len(p) : i < j => p[i].value # p[j].value

Heaps == [Objects -> SeqsUpTo(MaxKeys, Values)]

\* The keys of an object, for any heap.
LEMMA HeapKeys ==
    ASSUME NEW h \in Heaps, NEW o \in Objects
    PROVE  /\ Len(h[o]) \in Nat /\ DOMAIN h[o] = 1 .. Len(h[o])
           /\ \A k \in DOMAIN h[o] : k \in Nat /\ h[o][k] \in Values
<1>1. PICK m \in 0 .. MaxKeys : h[o] \in [1 .. m -> Values]
  BY DEF SeqsUpTo, Heaps
<1>2. m \in Nat
  BY PreflightAssumption
<1> QED
  BY <1>1, <1>2

\* An occurrence ends in a value; all values above it are objects.
LEMMA OccurrenceFacts ==
    ASSUME NEW h, NEW vs, NEW p \in OccurrencesIn(h, vs)
    PROVE  /\ p \in Seq(Node) /\ Len(p) \in Nat \ {0} /\ DOMAIN p = 1 .. Len(p)
           /\ ValueOf(p) \in Values
           /\ Leaf \notin Above(p)
           /\ p[1].key \in DOMAIN vs /\ p[1].value = vs[p[1].key]
<1>1. /\ p \in Seq(Node) /\ p # << >>
      /\ \A i \in 1 .. Len(p) - 1 : p[i].value # Leaf
      /\ p[1].key \in DOMAIN vs /\ p[1].value = vs[p[1].key]
  BY Zenon DEF OccurrencesIn
<1>2. Len(p) \in Nat \ {0} /\ DOMAIN p = 1 .. Len(p)
  BY <1>1
<1>3. p[Len(p)] \in Node
  <2>1. Len(p) \in 1 .. Len(p)
    BY <1>2
  <2> QED
    BY <1>1, <1>2, <2>1
<1>4. ValueOf(p) \in Values
  BY <1>3 DEF ValueOf, Node
<1>5. Leaf \notin Above(p)
  BY <1>1, Zenon DEF Above
<1> QED
  BY <1>1, <1>2, <1>4, <1>5

\* One key further down.
LEMMA ChildFacts ==
    ASSUME NEW h \in Heaps, NEW vs, NEW p \in OccurrencesIn(h, vs), NEW k \in KeysUnder(h, p)
    PROVE  LET c == Child(h, p, k) IN
           /\ c \in OccurrencesIn(h, vs)
           /\ Len(c) = Len(p) + 1
           /\ Parent(c) = p
           /\ c[Len(c)].key = k
           /\ ValueOf(c) = h[ValueOf(p)][k]
           /\ Above(c) = Above(p) \cup {ValueOf(p)}
<1> DEFINE n == Len(p)
           o == ValueOf(p)
           e == [key |-> k, value |-> h[o][k]]
           c == Append(p, e)
<1>1. p \in Seq(Node) /\ n \in Nat \ {0} /\ DOMAIN p = 1 .. n /\ o \in Values
  BY OccurrenceFacts
<1>2. o # Leaf /\ k \in DOMAIN h[o] /\ o \in Objects
  BY <1>1 DEF KeysUnder, Values
<1>3. e \in Node
  BY <1>2, HeapKeys DEF Node
<1>4. e.key = k /\ e.value = h[o][k] /\ p[n].value = o
  BY DEF ValueOf
<1> HIDE DEF e, o
<1>5. /\ c \in Seq(Node) /\ Len(c) = n + 1 /\ c[n + 1] = e
      /\ \A i \in 1 .. n : c[i] = p[i]
  BY <1>1, <1>3
<1>6. SubSeq(c, 1, n) = p
  BY <1>1, <1>3
<1>7. /\ p[1].key \in DOMAIN vs /\ p[1].value = vs[p[1].key]
      /\ \A i \in 1 .. n - 1 :
           /\ p[i].value # Leaf
           /\ p[i + 1].key \in DOMAIN h[p[i].value]
           /\ p[i + 1].value = h[p[i].value][p[i + 1].key]
  BY DEF OccurrencesIn
<1> HIDE DEF n, c
<1>8. c # << >> /\ c[1] = p[1] /\ Len(c) - 1 = n
  BY <1>1, <1>5
<1>9. ASSUME NEW i \in 1 .. n
      PROVE  /\ c[i].value # Leaf
             /\ c[i + 1].key \in DOMAIN h[c[i].value]
             /\ c[i + 1].value = h[c[i].value][c[i + 1].key]
  <2>1. CASE i = n
    BY <1>1, <1>2, <1>4, <1>5, <2>1
  <2>2. CASE i # n
    <3>1. i \in 1 .. n - 1 /\ i + 1 \in 1 .. n
      BY <1>1, <2>2
    <3> QED
      BY <1>5, <1>7, <3>1
  <2> QED
    BY <2>1, <2>2
<1>10. c \in OccurrencesIn(h, vs)
  BY <1>5, <1>7, <1>8, <1>9 DEF OccurrencesIn
<1>11. Parent(c) = p /\ c[Len(c)].key = k /\ ValueOf(c) = h[o][k]
  BY <1>4, <1>5, <1>6, <1>8 DEF Parent, ValueOf
<1>12. Above(c) = Above(p) \cup {o}
  <2>1. Above(c) = {p[i].value : i \in 1 .. n}
    BY <1>5, <1>8 DEF Above
  <2>2. 1 .. n = (1 .. n - 1) \cup {n}
    BY <1>1
  <2> QED
    BY <1>4, <2>1, <2>2 DEF Above, n
<1> QED
  BY <1>5, <1>10, <1>11, <1>12 DEF Child, n, c, e, o

\* An argument is an occurrence.
LEMMA RootFacts ==
    ASSUME NEW h, NEW vs \in Seq(Values), NEW k \in DOMAIN vs
    PROVE  LET r == Root(vs, k) IN
           /\ r \in OccurrencesIn(h, vs) /\ Len(r) = 1 /\ r[1].key = k
           /\ ValueOf(r) = vs[k] /\ Above(r) = {}
<1> DEFINE e == [key |-> k, value |-> vs[k]]
           r == <<e>>
<1>1. e \in Node /\ e.key = k /\ e.value = vs[k]
  BY DEF Node
<1> HIDE DEF e
<1>2. r \in Seq(Node) /\ Len(r) = 1 /\ r[1] = e /\ r # << >>
  BY <1>1
<1>3. 1 .. Len(r) - 1 = {}
  BY <1>2
<1> HIDE DEF r
<1> QED
  BY <1>1, <1>2, <1>3 DEF Root, OccurrencesIn, ValueOf, Above, r, e

\* An occurrence is an argument, or its parent's child.
LEMMA ParentFacts ==
    ASSUME NEW h, NEW vs \in Seq(Values), NEW p \in OccurrencesIn(h, vs)
    PROVE  \/ Len(p) = 1 /\ p = Root(vs, p[1].key)
           \/ /\ Len(p) > 1 /\ Parent(p) \in OccurrencesIn(h, vs) /\ Len(Parent(p)) = Len(p) - 1
              /\ p[Len(p)].key \in KeysUnder(h, Parent(p))
              /\ p = Child(h, Parent(p), p[Len(p)].key)
              /\ \A i \in 1 .. Len(p) - 1 : Parent(p)[i] = p[i]
<1> DEFINE n == Len(p)
           q == Parent(p)
           k == p[n].key
<1>1. /\ p \in Seq(Node) /\ n \in Nat \ {0} /\ DOMAIN p = 1 .. n
      /\ p[1].key \in DOMAIN vs /\ p[1].value = vs[p[1].key]
      /\ \A i \in 1 .. n - 1 :
           /\ p[i].value # Leaf
           /\ p[i + 1].key \in DOMAIN h[p[i].value]
           /\ p[i + 1].value = h[p[i].value][p[i + 1].key]
  BY OccurrenceFacts DEF OccurrencesIn
<1>2. \A i \in 1 .. n : p[i] = [key |-> p[i].key, value |-> p[i].value]
  <2>1. \A i \in 1 .. n : p[i] \in Node
    BY <1>1
  <2> QED
    BY <2>1 DEF Node
<1>3. CASE n = 1
  <2>1. p[1] = [key |-> p[1].key, value |-> vs[p[1].key]]
    BY <1>1, <1>2, <1>3
  <2>2. p = <<p[1]>>
    BY <1>1, <1>3
  <2> QED
    BY <1>3, <2>1, <2>2 DEF Root
<1>4. CASE n # 1
  <2>1. n - 1 \in 1 .. n /\ n > 1 /\ n - 1 \in Nat \ {0} /\ (n - 1) + 1 = n
    BY <1>1, <1>4
  <2>2. /\ q \in Seq(Node) /\ Len(q) = n - 1 /\ \A i \in 1 .. n - 1 : q[i] = p[i]
    BY <1>1, <2>1 DEF Parent
  <2>3. p = Append(q, p[n])
    BY <1>1, <2>1 DEF Parent
  <2> HIDE DEF n, q
  <2>4. q \in OccurrencesIn(h, vs)
    <3>1. q # << >> /\ q[1] = p[1]
      BY <2>1, <2>2
    <3>2. ASSUME NEW i \in 1 .. Len(q) - 1
          PROVE  /\ q[i].value # Leaf
                 /\ q[i + 1].key \in DOMAIN h[q[i].value]
                 /\ q[i + 1].value = h[q[i].value][q[i + 1].key]
      <4>1. i \in 1 .. n - 1 /\ i + 1 \in 1 .. n - 1
        BY <2>1, <2>2
      <4> QED
        BY <1>1, <2>2, <4>1
    <3> QED
      BY <1>1, <2>2, <3>1, <3>2 DEF OccurrencesIn
  <2>5. ValueOf(q) = p[n - 1].value /\ p[n - 1].value # Leaf
        /\ k \in DOMAIN h[p[n - 1].value] /\ p[n].value = h[p[n - 1].value][k]
    BY <1>1, <2>1, <2>2 DEF ValueOf
  <2>6. k \in KeysUnder(h, q)
    BY <2>5 DEF KeysUnder
  <2>7. p[n] = [key |-> k, value |-> h[ValueOf(q)][k]]
    BY <1>1, <1>2, <2>5
  <2>8. p = Child(h, q, k)
    BY <2>3, <2>7, Zenon DEF Child
  <2> QED
    BY <2>1, <2>2, <2>4, <2>6, <2>8 DEF n, q
<1> QED
  BY <1>3, <1>4

\* A set of natural numbers has a least one: induction on naturals.
LEMMA LeastNatural ==
    ASSUME NEW S, S \subseteq Nat, S # {}
    PROVE  \E n \in S : \A m \in S : n <= m
<1> DEFINE R == OpToRel(<, Nat)
<1>1. \A m, n \in Nat : m < n => <<m, n>> \in R
  BY DEF OpToRel
<1>2. IsWellFoundedOn(R, Nat)
  BY NatLessThanWellFounded
<1> HIDE DEF R
<1>3. PICK n \in S : \A m \in S : ~ (<<m, n>> \in R)
  BY <1>2, WFMin
<1>4. \A m \in S : ~ (m < n)
  BY <1>1, <1>3
<1> QED
  BY <1>4

\* A set of occurrences that has all arguments and all children has all occurrences.
LEMMA ClosedIsAll ==
    ASSUME NEW h, NEW vs \in Seq(Values), NEW T,
           \A k \in DOMAIN vs : Root(vs, k) \in T,
           \A p \in T : \A k \in KeysUnder(h, p) : Child(h, p, k) \in T
    PROVE  OccurrencesIn(h, vs) \subseteq T
<1> DEFINE X == OccurrencesIn(h, vs) \ T
           S == {Len(p) : p \in X}
<1> SUFFICES ASSUME X # {} PROVE FALSE
  OBVIOUS
<1>1. S \subseteq Nat /\ S # {}
  BY OccurrenceFacts
<1>2. PICK n \in S : \A m \in S : n <= m
  BY <1>1, LeastNatural
<1>3. PICK p \in X : Len(p) = n
  BY <1>2
<1>4. p \in OccurrencesIn(h, vs) /\ p \notin T /\ p[1].key \in DOMAIN vs /\ Len(p) \in Nat
  BY <1>3, OccurrenceFacts
<1>5. ~ (p = Root(vs, p[1].key))
  BY <1>4
<1>6. /\ Parent(p) \in OccurrencesIn(h, vs) /\ Len(Parent(p)) = Len(p) - 1
      /\ p[Len(p)].key \in KeysUnder(h, Parent(p))
      /\ p = Child(h, Parent(p), p[Len(p)].key)
  BY <1>4, <1>5, ParentFacts
<1>7. Parent(p) \notin T
  BY <1>4, <1>6
<1>8. Len(p) - 1 \in S
  BY <1>6, <1>7
<1>9. n <= Len(p) - 1
  BY <1>2, <1>8
<1> QED
  BY <1>3, <1>4, <1>9

\* A walk over the occurrences: those in W were visited, those in F are still to be.
Walked(h, vs, d, W, F) ==
    /\ W \subseteq OccurrencesIn(h, vs) /\ F \subseteq OccurrencesIn(h, vs)
    /\ IsFiniteSet(W) /\ W \cap F = {}
    /\ \A p \in W \cup F : Len(p) = 1 \/ Parent(p) \in W
    /\ \A p \in W : Len(p) <= d + 1 /\ IsAcyclic(p)
    /\ \A k \in DOMAIN vs : Root(vs, k) \in W \cup F
    /\ \A p \in W : \A k \in KeysUnder(h, p) : Child(h, p, k) \in W \cup F

ChildrenOf(h, p) == {Child(h, p, k) : k \in KeysUnder(h, p)}

\* The children of an occurrence that is still to be visited are new.
LEMMA NewChildren ==
    ASSUME NEW h \in Heaps, NEW vs \in Seq(Values), NEW d, NEW W, NEW F,
           Walked(h, vs, d, W, F), NEW p \in F
    PROVE  /\ ChildrenOf(h, p) \subseteq OccurrencesIn(h, vs)
           /\ \A c \in ChildrenOf(h, p) : Parent(c) = p /\ Len(c) = Len(p) + 1
           /\ ChildrenOf(h, p) \cap (W \cup F) = {}
<1>1. /\ p \in OccurrencesIn(h, vs) /\ p \notin W
      /\ \A q \in W \cup F : Len(q) = 1 \/ Parent(q) \in W
  BY DEF Walked
<1>2. Len(p) \in Nat \ {0}
  BY <1>1, OccurrenceFacts
<1>3. ASSUME NEW c \in ChildrenOf(h, p)
      PROVE  /\ c \in OccurrencesIn(h, vs) /\ Parent(c) = p /\ Len(c) = Len(p) + 1
             /\ c \notin W \cup F
  <2>1. PICK k \in KeysUnder(h, p) : c = Child(h, p, k)
    BY DEF ChildrenOf
  <2>2. c \in OccurrencesIn(h, vs) /\ Parent(c) = p /\ Len(c) = Len(p) + 1
    BY <1>1, <2>1, ChildFacts
  <2>3. Len(c) # 1
    BY <1>2, <2>2
  <2> QED
    BY <1>1, <2>2, <2>3
<1> QED
  BY <1>3

\* An occurrence whose parent was visited and whose value is not above it.
LEMMA AcyclicBelow ==
    ASSUME NEW h, NEW vs \in Seq(Values), NEW p \in OccurrencesIn(h, vs),
           Len(p) = 1 \/ IsAcyclic(Parent(p)), ValueOf(p) \notin Above(p)
    PROVE  IsAcyclic(p)
<1> SUFFICES ASSUME NEW i \in 1 .. Len(p), NEW j \in 1 .. Len(p), i < j
             PROVE  p[i].value # p[j].value
  BY DEF IsAcyclic
<1>1. Len(p) \in Nat \ {0}
  BY OccurrenceFacts
<1>2. CASE j = Len(p)
  <2>1. i \in 1 .. Len(p) - 1
    BY <1>1, <1>2
  <2>2. p[i].value \in Above(p)
    BY <2>1, Zenon DEF Above
  <2>3. p[j].value = ValueOf(p)
    BY <1>2 DEF ValueOf
  <2> QED
    BY <2>2, <2>3
<1>3. CASE j # Len(p)
  <2>1. i \in 1 .. Len(p) - 1 /\ j \in 1 .. Len(p) - 1 /\ Len(p) # 1
    <3> DEFINE n == Len(p)
    <3>1. n \in Nat \ {0} /\ i \in 1 .. n /\ j \in 1 .. n /\ j # n
      BY <1>1, <1>3
    <3> HIDE DEF n
    <3>2. i \in 1 .. n - 1 /\ j \in 1 .. n - 1 /\ n # 1
      BY <3>1
    <3> QED
      BY <3>2 DEF n
  <2>2. /\ Len(Parent(p)) = Len(p) - 1
        /\ \A k \in 1 .. Len(p) - 1 : Parent(p)[k] = p[k]
    BY <2>1, ParentFacts
  <2>3. IsAcyclic(Parent(p))
    BY <2>1
  <2> QED
    BY <2>1, <2>2, <2>3 DEF IsAcyclic
<1> QED
  BY <1>2, <1>3

\* One more occurrence is visited, and its children are to be visited.
LEMMA WalkOn ==
    ASSUME NEW h \in Heaps, NEW vs \in Seq(Values), NEW d, NEW W, NEW F,
           Walked(h, vs, d, W, F), NEW p \in F, Len(p) <= d + 1, ValueOf(p) \notin Above(p)
    PROVE  /\ Walked(h, vs, d, W \cup {p}, (F \ {p}) \cup ChildrenOf(h, p))
           /\ Cardinality(W \cup {p}) = Cardinality(W) + 1
<1> DEFINE C == ChildrenOf(h, p)
           V == W \cup {p}
           G == (F \ {p}) \cup C
<1>1. /\ W \subseteq OccurrencesIn(h, vs) /\ F \subseteq OccurrencesIn(h, vs)
      /\ IsFiniteSet(W) /\ W \cap F = {}
      /\ \A q \in W \cup F : Len(q) = 1 \/ Parent(q) \in W
      /\ \A q \in W : Len(q) <= d + 1 /\ IsAcyclic(q)
      /\ \A k \in DOMAIN vs : Root(vs, k) \in W \cup F
      /\ \A q \in W : \A k \in KeysUnder(h, q) : Child(h, q, k) \in W \cup F
  BY Zenon DEF Walked
<1>2. /\ C \subseteq OccurrencesIn(h, vs) /\ C \cap (W \cup F) = {}
      /\ \A c \in C : Parent(c) = p
  BY NewChildren, Zenon
<1>3. IsAcyclic(p)
  BY <1>1, AcyclicBelow
<1>4. IsFiniteSet(V) /\ Cardinality(V) = Cardinality(W) + 1
  BY <1>1, FS_AddElement
<1>5. \A k \in KeysUnder(h, p) : Child(h, p, k) \in C
  BY Zenon DEF ChildrenOf
<1> HIDE DEF C
<1>6. V \subseteq OccurrencesIn(h, vs) /\ G \subseteq OccurrencesIn(h, vs) /\ V \cap G = {}
  BY <1>1, <1>2
<1>7. W \cup F \subseteq V \cup G
  OBVIOUS
<1>8. \A q \in V \cup G : Len(q) = 1 \/ Parent(q) \in V
  BY <1>1, <1>2
<1>9. \A q \in V : Len(q) <= d + 1 /\ IsAcyclic(q)
  BY <1>1, <1>3
<1>10. \A k \in DOMAIN vs : Root(vs, k) \in V \cup G
  BY <1>1, <1>7, Zenon
<1>11. \A q \in V : \A k \in KeysUnder(h, q) : Child(h, q, k) \in V \cup G
  BY <1>1, <1>5, <1>7, Zenon
<1>12. Walked(h, vs, d, V, G)
  BY <1>4, <1>6, <1>8, <1>9, <1>10, <1>11, Zenon DEF Walked
<1> QED
  BY <1>4, <1>12 DEF C

\* A walk with nothing ahead has visited every occurrence.
LEMMA WalkDone ==
    ASSUME NEW h, NEW vs \in Seq(Values), NEW d, NEW W, Walked(h, vs, d, W, {})
    PROVE  W = OccurrencesIn(h, vs)
<1>1. /\ W \subseteq OccurrencesIn(h, vs)
      /\ \A k \in DOMAIN vs : Root(vs, k) \in W
      /\ \A p \in W : \A k \in KeysUnder(h, p) : Child(h, p, k) \in W
  BY Zenon DEF Walked
<1>2. OccurrencesIn(h, vs) \subseteq W
  BY <1>1, ClosedIsAll
<1> QED
  BY <1>1, <1>2

\* An object with m keys has m children.
LEMMA CountChildren ==
    ASSUME NEW h \in Heaps, NEW vs, NEW p \in OccurrencesIn(h, vs), ValueOf(p) # Leaf
    PROVE  /\ IsFiniteSet(ChildrenOf(h, p))
           /\ Cardinality(ChildrenOf(h, p)) = Len(h[ValueOf(p)])
<1> DEFINE o == ValueOf(p)
           m == Len(h[o])
           C == ChildrenOf(h, p)
           b == [k \in 1 .. m |-> Child(h, p, k)]
<1>1. o \in Objects
  BY OccurrenceFacts DEF Values
<1>2. m \in Nat /\ KeysUnder(h, p) = 1 .. m
  BY <1>1, HeapKeys DEF KeysUnder
<1>3. \A k \in 1 .. m : Child(h, p, k)[Len(Child(h, p, k))].key = k
  BY <1>2, ChildFacts
<1>4. C = {Child(h, p, k) : k \in 1 .. m}
  BY <1>2, Zenon DEF ChildrenOf
<1> HIDE DEF m, C
<1>5. b \in [1 .. m -> C] /\ (\A k \in 1 .. m : b[k] = Child(h, p, k))
  BY <1>4
<1>6. \A c \in C : \E k \in 1 .. m : b[k] = c
  BY <1>4, <1>5
<1>7. \A j, k \in 1 .. m : b[j] = b[k] => j = k
  BY <1>3, <1>5
<1> HIDE DEF b
<1>8. b \in Bijection(1 .. m, C)
  BY <1>5, <1>6, <1>7 DEF Bijection, Injection, Surjection, IsInjective
<1>9. ExistsBijection(1 .. m, C)
  BY <1>8 DEF ExistsBijection
<1>10. IsFiniteSet(1 .. m) /\ Cardinality(1 .. m) = m
  BY <1>2, FS_Interval
<1>11. IsFiniteSet(C) /\ Cardinality(C) = m
  BY <1>9, <1>10, FS_Bijection
<1> QED
  BY <1>11 DEF C, m

\* The objects that are left after frame k of a stack.
LeavesBelow(s, k) == {s[j].value : j \in {i \in FramesIn(s, "leave") : i < k}}

\* Frame k stands for the occurrence p: the objects above p are those left after it.
FrameAt(s, k, p) ==
    /\ Len(p) = s[k].depth + 1
    /\ ValueOf(p) = s[k].value
    /\ Above(p) = LeavesBelow(s, k)

\* The visit frames of a stack stand for the occurrences in F, each for one.
Ahead(s, F, f) ==
    /\ f \in [FramesIn(s, "visit") -> F]
    /\ \A j, k \in FramesIn(s, "visit") : f[j] = f[k] => j = k
    /\ \A p \in F : \E k \in FramesIn(s, "visit") : f[k] = p
    /\ \A k \in FramesIn(s, "visit") : FrameAt(s, k, f[k])

\* What is ahead is as many occurrences as there are visit frames.
LEMMA CountAhead ==
    ASSUME NEW s \in Seq(Frame), NEW F, NEW f, Ahead(s, F, f)
    PROVE  IsFiniteSet(F) /\ Cardinality(F) = Cardinality(FramesIn(s, "visit"))
<1> DEFINE V == FramesIn(s, "visit")
<1>1. f \in Bijection(V, F)
  BY DEF Ahead, Bijection, Injection, Surjection, IsInjective
<1>2. ExistsBijection(V, F)
  BY <1>1 DEF ExistsBijection
<1>3. IsFiniteSet(V)
  BY FramesFinite
<1> QED
  BY <1>2, <1>3, FS_Bijection

\* The frames below one that stays are the same on both stacks.
LEMMA BelowSame ==
    ASSUME NEW s, NEW t, NEW k,
           \A j : j < k => (j \in FramesIn(s, "leave") <=> j \in FramesIn(t, "leave")),
           \A j \in FramesIn(s, "leave") : j < k => t[j] = s[j]
    PROVE  LeavesBelow(t, k) = LeavesBelow(s, k)
<1>1. {i \in FramesIn(t, "leave") : i < k} = {i \in FramesIn(s, "leave") : i < k}
  OBVIOUS
<1> QED
  BY <1>1 DEF LeavesBelow

\* The visit frames below the top frame stand for what they stood for.
LEMMA AheadBelow ==
    ASSUME NEW s \in Seq(Frame), s # << >>, NEW F, NEW f, Ahead(s, F, f),
           NEW t, t = SubSeq(s, 1, Len(s) - 1)
    PROVE  \A k \in FramesIn(t, "visit") :
              k \in FramesIn(s, "visit") /\ k # Len(s) /\ FrameAt(t, k, f[k])
<1> DEFINE n == Len(s)
<1>1. /\ n \in Nat \ {0} /\ DOMAIN s = 1 .. n /\ DOMAIN t = 1 .. n - 1
      /\ \A k \in 1 .. n - 1 : t[k] = s[k]
      /\ \A phase : FramesIn(t, phase) = FramesIn(s, phase) \ {n}
  BY PopFrames, Zenon
<1>2. \A phase : FramesIn(t, phase) \subseteq 1 .. n - 1
  BY <1>1 DEF FramesIn
<1> HIDE DEF n
<1> SUFFICES ASSUME NEW k \in FramesIn(t, "visit")
             PROVE  k \in FramesIn(s, "visit") /\ k # n /\ FrameAt(t, k, f[k])
  BY DEF n
<1>3. k \in FramesIn(s, "visit") /\ k # n /\ k \in 1 .. n - 1
  BY <1>1, <1>2
<1>4. LeavesBelow(t, k) = LeavesBelow(s, k)
  <2>1. ASSUME NEW j, j < k PROVE j \in FramesIn(s, "leave") <=> j \in FramesIn(t, "leave")
    <3>1. j \in FramesIn(s, "leave") => j # n
      BY <1>1, <1>3, <2>1 DEF FramesIn
    <3> QED
      BY <1>1, <3>1, Zenon
  <2>2. ASSUME NEW j \in FramesIn(s, "leave"), j < k PROVE t[j] = s[j]
    <3>1. j \in FramesIn(t, "leave")
      BY <2>1, <2>2
    <3> QED
      BY <1>1, <1>2, <3>1
  <2> QED
    BY <2>1, <2>2, BelowSame
<1>5. FrameAt(s, k, f[k]) /\ t[k] = s[k]
  BY <1>1, <1>3 DEF Ahead
<1> QED
  BY <1>3, <1>4, <1>5 DEF FrameAt

\* Taking off a leave frame.
LEMMA AheadLeft ==
    ASSUME NEW s \in Seq(Frame), s # << >>, NEW F, NEW f, Ahead(s, F, f),
           NEW t, t = SubSeq(s, 1, Len(s) - 1), s[Len(s)].phase = "leave"
    PROVE  Ahead(t, F, f)
<1>1. FramesIn(t, "visit") = FramesIn(s, "visit") \ {Len(s)}
  BY PopFrames
<1>2. Len(s) \notin FramesIn(s, "visit")
  BY DEF FramesIn
<1>3. FramesIn(t, "visit") = FramesIn(s, "visit")
  BY <1>1, <1>2
<1>4. \A k \in FramesIn(t, "visit") : FrameAt(t, k, f[k])
  BY AheadBelow
<1> QED
  BY <1>3, <1>4, Zenon DEF Ahead

\* Taking off a visit frame.
LEMMA AheadVisited ==
    ASSUME NEW s \in Seq(Frame), s # << >>, NEW F, NEW f, Ahead(s, F, f),
           NEW t, t = SubSeq(s, 1, Len(s) - 1), s[Len(s)].phase = "visit"
    PROVE  LET p == f[Len(s)] IN
           /\ p \in F /\ Len(p) = s[Len(s)].depth + 1 /\ ValueOf(p) = s[Len(s)].value
           /\ Above(p) = {s[k].value : k \in FramesIn(s, "leave")}
           /\ Above(p) = LeavesBelow(t, Len(s))
           /\ Ahead(t, F \ {p}, [k \in FramesIn(t, "visit") |-> f[k]])
<1> DEFINE n == Len(s)
           p == f[n]
           V == FramesIn(s, "visit")
           g == [k \in FramesIn(t, "visit") |-> f[k]]
<1>1. /\ n \in Nat \ {0} /\ DOMAIN s = 1 .. n /\ DOMAIN t = 1 .. n - 1
      /\ \A k \in 1 .. n - 1 : t[k] = s[k]
      /\ \A phase : FramesIn(t, phase) = FramesIn(s, phase) \ {n}
  BY PopFrames, Zenon
<1>2. n \in V
  BY <1>1 DEF FramesIn
<1>3. /\ f \in [V -> F]
      /\ \A j, k \in V : f[j] = f[k] => j = k
      /\ \A q \in F : \E k \in V : f[k] = q
      /\ FrameAt(s, n, p)
  BY <1>2, Zenon DEF Ahead
<1>4. n \notin FramesIn(s, "leave") /\ FramesIn(s, "leave") \subseteq 1 .. n - 1
  BY <1>1 DEF FramesIn
<1>5. \A k \in FramesIn(t, "visit") : FrameAt(t, k, f[k])
  BY AheadBelow
<1> HIDE DEF n, V
<1>6. FramesIn(t, "leave") = FramesIn(s, "leave") /\ FramesIn(t, "visit") = V \ {n}
  BY <1>1, <1>4 DEF V
<1>7. /\ {i \in FramesIn(s, "leave") : i < n} = FramesIn(s, "leave")
      /\ \A k \in FramesIn(s, "leave") : t[k] = s[k]
  BY <1>1, <1>4
<1>8. /\ LeavesBelow(s, n) = {s[k].value : k \in FramesIn(s, "leave")}
      /\ LeavesBelow(t, n) = {s[k].value : k \in FramesIn(s, "leave")}
  BY <1>6, <1>7 DEF LeavesBelow
<1>9. /\ p \in F /\ Len(p) = s[n].depth + 1 /\ ValueOf(p) = s[n].value
      /\ Above(p) = LeavesBelow(s, n)
  BY <1>2, <1>3 DEF FrameAt
<1>10. Ahead(t, F \ {p}, g)
  <2>1. /\ g \in [V \ {n} -> F \ {p}]
        /\ \A j, k \in V \ {n} : g[j] = g[k] => j = k
        /\ \A k \in V \ {n} : g[k] = f[k]
    BY <1>2, <1>3, <1>6
  <2>2. \A q \in F \ {p} : \E k \in V \ {n} : g[k] = q
    BY <1>3, <2>1, Zenon
  <2> HIDE DEF g
  <2>3. \A k \in V \ {n} : FrameAt(t, k, g[k])
    BY <1>5, <1>6, <2>1
  <2> QED
    BY <1>6, <2>1, <2>2, <2>3, Zenon DEF Ahead
<1> QED
  BY <1>8, <1>9, <1>10 DEF n

\* Putting on a leave frame and the frames of the keys.
LEMMA AheadPushed ==
    ASSUME NEW h \in Heaps, NEW vs, NEW p \in OccurrencesIn(h, vs), ValueOf(p) # Leaf,
           NEW t \in Seq(Frame), NEW G, NEW g, Ahead(t, G, g),
           G \cap ChildrenOf(h, p) = {}, Above(p) = LeavesBelow(t, Len(t) + 1),
           NEW m, m = Len(h[ValueOf(p)]), NEW leave, leave.value = ValueOf(p),
           NEW w, \A k \in 1 .. m : w[k].depth = Len(p) /\ w[k].value = h[ValueOf(p)][m + 1 - k],
           NEW u, Pushed(u, t, leave, m, w)
    PROVE  \E f : Ahead(u, G \cup ChildrenOf(h, p), f)
<1> DEFINE n == Len(t) + 1
           o == ValueOf(p)
           C == ChildrenOf(h, p)
           V == FramesIn(t, "visit")
           N == n + 1 .. n + m
           key(k) == m + 1 - (k - n)
           f == [k \in FramesIn(u, "visit") |-> IF k < n THEN g[k] ELSE Child(h, p, key(k))]
<1>1. o \in Objects
  BY OccurrenceFacts DEF Values
<1>2. m \in Nat /\ KeysUnder(h, p) = 1 .. m /\ n \in Nat \ {0} /\ DOMAIN t = 1 .. n - 1
  BY <1>1, HeapKeys DEF KeysUnder
<1>3. /\ DOMAIN u = 1 .. n + m /\ u[n] = leave
      /\ \A k \in 1 .. n - 1 : u[k] = t[k]
      /\ \A k \in N : u[k] = w[k - n]
      /\ FramesIn(u, "leave") = FramesIn(t, "leave") \cup {n}
      /\ FramesIn(u, "visit") = V \cup N
  BY Zenon DEF Pushed
<1>4. V \subseteq 1 .. n - 1 /\ FramesIn(t, "leave") \subseteq 1 .. n - 1
  BY <1>2 DEF FramesIn
<1>5. /\ g \in [V -> G]
      /\ \A j, k \in V : g[j] = g[k] => j = k
      /\ \A q \in G : \E k \in V : g[k] = q
      /\ \A k \in V : FrameAt(t, k, g[k])
  BY Zenon DEF Ahead
<1> HIDE DEF n
<1>6. ASSUME NEW k \in N
      PROVE  key(k) \in 1 .. m /\ ~ (k < n) /\ k - n \in 1 .. m /\ m + 1 - (k - n) = key(k)
  <2>1. k - n \in 1 .. m
    BY <1>2
  <2>2. ~ (k < n)
    BY <1>2
  <2>3. key(k) \in 1 .. m
    <3> DEFINE x == k - n
    <3>1. x \in 1 .. m
      BY <2>1
    <3> HIDE DEF x
    <3>2. m + 1 - x \in 1 .. m
      BY <1>2, <3>1
    <3> QED
      BY <3>2 DEF x
  <2> QED
    BY <2>1, <2>2, <2>3, Zenon
<1>7. ASSUME NEW j \in N, NEW k \in N, key(j) = key(k) PROVE j = k
  <2>1. j \in Int /\ k \in Int /\ n \in Int /\ m \in Int
    BY <1>2
  <2>2. m + 1 - (j - n) = m + 1 - (k - n)
    BY <1>7
  <2> HIDE DEF N, key
  <2> QED
    BY <2>1, <2>2
<1>8. ASSUME NEW i \in 1 .. m
      PROVE  n + (m + 1 - i) \in N /\ key(n + (m + 1 - i)) = i
  BY <1>2
<1>9. \A k \in V : k < n
  BY <1>2, <1>4
<1>10. /\ \A k \in V : f[k] = g[k]
       /\ \A k \in N : f[k] = Child(h, p, key(k))
       /\ f = [k \in V \cup N |-> f[k]]
  BY <1>3, <1>6, <1>9
<1> HIDE DEF V, N, key, f, C
<1>11. ASSUME NEW i \in 1 .. m
       PROVE  /\ Child(h, p, i) \in C /\ Child(h, p, i)[Len(Child(h, p, i))].key = i
              /\ Len(Child(h, p, i)) = Len(p) + 1 /\ ValueOf(Child(h, p, i)) = h[o][i]
              /\ Above(Child(h, p, i)) = Above(p) \cup {o}
  <2>1. Child(h, p, i) \in C
    BY <1>2, Zenon DEF C, ChildrenOf
  <2> QED
    BY <1>2, <2>1, ChildFacts
<1>12. f \in [V \cup N -> G \cup C]
  BY <1>5, <1>6, <1>10, <1>11
<1>13. ASSUME NEW j \in V \cup N, NEW k \in V \cup N, f[j] = f[k] PROVE j = k
  <2>1. CASE j \in V /\ k \in V
    BY <1>5, <1>10, <1>13, <2>1
  <2>2. CASE j \in N /\ k \in N
    <3>1. key(j) \in 1 .. m /\ key(k) \in 1 .. m /\ Child(h, p, key(j)) = Child(h, p, key(k))
      BY <1>6, <1>10, <1>13, <2>2
    <3>2. key(j) = key(k)
      BY <1>11, <3>1
    <3> QED
      BY <1>7, <2>2, <3>2
  <2>3. ASSUME NEW a \in V, NEW b \in N PROVE f[a] # f[b]
    <3>1. f[a] \in G /\ f[b] \in C
      BY <1>5, <1>6, <1>10, <1>11
    <3> QED
      BY <3>1 DEF C
  <2> QED
    BY <1>13, <2>1, <2>2, <2>3
<1>14. ASSUME NEW q \in G \cup C PROVE \E k \in V \cup N : f[k] = q
  <2>1. CASE q \in G
    BY <1>5, <1>10, <2>1
  <2>2. CASE q \in C
    <3>1. PICK i \in 1 .. m : q = Child(h, p, i)
      BY <1>2, <2>2, Zenon DEF C, ChildrenOf
    <3> DEFINE k == n + (m + 1 - i)
    <3>2. k \in N /\ key(k) = i
      BY <1>8
    <3> HIDE DEF k
    <3> QED
      BY <1>10, <3>1, <3>2
  <2> QED
    BY <2>1, <2>2
<1>15. ASSUME NEW k \in V \cup N PROVE FrameAt(u, k, f[k])
  <2>1. CASE k \in V
    <3>1. FrameAt(t, k, g[k]) /\ f[k] = g[k] /\ u[k] = t[k] /\ k < n /\ k \in Nat
      BY <1>2, <1>3, <1>4, <1>5, <1>9, <1>10, <2>1
    <3>2. ASSUME NEW j, j < k PROVE j \in FramesIn(t, "leave") <=> j \in FramesIn(u, "leave")
      <4>1. j # n
        BY <1>2, <3>1, <3>2
      <4> QED
        BY <1>3, <4>1
    <3>3. \A j \in FramesIn(t, "leave") : u[j] = t[j]
      BY <1>3, <1>4
    <3>4. LeavesBelow(u, k) = LeavesBelow(t, k)
      BY <3>2, <3>3, BelowSame
    <3> QED
      BY <3>1, <3>4 DEF FrameAt
  <2>2. CASE k \in N
    <3> DEFINE i == key(k)
               c == Child(h, p, i)
    <3>1. i \in 1 .. m /\ f[k] = c /\ k - n \in 1 .. m /\ m + 1 - (k - n) = i
      BY <1>6, <1>10, <2>2
    <3>2. u[k].depth = Len(p) /\ u[k].value = h[o][i]
      BY <1>3, <2>2, <3>1
    <3>3. Len(c) = Len(p) + 1 /\ ValueOf(c) = h[o][i] /\ Above(c) = Above(p) \cup {o}
      BY <1>11, <3>1
    <3> HIDE DEF i, c
    <3>4. LeavesBelow(u, k) = LeavesBelow(t, n) \cup {o}
      <4> DEFINE L == FramesIn(t, "leave")
      <4>1. n < k /\ n \in Nat
        BY <1>2, <2>2 DEF N
      <4>2. {j \in L \cup {n} : j < k} = L \cup {n} /\ {j \in L : j < n} = L
        BY <1>2, <1>4, <2>2 DEF N
      <4>3. \A j \in L : u[j] = t[j]
        BY <1>3, <1>4
      <4> HIDE DEF L
      <4>4. LeavesBelow(u, k) = {u[j].value : j \in L \cup {n}}
        BY <1>3, <4>2 DEF LeavesBelow, L
      <4>5. LeavesBelow(t, n) = {t[j].value : j \in L}
        BY <4>2 DEF LeavesBelow, L
      <4> QED
        BY <1>3, <4>3, <4>4, <4>5
    <3> QED
      BY <3>1, <3>2, <3>3, <3>4 DEF FrameAt, n
  <2> QED
    BY <2>1, <2>2
<1>16. Ahead(u, G \cup C, f)
  BY <1>3, <1>12, <1>13, <1>14, <1>15, Zenon DEF Ahead, V
<1> QED
  BY <1>16 DEF C

\* The arguments, unfolded, are finite trees within both limits: no more values than
\* maxInputNodes, none below level maxInputDepth, no object its own ancestor.
KeepsLimits ==
    LET all == OccurrencesIn(heap, values)
    IN  /\ LimitsAreValid(limits)
        /\ IsFiniteSet(all) /\ Cardinality(all) <= limits.maxInputNodes
        /\ \A p \in all : Len(p) - 1 <= limits.maxInputDepth /\ IsAcyclic(p)

\* While the loop runs: visitedNodes occurrences were visited, the frames are ahead.
WalkInv ==
    \E W, F, f :
        /\ Walked(heap, values, limits.maxInputDepth, W, F)
        /\ visitedNodes = Cardinality(W)
        /\ Ahead(stack, F, f)

\* The verdict says whether the arguments keep the limits.
VerdictIsRight == verdict # "none" => (verdict = "passed" <=> KeepsLimits)

VerdictInv ==
    /\ verdict = "none" => WalkInv
    /\ VerdictIsRight

\* Too many occurrences of any kind break the limits.
LEMMA TooMany ==
    ASSUME limits.maxInputNodes \in Nat, NEW S, S \subseteq OccurrencesIn(heap, values),
           IsFiniteSet(S), Cardinality(S) > limits.maxInputNodes
    PROVE  ~ KeepsLimits
<1> SUFFICES ASSUME KeepsLimits PROVE FALSE
  OBVIOUS
<1> DEFINE all == OccurrencesIn(heap, values)
<1>1. IsFiniteSet(all) /\ Cardinality(all) <= limits.maxInputNodes
  BY DEF KeepsLimits
<1> HIDE DEF all
<1>2. Cardinality(S) <= Cardinality(all)
  BY <1>1, FS_Subset DEF all
<1>3. Cardinality(S) \in Nat /\ Cardinality(all) \in Nat
  BY <1>1, FS_CardinalityType
<1> QED
  BY <1>1, <1>2, <1>3

\* Initially nothing was visited and the arguments are ahead.
LEMMA VerdictInit == Init => VerdictInv
<1> SUFFICES ASSUME Init PROVE VerdictInv
  OBVIOUS
<1>1. /\ heap \in Heaps /\ values \in Seq(Values) /\ visitedNodes = 0
      /\ stack = [k \in DOMAIN values |-> VisitFrame(values[k], 0)]
      /\ verdict = IF LimitsAreValid(limits) THEN "none" ELSE "rejected"
  BY PreflightAssumption DEF Init, Heaps
<1> DEFINE D == DOMAIN values
           f == [k \in D |-> Root(values, k)]
           F == {Root(values, k) : k \in D}
           d == limits.maxInputDepth
<1>2. ASSUME NEW k \in D
      PROVE  /\ Root(values, k) \in OccurrencesIn(heap, values) /\ Len(Root(values, k)) = 1
             /\ Root(values, k)[1].key = k /\ ValueOf(Root(values, k)) = values[k]
             /\ Above(Root(values, k)) = {}
  BY <1>1, RootFacts
<1>3. Walked(heap, values, d, {}, F)
  <2>1. F \subseteq OccurrencesIn(heap, values) /\ \A p \in F : Len(p) = 1
    BY <1>2
  <2>2. \A k \in D : Root(values, k) \in F
    BY Zenon
  <2> HIDE DEF F
  <2> QED
    BY <2>1, <2>2, FS_EmptySet DEF Walked
<1>4. /\ FramesIn(stack, "visit") = D /\ FramesIn(stack, "leave") = {}
      /\ \A k \in D : stack[k].depth = 0 /\ stack[k].value = values[k]
  BY <1>1 DEF FramesIn, VisitFrame
<1>5. Ahead(stack, F, f)
  <2>1. \A k \in D : f[k] = Root(values, k)
    OBVIOUS
  <2>2. f \in [D -> F] /\ \A p \in F : \E k \in D : f[k] = p
    BY Zenon
  <2> HIDE DEF f, F, D
  <2>3. \A j, k \in D : f[j] = f[k] => j = k
    BY <1>2, <2>1
  <2>4. ASSUME NEW k \in D PROVE FrameAt(stack, k, f[k])
    <3>1. LeavesBelow(stack, k) = {}
      BY <1>4 DEF LeavesBelow
    <3>2. Len(f[k]) = 1 /\ ValueOf(f[k]) = values[k] /\ Above(f[k]) = {}
      BY <1>2, <2>1
    <3>3. stack[k].depth = 0 /\ stack[k].value = values[k]
      BY <1>4
    <3> QED
      BY <3>1, <3>2, <3>3 DEF FrameAt
  <2> QED
    BY <1>4, <2>2, <2>3, <2>4, Zenon DEF Ahead
<1>6. visitedNodes = Cardinality({})
  BY <1>1, FS_EmptySet
<1>7. WalkInv
  BY <1>3, <1>5, <1>6 DEF WalkInv
<1>8. verdict # "none" => verdict # "passed" /\ ~ KeepsLimits
  BY <1>1 DEF KeepsLimits
<1> QED
  BY <1>7, <1>8 DEF VerdictInv, VerdictIsRight

\* The types that every step below needs.
LEMMA LoopFacts ==
    ASSUME PreflightInv
    PROVE  /\ heap \in Heaps /\ values \in Seq(Values)
           /\ limits.maxInputNodes \in Nat /\ limits.maxInputDepth \in Nat
           /\ visitedNodes \in Nat
BY PreflightAssumption DEF PreflightInv, Heaps

\* Leaving an object visits nothing.
LEMMA LeaveWalks ==
    ASSUME PreflightInv, WalkInv, Leave
    PROVE  WalkInv'
<1>1. /\ Running /\ stack # << >> /\ Top.phase = "leave" /\ stack' = Popped
      /\ UNCHANGED <<heap, values, limits, visitedNodes>>
  BY DEF Leave, PreflightInv
<1>2. stack \in Seq(Frame) /\ stack[Len(stack)].phase = "leave"
  BY <1>1 DEF Running, Top
<1>3. PICK W, F, f : /\ Walked(heap, values, limits.maxInputDepth, W, F)
                     /\ visitedNodes = Cardinality(W)
                     /\ Ahead(stack, F, f)
  BY DEF WalkInv
<1>4. Ahead(stack', F, f)
  BY <1>1, <1>2, <1>3, AheadLeft DEF Popped
<1> QED
  BY <1>1, <1>3, <1>4 DEF WalkInv

\* The occurrence on top of the stack, and what is ahead besides it.
LEMMA TopOccurrence ==
    ASSUME PreflightInv, Running, stack # << >>, Top.phase = "visit",
           NEW W, NEW F, NEW f, Walked(heap, values, limits.maxInputDepth, W, F), Ahead(stack, F, f)
    PROVE  \E p \in F : /\ p \in OccurrencesIn(heap, values) /\ p \notin W
                        /\ Len(p) = Top.depth + 1 /\ ValueOf(p) = Top.value
                        /\ Above(p) = activePath
                        /\ Above(p) = LeavesBelow(Popped, Len(Popped) + 1)
                        /\ \E g : Ahead(Popped, F \ {p}, g)
<1> DEFINE n == Len(stack)
           p == f[n]
<1>1. /\ stack \in Seq(Frame) /\ stack[n].phase = "visit"
      /\ activePath = {stack[k].value : k \in FramesIn(stack, "leave")}
  BY DEF Running, Top, PathOf
<1>2. Len(Popped) = n - 1 /\ n \in Nat /\ Top = stack[n]
  BY TopFacts
<1>3. Len(Popped) + 1 = n
  <2> HIDE DEF n
  <2> QED
    BY <1>2
<1>4. /\ p \in F /\ Len(p) = stack[n].depth + 1 /\ ValueOf(p) = stack[n].value
      /\ Above(p) = {stack[k].value : k \in FramesIn(stack, "leave")}
      /\ Above(p) = LeavesBelow(Popped, n)
      /\ Ahead(Popped, F \ {p}, [k \in FramesIn(Popped, "visit") |-> f[k]])
  BY <1>1, AheadVisited DEF Popped
<1>5. p \in OccurrencesIn(heap, values) /\ p \notin W
  BY <1>4 DEF Walked
<1>6. \E g : Ahead(Popped, F \ {p}, g)
  BY <1>4
<1> HIDE DEF p, n
<1> QED
  BY <1>1, <1>2, <1>3, <1>4, <1>5, <1>6

\* A leaf is visited.
LEMMA VisitLeafWalks ==
    ASSUME PreflightInv, WalkInv, VisitLeaf
    PROVE  WalkInv'
<1>1. /\ Running /\ stack # << >> /\ Top.phase = "visit" /\ Top.value = Leaf /\ ~ Refuses
      /\ stack' = Popped /\ visitedNodes' = visitedNodes + 1
      /\ UNCHANGED <<heap, values, limits>>
  BY DEF VisitLeaf, PreflightInv
<1> DEFINE d == limits.maxInputDepth
<1>2. PICK W, F, f : /\ Walked(heap, values, d, W, F)
                     /\ visitedNodes = Cardinality(W)
                     /\ Ahead(stack, F, f)
  BY DEF WalkInv
<1>3. PICK p \in F : /\ p \in OccurrencesIn(heap, values)
                     /\ Len(p) = Top.depth + 1 /\ ValueOf(p) = Top.value
                     /\ \E g : Ahead(Popped, F \ {p}, g)
  BY <1>1, <1>2, TopOccurrence
<1>4. PICK g : Ahead(Popped, F \ {p}, g)
  BY <1>3
<1>5. ValueOf(p) \notin Above(p)
  BY <1>1, <1>3, OccurrenceFacts
<1>6. Top.depth \in Nat /\ d \in Nat
  BY <1>1, TopFacts, LoopFacts DEF Frame
<1>7. Len(p) <= d + 1
  <2>1. ~ (Top.depth > d)
    BY <1>1 DEF Refuses, TooDeep
  <2> HIDE DEF d
  <2> QED
    BY <1>3, <1>6, <2>1
<1>8. ChildrenOf(heap, p) = {}
  BY <1>1, <1>3 DEF ChildrenOf, KeysUnder
<1>9. heap \in Heaps /\ values \in Seq(Values)
  BY LoopFacts
<1>10. /\ Walked(heap, values, d, W \cup {p}, (F \ {p}) \cup ChildrenOf(heap, p))
       /\ Cardinality(W \cup {p}) = Cardinality(W) + 1
  BY <1>2, <1>5, <1>7, <1>9, WalkOn
<1>11. Walked(heap, values, d, W \cup {p}, F \ {p})
  <2>1. (F \ {p}) \cup {} = F \ {p}
    OBVIOUS
  <2> QED
    BY <1>8, <1>10, <2>1
<1> QED
  BY <1>1, <1>2, <1>4, <1>10, <1>11 DEF WalkInv

\* An object is visited, and its keys are put ahead.
LEMMA VisitObjectWalks ==
    ASSUME PreflightInv, WalkInv, VisitObject
    PROVE  WalkInv'
<1> DEFINE d == limits.maxInputDepth
           o == Top.value
           keys == heap[o]
           m == Len(keys)
           leave == LeaveFrame(o)
           w == [k \in 1 .. m |-> VisitFrame(keys[m + 1 - k], Top.depth + 1)]
<1>1. /\ Running /\ stack # << >> /\ Top.phase = "visit" /\ o # Leaf /\ ~ Refuses
      /\ stack' = Push(Popped, leave, w) /\ visitedNodes' = visitedNodes + 1
      /\ UNCHANGED <<heap, values, limits>>
  BY DEF VisitObject, PreflightInv, Push
<1>2. PICK W, F, f : /\ Walked(heap, values, d, W, F)
                     /\ visitedNodes = Cardinality(W)
                     /\ Ahead(stack, F, f)
  BY DEF WalkInv
<1>3. PICK p \in F : /\ p \in OccurrencesIn(heap, values)
                     /\ Len(p) = Top.depth + 1 /\ ValueOf(p) = o
                     /\ Above(p) = activePath
                     /\ Above(p) = LeavesBelow(Popped, Len(Popped) + 1)
                     /\ \E g : Ahead(Popped, F \ {p}, g)
  BY <1>1, <1>2, TopOccurrence
<1>4. PICK g : Ahead(Popped, F \ {p}, g)
  BY <1>3
<1>5. /\ Top \in Frame /\ Popped \in Seq(Frame) /\ d \in Nat
      /\ heap \in Heaps /\ values \in Seq(Values)
  BY <1>1, TopFacts, LoopFacts
<1>6. Top.depth \in Nat /\ o \in Objects
  BY <1>1, <1>5 DEF Frame, Values
<1>7. ~ (Top.depth > d) /\ o \notin activePath
  BY <1>1 DEF Refuses, TooDeep
<1>8. Len(p) <= d + 1
  <2> HIDE DEF d
  <2> QED
    BY <1>3, <1>5, <1>6, <1>7
<1>9. ValueOf(p) \notin Above(p)
  BY <1>3, <1>7
<1>10. /\ Walked(heap, values, d, W \cup {p}, (F \ {p}) \cup ChildrenOf(heap, p))
       /\ Cardinality(W \cup {p}) = Cardinality(W) + 1
  BY <1>2, <1>5, <1>8, <1>9, WalkOn
<1>11. (F \ {p}) \cap ChildrenOf(heap, p) = {}
  <2>1. ChildrenOf(heap, p) \cap (W \cup F) = {}
    BY <1>2, <1>5, NewChildren
  <2> QED
    BY <2>1
<1>12. /\ m \in Nat /\ DOMAIN keys = 1 .. m
       /\ \A k \in 1 .. m : keys[k] \in Values
  BY <1>5, <1>6, HeapKeys
<1>13. leave \in Frame /\ leave.phase = "leave" /\ leave.value = o
  BY <1>6 DEF LeaveFrame, Frame, Values
<1> HIDE DEF leave, keys, m
<1>14. ASSUME NEW k \in 1 .. m
       PROVE  /\ w[k] \in Frame /\ w[k].phase = "visit"
              /\ w[k].depth = Top.depth + 1 /\ w[k].value = keys[m + 1 - k]
  <2>1. m + 1 - k \in 1 .. m
    BY <1>12
  <2>2. keys[m + 1 - k] \in Values /\ Top.depth + 1 \in Nat
    BY <1>6, <1>12, <2>1
  <2> QED
    BY <2>2 DEF VisitFrame, Frame
<1>15. w \in [1 .. m -> Frame]
  BY <1>14
<1> HIDE DEF w
<1>16. Pushed(stack', Popped, leave, m, w)
  BY <1>1, <1>5, <1>12, <1>13, <1>14, <1>15, PushFrames
<1>17. \A k \in 1 .. m : w[k].depth = Len(p) /\ w[k].value = heap[ValueOf(p)][m + 1 - k]
  BY <1>3, <1>14 DEF keys
<1>18. m = Len(heap[ValueOf(p)]) /\ leave.value = ValueOf(p) /\ ValueOf(p) # Leaf
  BY <1>1, <1>3, <1>13 DEF m, keys
<1>19. \E e : Ahead(stack', (F \ {p}) \cup ChildrenOf(heap, p), e)
  BY <1>3, <1>4, <1>5, <1>11, <1>16, <1>17, <1>18, AheadPushed
<1> QED
  BY <1>1, <1>2, <1>10, <1>19 DEF WalkInv

\* A refusal is right: an occurrence is too deep or below itself, or there are too many.
LEMMA RefusalIsRight ==
    ASSUME PreflightInv, WalkInv, Running, stack # << >>, Top.phase = "visit", Refuses
    PROVE  ~ KeepsLimits
<1> DEFINE d == limits.maxInputDepth
           most == limits.maxInputNodes
<1>1. PICK W, F, f : /\ Walked(heap, values, d, W, F)
                     /\ visitedNodes = Cardinality(W)
                     /\ Ahead(stack, F, f)
  BY DEF WalkInv
<1>2. PICK p \in F : /\ p \in OccurrencesIn(heap, values) /\ p \notin W
                     /\ Len(p) = Top.depth + 1 /\ ValueOf(p) = Top.value
                     /\ Above(p) = activePath
  BY <1>1, TopOccurrence
<1>3. /\ heap \in Heaps /\ values \in Seq(Values) /\ d \in Nat /\ most \in Nat
      /\ visitedNodes \in Nat /\ Top.depth \in Nat /\ stack \in Seq(Frame)
  BY LoopFacts, TopFacts DEF Frame, Running
<1>4. /\ W \subseteq OccurrencesIn(heap, values) /\ F \subseteq OccurrencesIn(heap, values)
      /\ IsFiniteSet(W) /\ W \cap F = {}
  BY <1>1, Zenon DEF Walked
<1>5. CASE visitedNodes + 1 > most
  <2>1. IsFiniteSet(W \cup {p}) /\ Cardinality(W \cup {p}) = visitedNodes + 1
    BY <1>1, <1>2, <1>4, FS_AddElement
  <2>2. W \cup {p} \subseteq OccurrencesIn(heap, values)
    BY <1>2, <1>4
  <2> QED
    BY <1>3, <1>5, <2>1, <2>2, TooMany
<1>6. CASE Top.depth > d
  <2>1. Len(p) - 1 = Top.depth
    BY <1>2, <1>3
  <2>2. ~ (Len(p) - 1 <= d)
    <3> HIDE DEF d
    <3> QED
      BY <1>3, <1>6, <2>1
  <2> QED
    BY <1>2, <2>2 DEF KeepsLimits
<1>7. CASE Top.value \in activePath
  <2>1. PICK i \in 1 .. Len(p) - 1 : p[i].value = p[Len(p)].value
    BY <1>2, <1>7 DEF Above, ValueOf
  <2>2. Len(p) \in Nat \ {0}
    BY <1>2, OccurrenceFacts
  <2>3. i \in 1 .. Len(p) /\ Len(p) \in 1 .. Len(p) /\ i < Len(p)
    BY <2>2
  <2>4. ~ IsAcyclic(p)
    BY <2>1, <2>3 DEF IsAcyclic
  <2> QED
    BY <1>2, <2>4 DEF KeepsLimits
<1>8. CASE Top.value # Leaf /\ ExceedsNodes(visitedNodes + 1, pendingNodes - 1, Len(heap[Top.value]))
  <2> DEFINE C == ChildrenOf(heap, p)
             m == Len(heap[Top.value])
  <2>1. IsFiniteSet(C) /\ Cardinality(C) = m
    BY <1>2, <1>3, <1>8, CountChildren
  <2>2. IsFiniteSet(F) /\ Cardinality(F) = pendingNodes
    BY <1>1, <1>3, CountAhead DEF Running
  <2>3. C \subseteq OccurrencesIn(heap, values) /\ C \cap (W \cup F) = {}
    BY <1>1, <1>3, NewChildren
  <2>4. Cardinality(C) \in Nat /\ Cardinality(F) \in Nat
    BY <2>1, <2>2, FS_CardinalityType
  <2>5. visitedNodes + 1 + (pendingNodes - 1) + m > most
    BY <1>8 DEF ExceedsNodes
  <2> HIDE DEF C, m, most
  <2>6. IsFiniteSet(W \cup F) /\ Cardinality(W \cup F) = visitedNodes + pendingNodes
    <3>1. /\ IsFiniteSet(W \cup F)
          /\ Cardinality(W \cup F) = Cardinality(W) + Cardinality(F) - Cardinality(W \cap F)
      BY <1>4, <2>2, FS_Union
    <3>2. Cardinality(W \cap F) = 0
      BY <1>4, FS_EmptySet
    <3> QED
      BY <1>1, <1>3, <2>2, <2>4, <3>1, <3>2
  <2> DEFINE S == (W \cup F) \cup C
  <2>7. IsFiniteSet(S) /\ Cardinality(S) = visitedNodes + pendingNodes + m
    <3>1. /\ IsFiniteSet(S)
          /\ Cardinality(S)
               = Cardinality(W \cup F) + Cardinality(C) - Cardinality((W \cup F) \cap C)
      BY <2>1, <2>6, FS_Union
    <3>2. (W \cup F) \cap C = {}
      BY <2>3
    <3>3. Cardinality((W \cup F) \cap C) = 0
      BY <3>2, FS_EmptySet
    <3> QED
      BY <1>3, <2>1, <2>2, <2>4, <2>6, <3>1, <3>3
  <2>8. S \subseteq OccurrencesIn(heap, values)
    BY <1>4, <2>3
  <2> HIDE DEF S
  <2>9. Cardinality(S) > most
    BY <1>3, <2>1, <2>2, <2>4, <2>5, <2>7
  <2> QED
    BY <1>3, <2>7, <2>8, <2>9, TooMany DEF most
<1> QED
  BY <1>5, <1>6, <1>7, <1>8 DEF Refuses, TooDeep

\* An empty stack means that every occurrence was visited, within the limits.
LEMMA PassIsRight ==
    ASSUME PreflightInv, WalkInv, Running, stack = << >>
    PROVE  KeepsLimits
<1> DEFINE d == limits.maxInputDepth
           all == OccurrencesIn(heap, values)
<1>1. PICK W, F, f : /\ Walked(heap, values, d, W, F)
                     /\ visitedNodes = Cardinality(W)
                     /\ Ahead(stack, F, f)
  BY DEF WalkInv
<1>2. FramesIn(stack, "visit") = {}
  BY DEF FramesIn
<1>3. F = {}
  BY <1>1, <1>2, Zenon DEF Ahead
<1>4. values \in Seq(Values) /\ d \in Nat
  BY LoopFacts
<1>5. W = all
  BY <1>1, <1>3, <1>4, WalkDone
<1>6. IsFiniteSet(all) /\ \A p \in all : Len(p) <= d + 1 /\ IsAcyclic(p)
  BY <1>1, <1>5 DEF Walked
<1>7. LimitsAreValid(limits) /\ Cardinality(all) <= limits.maxInputNodes
  BY <1>1, <1>5 DEF Running
<1>8. ASSUME NEW p \in all PROVE Len(p) - 1 <= d
  <2>1. Len(p) \in Nat
    BY OccurrenceFacts
  <2>2. Len(p) <= d + 1
    BY <1>6
  <2> HIDE DEF d
  <2> QED
    BY <1>4, <2>1, <2>2
<1> QED
  BY <1>6, <1>7, <1>8 DEF KeepsLimits

\* Every round keeps the walk, and the last one gives the right verdict.
LEMMA VerdictStep ==
    ASSUME PreflightInv, VerdictInv, [Next]_vars
    PROVE  VerdictInv'
<1>1. CASE UNCHANGED vars
  BY <1>1 DEF vars, VerdictInv, WalkInv, VerdictIsRight, KeepsLimits
<1>2. CASE Leave \/ VisitLeaf \/ VisitObject
  <2>1. verdict = "none" /\ verdict' = "none"
    BY <1>2 DEF Leave, VisitLeaf, VisitObject
  <2>2. WalkInv'
    BY <1>2, <2>1, LeaveWalks, VisitLeafWalks, VisitObjectWalks DEF VerdictInv
  <2> QED
    BY <2>1, <2>2 DEF VerdictInv, VerdictIsRight
<1>3. CASE VisitRefused
  <2>1. /\ verdict = "none" /\ verdict' = "rejected" /\ stack # << >> /\ Refuses
        /\ Top.phase = "visit" /\ UNCHANGED <<heap, values, limits>>
    BY <1>3, Zenon DEF VisitRefused, Reject
  <2>2. ~ KeepsLimits
    BY <2>1, RefusalIsRight DEF VerdictInv, PreflightInv
  <2>3. ~ KeepsLimits'
    BY <2>1, <2>2 DEF KeepsLimits
  <2> QED
    BY <2>1, <2>3 DEF VerdictInv, VerdictIsRight
<1>4. CASE Pass
  <2>1. /\ verdict = "none" /\ verdict' = "passed" /\ stack = << >>
        /\ UNCHANGED <<heap, values, limits>>
    BY <1>4 DEF Pass
  <2>2. KeepsLimits
    BY <2>1, PassIsRight DEF VerdictInv, PreflightInv
  <2>3. KeepsLimits'
    BY <2>1, <2>2 DEF KeepsLimits
  <2> QED
    BY <2>1, <2>3 DEF VerdictInv, VerdictIsRight
<1> QED
  BY <1>1, <1>2, <1>3, <1>4 DEF Next

\* The preflight returns true exactly if the unfolded arguments are finite trees within
\* both limits, for heaps of any size and shape.
THEOREM PreflightVerdictRight == Spec => []VerdictIsRight
<1>1. PreflightInv /\ VerdictInv /\ [Next]_vars => VerdictInv'
  BY VerdictStep
<1>2. VerdictInv => VerdictIsRight
  BY DEF VerdictInv
<1> QED
  BY <1>1, <1>2, VerdictInit, PreflightSafety, PTL DEF Spec

-----------------------------------------------------------------------------
(* The MCP adapter: defaults *)

FieldTypes == {"boolean", "number", "integer", "string", "enum", "array"}

\* A boolean default is a boolean (z.boolean()), and so on: the JavaScript type of
\* a default is given by the type of its field.
DefaultValue(d) ==
    CASE d.type = "boolean" -> Boolean(d.default)
      [] d.type \in {"number", "integer"} -> Number(d.default)
      [] d.type = "array" -> Array(d.default)
      [] OTHER -> String(d.default)

\* A number field: the range, and integrality of an integer's default.
LEMMA NumberDefault ==
    ASSUME NEW d, d.type \in {"number", "integer"}, d.default # Undefined,
           DefinitionIsValid(d)
    PROVE  FieldValueIsValid(DefaultValue(d), d)
<1>1. NumberDefinitionIsValid(d)
  BY DEF DefinitionIsValid
<1>2. DefaultValue(d) = [is |-> "number", value |-> d.default]
  BY DEF DefaultValue, Number
<1>3. /\ d.type = "integer" => d.default % 2 = 0
      /\ AtLeast(d.default, d.minimum)
      /\ AtMost(d.default, d.maximum)
  BY <1>1 DEF NumberDefinitionIsValid
<1> QED
  BY <1>2, <1>3 DEF FieldValueIsValid

\* A string field without options: length and format.
LEMMA StringDefault ==
    ASSUME NEW d, d.type = "string", d.default # Undefined, DefinitionIsValid(d)
    PROVE  FieldValueIsValid(DefaultValue(d), d)
<1>1. StringDefinitionIsValid(d)
  BY DEF DefinitionIsValid
<1>2. DefaultValue(d) = [is |-> "string", value |-> d.default]
  BY DEF DefaultValue, String
<1> QED
  BY <1>1, <1>2 DEF FieldValueIsValid, StringDefinitionIsValid

\* A string field with options: the default is one of them.
LEMMA EnumDefault ==
    ASSUME NEW d, d.type = "enum", d.default # Undefined, DefinitionIsValid(d)
    PROVE  FieldValueIsValid(DefaultValue(d), d)
<1>1. EnumDefinitionIsValid(d)
  BY DEF DefinitionIsValid
<1>2. DefaultValue(d) = [is |-> "string", value |-> d.default]
  BY DEF DefaultValue, String
<1> QED
  BY <1>1, <1>2 DEF FieldValueIsValid, EnumDefinitionIsValid

\* A selection: as many different options as the field asks for.
LEMMA ArrayDefault ==
    ASSUME NEW d, d.type = "array", d.default # Undefined, DefinitionIsValid(d)
    PROVE  FieldValueIsValid(DefaultValue(d), d)
<1>1. MultiEnumDefinitionIsValid(d)
  BY DEF DefinitionIsValid
<1>2. DefaultValue(d) = [is |-> "array", value |-> d.default]
  BY DEF DefaultValue, Array
<1> QED
  BY <1>1, <1>2 DEF FieldValueIsValid, MultiEnumDefinitionIsValid

\* A client that sends a field back as it was prefilled is never turned away for
\* it: every default that the definition schemas admit passes fieldValueIsValid.
THEOREM DefaultsAreAnswerable ==
    ASSUME NEW d, d.type \in FieldTypes, d.default # Undefined, DefinitionIsValid(d)
    PROVE  FieldValueIsValid(DefaultValue(d), d)
<1>1. CASE d.type = "boolean"
  <2>1. DefaultValue(d) = [is |-> "boolean", value |-> d.default]
    BY <1>1 DEF DefaultValue, Boolean
  <2> QED
    BY <1>1, <2>1 DEF FieldValueIsValid
<1>2. CASE d.type \in {"number", "integer"}
  BY <1>2, NumberDefault
<1>3. CASE d.type = "string"
  BY <1>3, StringDefault
<1>4. CASE d.type = "enum"
  BY <1>4, EnumDefault
<1>5. CASE d.type = "array"
  BY <1>5, ArrayDefault
<1> QED
  BY <1>1, <1>2, <1>3, <1>4, <1>5 DEF FieldTypes

\* A client that sends back the defaults of some fields, all the required ones
\* among them, answers a schema that the adapter has projected.
THEOREM DefaultsFillForms ==
    ASSUME NEW schema, RequestedSchemaIsValid(schema),
           NEW names \in SUBSET DOMAIN schema.properties,
           schema.required # Undefined => Elements(schema.required) \subseteq names,
           \A name \in names : /\ schema.properties[name].type \in FieldTypes
                               /\ schema.properties[name].default # Undefined
    PROVE  FormContentIsValid([name \in names |-> DefaultValue(schema.properties[name])], schema)
<1> DEFINE content == [name \in names |-> DefaultValue(schema.properties[name])]
<1>1. \A name \in names : FieldValueIsValid(content[name], schema.properties[name])
  <2> TAKE name \in names
  <2>1. DefinitionIsValid(schema.properties[name])
    BY DEF RequestedSchemaIsValid
  <2>2. FieldValueIsValid(DefaultValue(schema.properties[name]), schema.properties[name])
    BY <2>1, DefaultsAreAnswerable
  <2> QED
    BY <2>2
<1>2. DOMAIN content = names
  OBVIOUS
<1> QED
  BY <1>1, <1>2 DEF FormContentIsValid
=============================================================================
