---------------------------- MODULE StreamLemmas ----------------------------
(***************************************************************************)
(* Lemmas about append-only streams that the proofs about the stores need: *)
(* what putting a batch behind a stream makes of it, and how the contract  *)
(* of the port reads the batch off again.                                  *)
(***************************************************************************)
EXTENDS Naturals, Sequences, SequenceTheorems, TLAPS

\* Inserting a batch from the end of a stream on is appending it.
LEMMA BatchIsAppended ==
    ASSUME NEW S, NEW s \in Seq(S), NEW t \in Seq(S)
    PROVE  [v \in DOMAIN s \cup (Len(s) + 1 .. Len(s) + Len(t)) |->
              IF v > Len(s) THEN t[v - Len(s)] ELSE s[v]] = s \o t
<1> DEFINE f == [v \in DOMAIN s \cup (Len(s) + 1 .. Len(s) + Len(t)) |->
                   IF v > Len(s) THEN t[v - Len(s)] ELSE s[v]]
<1>1. Len(s) \in Nat /\ Len(t) \in Nat /\ DOMAIN s = 1 .. Len(s)
  BY LenProperties
<1>2. DOMAIN f = 1 .. Len(s) + Len(t)
  BY <1>1
<1>3. /\ s \o t \in Seq(S)
      /\ Len(s \o t) = Len(s) + Len(t)
      /\ \A i \in 1 .. Len(s) + Len(t) :
           (s \o t)[i] = IF i <= Len(s) THEN s[i] ELSE t[i - Len(s)]
  BY ConcatProperties
<1>4. \A i \in 1 .. Len(s) + Len(t) : f[i] = (s \o t)[i]
  BY <1>1, <1>2, <1>3
<1>5. \A i \in 1 .. Len(s) + Len(t) : (s \o t)[i] \in S
  BY <1>3, ElementOfSeq
<1>6. f \in [1 .. Len(s) + Len(t) -> S]
  BY <1>2, <1>4, <1>5
<1>7. s \o t \in [1 .. Len(s) + Len(t) -> S]
  BY <1>3, LenProperties
<1>8. f = s \o t
  BY <1>4, <1>6, <1>7
<1> QED
  BY <1>8

\* What an append leaves of the stream before it.
LEMMA AppendKeeps ==
    ASSUME NEW S, NEW s \in Seq(S), NEW t \in Seq(S)
    PROVE  /\ s \o t \in Seq(S)
           /\ Len(s \o t) = Len(s) + Len(t)
           /\ DOMAIN s = 1 .. Len(s)
           /\ DOMAIN (s \o t) = 1 .. Len(s) + Len(t)
           /\ \A v \in DOMAIN s : v \in DOMAIN (s \o t) /\ (s \o t)[v] = s[v]
           /\ \A i \in 1 .. Len(t) :
                /\ Len(s) + i \in DOMAIN (s \o t)
                /\ (s \o t)[Len(s) + i] = t[i]
<1>1. Len(s) \in Nat /\ Len(t) \in Nat /\ DOMAIN s = 1 .. Len(s)
  BY LenProperties
<1>2. /\ s \o t \in Seq(S)
      /\ Len(s \o t) = Len(s) + Len(t)
      /\ \A i \in 1 .. Len(s) + Len(t) :
           (s \o t)[i] = IF i <= Len(s) THEN s[i] ELSE t[i - Len(s)]
  BY ConcatProperties
<1>3. DOMAIN (s \o t) = 1 .. Len(s) + Len(t)
  BY <1>2, LenProperties
<1> QED
  BY <1>1, <1>2, <1>3

\* The events a step adds, as the port's contract reads them off.
LEMMA SuffixOfAppend ==
    ASSUME NEW S, NEW s \in Seq(S), NEW t \in Seq(S)
    PROVE  SubSeq(s \o t, Len(s) + 1, Len(s \o t)) = t
<1>1. Len(s) \in Nat /\ Len(t) \in Nat /\ Len(s \o t) = Len(s) + Len(t)
  BY LenProperties, ConcatProperties
<1>2. CASE Len(t) = 0
  <2>1. t = << >>
    BY <1>2, EmptySeq
  <2>2. SubSeq(s \o t, Len(s) + 1, Len(s)) = << >>
    BY <1>1, SubSeqEmpty
  <2> QED
    BY <1>1, <1>2, <2>1, <2>2
<1>3. CASE Len(t) # 0
  <2> DEFINE m == Len(s) + 1
             n == Len(s) + Len(t)
  <2>1. m \in Len(s) + 1 .. Len(s) + Len(t) /\ n \in Len(s) + 1 .. Len(s) + Len(t)
    BY <1>1, <1>3
  <2>2. m - Len(s) = 1 /\ n - Len(s) = Len(t)
    BY <1>1
  <2> HIDE DEF m, n
  <2>3. SubSeq(s \o t, m, n) = SubSeq(t, m - Len(s), n - Len(s))
    BY <2>1, SubSeqOfConcat2
  <2>4. SubSeq(t, 1, Len(t)) = t
    BY SubSeqFull
  <2> QED
    BY <1>1, <2>2, <2>3, <2>4 DEF m, n
<1> QED
  BY <1>2, <1>3

=============================================================================
