--------------------------- MODULE CapturesProofs ---------------------------
(***************************************************************************)
(* A capture is never lost to the bound that it is subject to itself.       *)
(***************************************************************************)
EXTENDS Captures, TLAPS, SequenceTheorems

(* A capture keeps a sequence of contents that ends in the captured one, and
   never more than Retain of them if there were no more before. *)
LEMMA CapturedKeeps ==
  ASSUME NEW S, NEW s \in Seq(S), NEW c \in S
  PROVE  /\ Captured(s, c) \in Seq(S)
         /\ \E i \in DOMAIN Captured(s, c) : Captured(s, c)[i] = c
         /\ Len(s) <= Retain => Len(Captured(s, c)) <= Retain
<1> DEFINE t == Append(s, c)
<1>1. /\ t \in Seq(S) /\ Len(t) = Len(s) + 1 /\ t[Len(t)] = c
      /\ Len(s) \in Nat
  BY AppendProperties, LenProperties
<1>2. CASE s # <<>> /\ s[Len(s)] = c
  <2>1. Len(s) \in DOMAIN s
    BY <1>1, <1>2, LenProperties, EmptySeq
  <2> QED
    BY <1>2, <2>1 DEF Captured
<1>3. CASE ~(s # <<>> /\ s[Len(s)] = c)
  <2>1. Captured(s, c) = Newest(t)
    BY <1>3 DEF Captured
  <2>2. CASE Len(t) > Retain
    <3> DEFINE u == SubSeq(t, Len(t) - Retain + 1, Len(t))
    <3>1. Newest(t) = u
      BY <2>2 DEF Newest
    <3>2. /\ u \in Seq(S) /\ Len(u) = Retain /\ u[Retain] = t[Len(t)]
          /\ Retain \in DOMAIN u
      BY <1>1, <2>2, SubSeqProperties, LenProperties, RetainAssumption
    <3> HIDE DEF u
    <3>3. Captured(s, c) = u
      BY <2>1, <3>1
    <3>4. u[Retain] = c
      BY <1>1, <3>2
    <3> QED
      BY <3>2, <3>3, <3>4, RetainAssumption
  <2>3. CASE ~(Len(t) > Retain)
    <3>1. Newest(t) = t
      BY <2>3 DEF Newest
    <3>2. Len(t) \in DOMAIN t
      BY <1>1, LenProperties
    <3> QED
      BY <1>1, <2>1, <2>3, <3>1, <3>2, RetainAssumption
  <2> QED
    BY <2>2, <2>3
<1> QED
  BY <1>2, <1>3
=============================================================================
