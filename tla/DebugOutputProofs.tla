------------------------- MODULE DebugOutputProofs --------------------------
(***************************************************************************)
(* Theorems about DebugOutput, for any categories and limits of the gate,  *)
(* and any number of outputs.                                              *)
(***************************************************************************)
EXTENDS DebugOutput, FiniteSetTheorems, SequenceTheorems, TLAPS

Entries == [label : Labels, text : Texts, elided : 0..MaxOutputs]
Buckets == [text : Texts, elided : 0..MaxOutputs]

-----------------------------------------------------------------------------
(* The inductive invariant *)

(* An event about an output is about one that was numbered.                 *)
IsPast(e, numbers) == e.event \in {"output", "outputElided"} => e.seq \in 1..numbers

NumbersArePast ==
    /\ IsPast(reader.next, Len(released))
    /\ \A i \in DOMAIN wire : IsPast(wire[i], Len(released))
    /\ \A i \in DOMAIN page.held : IsPast(page.held[i], Len(released))
    /\ page.acks \subseteq 1..Len(released)
    /\ \A f \in flushing : f.last <= Len(released)

(* There are outputs for all that is numbered or will be, ...               *)
OutputsSuffice ==
    /\ IsFiniteSet(DOMAIN merged)
    /\ Len(released) + Cardinality(DOMAIN merged) <= arrived
    /\ \A k \in DOMAIN merged : merged[k].elided <= arrived

(* ... a bucket is kept for the overflow, ...                               *)
OverflowHasRoom == Overflow \notin DOMAIN merged => Cardinality(DOMAIN merged) < MaxCategories

(* ... and what is held back or numbered has arrived, in this order.        *)
PiecesArrived ==
    /\ \A i \in DOMAIN released : Pieces(released[i]) \subseteq 1..arrived
    /\ \A k \in DOMAIN merged : Pieces(merged[k]) \subseteq 1..arrived
    /\ \A k \in DOMAIN merged : Increases(merged[k].text)

(* The four sets in which pieces are counted are finite.                    *)
CountsAreFinite ==
    /\ IsFiniteSet(Numbered) /\ IsFiniteSet(HeldBack)
    /\ IsFiniteSet(NumberedGaps) /\ IsFiniteSet(HeldGaps)

(* A page that starts the session will come by its end.                     *)
StartHearsTheEnd ==
    page.phase = "starting" =>
        /\ ~page.disconnect
        /\ reader.pc = "done" => Ended \in ToSet(wire) \cup ToSet(page.held)

IInv == /\ TypeOK /\ NumbersArePast /\ OutputsSuffice /\ OverflowHasRoom /\ PiecesArrived
        /\ GateKeepsOrder /\ CountsAreFinite /\ EveryPieceAccounted
        /\ StartHearsTheEnd /\ PageFollowsSession

-----------------------------------------------------------------------------
(* Sequences and the operators of the gate *)

(* Pushing an element on a sequence.                                        *)
LEMMA Pushed ==
    ASSUME NEW S, NEW s \in Seq(S), NEW c \in S
    PROVE  /\ Append(s, c) \in Seq(S)
           /\ DOMAIN s = 1..Len(s) /\ Len(s) \in Nat
           /\ DOMAIN Append(s, c) = DOMAIN s \cup {Len(s) + 1} /\ Len(s) + 1 \notin DOMAIN s
           /\ \A i \in DOMAIN s : Append(s, c)[i] = s[i]
           /\ Append(s, c)[Len(s) + 1] = c
           /\ Len(Append(s, c)) = Len(s) + 1
<1>1. Len(s) \in Nat /\ DOMAIN s = 1..Len(s)
  BY LenProperties
<1>2. /\ Append(s, c) \in Seq(S)
      /\ Len(Append(s, c)) = Len(s) + 1
      /\ \A i \in 1..Len(s) : Append(s, c)[i] = s[i]
      /\ Append(s, c)[Len(s) + 1] = c
  BY AppendProperties
<1>3. DOMAIN Append(s, c) = 1..(Len(s) + 1)
  BY <1>2, LenProperties
<1>4. 1..(Len(s) + 1) = (1..Len(s)) \cup {Len(s) + 1} /\ Len(s) + 1 \notin 1..Len(s)
  BY <1>1
<1> QED BY <1>1, <1>2, <1>3, <1>4

(* Taking the first element off a sequence.                                 *)
LEMMA Popped ==
    ASSUME NEW S, NEW s \in Seq(S), s # <<>>
    PROVE  /\ Tail(s) \in Seq(S) /\ Head(s) \in S /\ Head(s) = s[1]
           /\ Len(s) \in Nat \ {0} /\ DOMAIN s = 1..Len(s) /\ 1 \in DOMAIN s
           /\ Len(Tail(s)) = Len(s) - 1
           /\ DOMAIN Tail(s) = 1..(Len(s) - 1)
           /\ \A i \in DOMAIN Tail(s) : i + 1 \in DOMAIN s /\ Tail(s)[i] = s[i + 1]
           /\ \A i \in DOMAIN s : i # 1 => i - 1 \in DOMAIN Tail(s) /\ Tail(s)[i - 1] = s[i]
<1>1. Len(s) \in Nat \ {0} /\ DOMAIN s = 1..Len(s)
  BY LenProperties, EmptySeq
<1>2. /\ Head(s) \in S /\ Tail(s) \in Seq(S)
      /\ Len(Tail(s)) = Len(s) - 1
      /\ \A i \in 1..Len(Tail(s)) : Tail(s)[i] = s[i + 1]
  BY HeadTailProperties
<1>3. Head(s) = s[1]
  BY <1>1
<1>4. DOMAIN Tail(s) = 1..(Len(s) - 1)
  BY <1>2, LenProperties
<1>5. \A i \in 1..(Len(s) - 1) : i + 1 \in 1..Len(s)
  BY <1>1
<1>6. \A i \in 1..Len(s) : i # 1 => i - 1 \in 1..(Len(s) - 1) /\ (i - 1) + 1 = i
  BY <1>1
<1>7. 1 \in 1..Len(s)
  BY <1>1
<1> QED BY <1>1, <1>2, <1>3, <1>4, <1>5, <1>6, <1>7

(* The greater of the last acknowledged and what is now, of what there is.  *)
LEMMA Acked ==
    ASSUME NEW L \in Nat, NEW a \in 0..L, NEW s \in Nat
    PROVE  Max({a, Min({s, L})}) \in a..L
<1>1. Min({s, L}) \in 0..L
  <2>1. PICK x \in {s, L} : \A y \in {s, L} : x =< y
    OBVIOUS
  <2>2. /\ Min({s, L}) \in {s, L}
        /\ \A y \in {s, L} : Min({s, L}) =< y
    BY <2>1 DEF Min
  <2> QED BY <2>2
<1> DEFINE b == Min({s, L})
<1>2. PICK x \in {a, b} : \A y \in {a, b} : x >= y
  BY <1>1
<1>3. /\ Max({a, b}) \in {a, b}
      /\ \A y \in {a, b} : Max({a, b}) >= y
  BY <1>2 DEF Max
<1> HIDE DEF b
<1>4. b \in 0..L
  BY <1>1 DEF b
<1> QED BY <1>3, <1>4 DEF b

(* The pieces of a text, and those that stay when its oldest is dropped.    *)
LEMMA PushedPieces ==
    ASSUME NEW m \in Buckets, NEW n \in 1..MaxOutputs, Increases(m.text),
           \A p \in Pieces(m) : p < n, m.elided < MaxOutputs
    PROVE  /\ Push(m, n) \in Buckets /\ Increases(Push(m, n).text)
           /\ \/ /\ Pieces(Push(m, n)) = Pieces(m) \cup {n}
                 /\ Push(m, n).elided = m.elided
              \/ /\ \E p \in Pieces(m) : Pieces(Push(m, n)) = (Pieces(m) \ {p}) \cup {n}
                 /\ Push(m, n).elided = m.elided + 1
<1> DEFINE S == 1..MaxOutputs  t == m.text
<1>1. /\ t \in Seq(S) /\ Len(t) <= MergeCap /\ m.elided \in 0..MaxOutputs
      /\ m = [text |-> t, elided |-> m.elided]
  BY DEF Buckets, Texts
<1>2. /\ MaxOutputs \in Nat /\ MergeCap \in Nat \ {0} /\ n \in S
  BY MaxOutputsIsNat, LimitsArePositive
<1>3. /\ Len(t) \in Nat /\ DOMAIN t = 1..Len(t)
      /\ \A i \in DOMAIN t : t[i] \in S /\ t[i] < n
  <2>1. Len(t) \in Nat /\ DOMAIN t = 1..Len(t) /\ t \in [1..Len(t) -> S]
    BY <1>1, LenProperties
  <2>2. \A i \in DOMAIN t : t[i] < n
    BY DEF Pieces, ToSet
  <2> QED BY <2>1, <2>2
<1>4. \A i, j \in DOMAIN t : i < j => t[i] < t[j]
  BY DEF Increases
<1> HIDE DEF S, t
<1>5. CASE Len(t) < MergeCap
  <2> DEFINE u == Append(t, n)
  <2>1. Push(m, n) = [text |-> u, elided |-> m.elided]
    BY <1>1, <1>5 DEF Push, t
  <2>2. /\ u \in Seq(S) /\ DOMAIN u = DOMAIN t \cup {Len(t) + 1} /\ Len(t) + 1 \notin DOMAIN t
        /\ \A i \in DOMAIN t : u[i] = t[i]
        /\ u[Len(t) + 1] = n /\ Len(u) = Len(t) + 1
    BY <1>1, <1>2, Pushed
  <2> HIDE DEF u
  <2>3. Len(u) <= MergeCap
    BY <1>2, <1>3, <1>5, <2>2
  <2>4. Increases(u)
    <3> SUFFICES ASSUME NEW i \in DOMAIN u, NEW j \in DOMAIN u, i < j PROVE u[i] < u[j]
      BY DEF Increases
    <3>1. i \in DOMAIN t
      BY <1>3, <2>2
    <3>2. CASE j \in DOMAIN t
      BY <1>4, <2>2, <3>1, <3>2
    <3>3. CASE j = Len(t) + 1
      BY <1>3, <2>2, <3>1, <3>3
    <3> QED BY <2>2, <3>2, <3>3
  <2>5. ToSet(u) = ToSet(t) \cup {n}
    BY <2>2 DEF ToSet
  <2>6. Push(m, n).text = u /\ Push(m, n).elided = m.elided
    BY <2>1
  <2>7. Push(m, n) \in Buckets
    BY <1>1, <2>1, <2>2, <2>3 DEF Buckets, Texts, S
  <2> QED BY <2>4, <2>5, <2>6, <2>7 DEF Pieces, t
<1>6. CASE ~(Len(t) < MergeCap)
  <2> DEFINE v == Tail(t)  u == Append(v, n)
  <2>1. Push(m, n) = [text |-> u, elided |-> m.elided + 1]
    BY <1>1, <1>6 DEF Push, t
  <2>2. t # <<>>
    BY <1>2, <1>3, <1>6, EmptySeq
  <2>3. /\ v \in Seq(S) /\ Len(t) \in Nat \ {0} /\ 1 \in DOMAIN t
        /\ Len(v) = Len(t) - 1 /\ DOMAIN v = 1..(Len(t) - 1)
        /\ \A i \in DOMAIN v : i + 1 \in DOMAIN t /\ v[i] = t[i + 1]
        /\ \A i \in DOMAIN t : i # 1 => i - 1 \in DOMAIN v /\ v[i - 1] = t[i]
    BY <1>1, <2>2, Popped
  <2> HIDE DEF v
  <2>4. /\ u \in Seq(S) /\ DOMAIN u = DOMAIN v \cup {Len(v) + 1} /\ Len(v) + 1 \notin DOMAIN v
        /\ \A i \in DOMAIN v : u[i] = v[i]
        /\ u[Len(v) + 1] = n /\ Len(u) = Len(v) + 1
    BY <1>2, <2>3, Pushed
  <2> HIDE DEF u
  <2>5. Len(u) <= MergeCap
    BY <1>1, <2>3, <2>4 DEF t
  <2>6. Increases(u)
    <3> SUFFICES ASSUME NEW i \in DOMAIN u, NEW j \in DOMAIN u, i < j PROVE u[i] < u[j]
      BY DEF Increases
    <3>1. i \in DOMAIN v
      BY <2>3, <2>4
    <3>2. i + 1 \in DOMAIN t /\ u[i] = t[i + 1]
      BY <2>3, <2>4, <3>1
    <3>3. CASE j \in DOMAIN v
      <4>1. j + 1 \in DOMAIN t /\ u[j] = t[j + 1]
        BY <2>3, <2>4, <3>3
      <4>2. i + 1 < j + 1
        BY <2>3, <3>1, <3>3
      <4> QED BY <1>4, <3>2, <4>1, <4>2
    <3>4. CASE j = Len(v) + 1
      BY <1>3, <2>4, <3>2, <3>4
    <3> QED BY <2>4, <3>3, <3>4
  <2>7. ToSet(u) = (ToSet(t) \ {t[1]}) \cup {n}
    <3>1. ToSet(u) = ToSet(v) \cup {n}
      BY <2>4 DEF ToSet
    <3>2. \A i \in DOMAIN v : v[i] \in ToSet(t) /\ v[i] # t[1]
      <4> SUFFICES ASSUME NEW i \in DOMAIN v PROVE v[i] \in ToSet(t) /\ v[i] # t[1]
        OBVIOUS
      <4>1. i + 1 \in DOMAIN t /\ 1 < i + 1 /\ v[i] = t[i + 1]
        BY <2>3
      <4>2. t[1] < t[i + 1] /\ t[1] \in Int /\ t[i + 1] \in Int
        BY <1>3, <1>4, <2>3, <4>1 DEF S
      <4> QED BY <4>1, <4>2 DEF ToSet
    <3>3. \A i \in DOMAIN t : t[i] # t[1] => t[i] \in ToSet(v)
      BY <2>3 DEF ToSet
    <3> QED BY <3>1, <3>2, <3>3 DEF ToSet
  <2>8. t[1] \in ToSet(t)
    BY <2>3 DEF ToSet
  <2>9. Push(m, n).text = u /\ Push(m, n).elided = m.elided + 1
    BY <2>1
  <2>10. Push(m, n) \in Buckets
    <3>1. m.elided + 1 \in 0..MaxOutputs
      BY <1>1, <1>2
    <3> QED BY <2>1, <2>4, <2>5, <3>1 DEF Buckets, Texts, S
  <2> QED BY <2>6, <2>7, <2>8, <2>9, <2>10 DEF Pieces, t
<1> QED BY <1>5, <1>6

-----------------------------------------------------------------------------
(* What a step does to the gate *)

(* An output of a category is numbered at once ...                          *)
Numbers(c) ==
    /\ arrived' = arrived + 1 /\ arrived < MaxOutputs
    /\ DOMAIN merged = {} /\ Unacked < High /\ merged' = merged /\ acked' = acked
    /\ released' \in Seq(Entries) /\ Len(released') = Len(released) + 1
    /\ \A i \in 1..Len(released) : released'[i] = released[i]
    /\ released'[Len(released) + 1].label = c
    /\ released'[Len(released) + 1].elided = 0
    /\ released'[Len(released) + 1].text = <<arrived + 1>>
    /\ reader' = [reader EXCEPT !.pc = "emitting", !.next = Output(Len(released) + 1)]

(* ... or held back, under a label and behind what is held there already, ... *)
Holds(k, b) ==
    /\ arrived' = arrived + 1 /\ arrived < MaxOutputs
    /\ UNCHANGED <<released, acked, reader>>
    /\ \/ k \in DOMAIN merged /\ b = merged[k]
       \/ /\ k \notin DOMAIN merged /\ b = [text |-> <<>>, elided |-> 0]
          /\ \/ Overflow \in DOMAIN merged /\ Cardinality(DOMAIN merged) < MaxCategories
             \/ Cardinality(DOMAIN merged) < MaxCategories - 1
             \/ k = Overflow
    /\ DOMAIN merged' = DOMAIN merged \cup {k}
    /\ \A l \in DOMAIN merged : l # k => merged'[l] = merged[l]
    /\ merged'[k] = Push(b, arrived + 1)

(* ... and an acknowledgement numbers what some labels hold.                *)
Drains(m, order) ==
    /\ m <= Cardinality(DOMAIN merged)
    /\ acked' \in acked..Len(released)
    /\ m = 0 \/ Len(released) + m - acked' <= High
    /\ released' \in Seq(Entries) /\ Len(released') = Len(released) + m
    /\ \A i \in 1..Len(released) : released'[i] = released[i]
    /\ \A i \in 1..m : /\ released'[Len(released) + i].label = order[i]
                       /\ released'[Len(released) + i].text = merged[order[i]].text
                       /\ released'[Len(released) + i].elided = merged[order[i]].elided
    /\ DOMAIN merged' = DOMAIN merged \ {order[i] : i \in 1..m}
    /\ \A l \in DOMAIN merged' : merged'[l] = merged[l]
    /\ \/ m = 0 /\ flushing' = flushing
       \/ /\ m > 0
          /\ flushing' = flushing \cup {[next |-> Len(released) + 1, last |-> Len(released) + m,
                                         told |-> FALSE]}
    /\ UNCHANGED <<arrived, reader>>

(* An output that arrives is numbered at once or held back.                 *)
LEMMA NumbersOrHolds ==
    ASSUME TypeOK, NEW c \in Categories, OnOutput(c)
    PROVE  \/ Numbers(c)
           \/ \E k \in Labels, b \in Buckets : Holds(k, b)
<1>1. /\ arrived \in Nat /\ arrived < MaxOutputs /\ MaxOutputs \in Nat /\ MergeCap \in Nat \ {0}
      /\ released \in Seq(Entries) /\ Len(released) \in Nat
      /\ arrived' = arrived + 1 /\ acked' = acked
      /\ c \in Labels
  <2>1. released \in Seq(Entries)
    BY DEF TypeOK, Entries
  <2> QED
    BY <2>1, LenProperties, MaxOutputsIsNat, LimitsArePositive DEF TypeOK, OnOutput, Labels
<1> DEFINE n == arrived + 1
           e == [label |-> c, text |-> <<n>>, elided |-> 0]
<1>2. n \in 1..MaxOutputs
  BY <1>1
<1>3. CASE MayEmit
  <2>1. EmitNow(c, n)
    BY <1>3 DEF OnOutput
  <2>2. merged = <<>> /\ Unacked < High
    BY <1>3 DEF MayEmit
  <2>3. DOMAIN merged = {}
    BY <2>2
  <2>4. e \in Entries
    <3>1. <<n>> \in Seq(1..MaxOutputs) /\ Len(<<n>>) = 1
      BY <1>2
    <3>2. <<n>> \in Texts /\ 0 \in 0..MaxOutputs
      BY <1>1, <3>1 DEF Texts
    <3> QED BY <1>1, <3>2 DEF Entries
  <2>5. released' = Append(released, e)
    BY <2>1 DEF EmitNow
  <2>6. /\ released' \in Seq(Entries) /\ Len(released') = Len(released) + 1
        /\ \A i \in 1..Len(released) : released'[i] = released[i]
        /\ released'[Len(released) + 1] = e
    <3> HIDE DEF e
    <3> QED BY <1>1, <2>4, <2>5, AppendProperties
  <2>7. e.label = c /\ e.elided = 0 /\ e.text = <<arrived + 1>>
    OBVIOUS
  <2>8. /\ merged' = merged
        /\ reader' = [reader EXCEPT !.pc = "emitting", !.next = Output(Len(released) + 1)]
    BY <2>1 DEF EmitNow
  <2>9. Numbers(c)
    <3> HIDE DEF e
    <3> QED BY <1>1, <2>2, <2>3, <2>6, <2>7, <2>8 DEF Numbers
  <2> QED BY <2>9
<1>4. CASE ~MayEmit
  <2> DEFINE k == BucketKey(c)
             b == IF k \in DOMAIN merged THEN merged[k] ELSE [text |-> <<>>, elided |-> 0]
  <2>1. Merge(c, n)
    BY <1>4 DEF OnOutput
  <2>2. /\ merged' = [l \in DOMAIN merged \cup {k} |-> IF l = k THEN Push(b, n) ELSE merged[l]]
        /\ UNCHANGED <<released, reader>>
    BY <2>1 DEF Merge
  <2>3. /\ k \in DOMAIN merged => k = c \/ k = Overflow
        /\ k \notin DOMAIN merged =>
             \/ Overflow \in DOMAIN merged /\ Cardinality(DOMAIN merged) < MaxCategories
             \/ Cardinality(DOMAIN merged) < MaxCategories - 1
             \/ k = Overflow
        /\ k \in {c, Overflow}
    BY DEF BucketKey
  <2>4. k \in Labels
    BY <1>1, <2>3 DEF Labels
  <2>5. b \in Buckets
    <3>1. CASE k \in DOMAIN merged
      BY <3>1 DEF TypeOK, Buckets
    <3>2. CASE k \notin DOMAIN merged
      <4>1. <<>> \in Texts /\ 0 \in 0..MaxOutputs
        BY <1>1, EmptySeq DEF Texts
      <4> QED BY <3>2, <4>1 DEF Buckets
    <3> QED BY <3>1, <3>2
  <2>6. Holds(k, b)
    <3>1. \/ k \in DOMAIN merged /\ b = merged[k]
          \/ k \notin DOMAIN merged /\ b = [text |-> <<>>, elided |-> 0]
      OBVIOUS
    <3> HIDE DEF k, b
    <3>2. /\ DOMAIN merged' = DOMAIN merged \cup {k}
          /\ \A l \in DOMAIN merged : l # k => merged'[l] = merged[l]
          /\ merged'[k] = Push(b, n)
      BY <2>2
    <3> QED BY <1>1, <2>2, <2>3, <3>1, <3>2 DEF Holds
  <2> QED BY <2>4, <2>5, <2>6
<1> QED BY <1>3, <1>4

(* An acknowledgement that meets its session drains.                        *)
LEMMA AckDrains ==
    ASSUME TypeOK, OutputsSuffice, NEW s \in page.acks, AckOutput(s)
    PROVE  \/ UNCHANGED <<gate, flushing, arrived, reader>>
           \/ \E m \in Nat : \E order \in [1..m -> DOMAIN merged] :
                 IsInjective(order) /\ Drains(m, order)
<1>1. /\ released \in Seq(Entries) /\ Len(released) \in Nat /\ acked \in 0..Len(released)
      /\ s \in Nat /\ High \in Nat \ {0}
      /\ Cardinality(DOMAIN merged) \in Nat
      /\ \A k \in DOMAIN merged : k \in Labels /\ merged[k] \in Buckets
  <2>1. released \in Seq(Entries)
    BY DEF TypeOK, Entries
  <2>2. s \in 1..MaxOutputs
    BY DEF TypeOK
  <2>3. Cardinality(DOMAIN merged) \in Nat
    BY FS_CardinalityType DEF OutputsSuffice
  <2> QED
    BY <2>1, <2>2, <2>3, LenProperties, MaxOutputsIsNat, LimitsArePositive DEF TypeOK, Buckets
<1> DEFINE L == Len(released)
           unacked == L - acked'
           credit == IF unacked < High THEN High - unacked ELSE 0
           flushed(order) == [i \in DOMAIN order |->
                                 [label |-> order[i], text |-> merged[order[i]].text,
                                  elided |-> merged[order[i]].elided]]
<1> SUFFICES ASSUME ~UNCHANGED <<gate, flushing>>
             PROVE  \E m \in Nat : \E order \in [1..m -> DOMAIN merged] :
                       IsInjective(order) /\ Drains(m, order)
  BY DEF AckOutput
<1>2. acked' = Max({acked, Min({s, L})})
  BY DEF AckOutput
<1>3. acked' \in acked..L
  BY <1>1, <1>2, Acked
<1>4. PICK order \in Drained(credit) :
         /\ merged' = Remaining(order)
         /\ released' = released \o flushed(order)
         /\ flushing' = IF order = <<>> THEN flushing
                        ELSE flushing \cup {[next |-> L + 1, last |-> L + Len(order),
                                             told |-> FALSE]}
  BY DEF AckOutput
<1>5. credit \in Nat
  <2> DEFINE a == acked'
  <2>1. a \in acked..L
    BY <1>3
  <2> HIDE DEF a
  <2> QED BY <1>1, <2>1 DEF a
<1> DEFINE buckets == Cardinality(DOMAIN merged)
           m == IF credit < buckets THEN credit ELSE buckets
<1>6. m \in Nat /\ m <= buckets /\ m <= credit
  <2> HIDE DEF credit
  <2> QED BY <1>1, <1>5
<1>7. order \in [1..m -> DOMAIN merged] /\ IsInjective(order)
  BY <1>4 DEF Drained
<1>8. m = 0 \/ L + m - acked' <= High
  <2> DEFINE a == acked'
  <2>1. a \in acked..L /\ m <= (IF L - a < High THEN High - (L - a) ELSE 0)
    BY <1>3, <1>6
  <2> HIDE DEF a, m
  <2> QED BY <1>1, <1>6, <2>1 DEF a
<1> HIDE DEF m
<1>9. DOMAIN order = 1..m
  BY <1>7
<1>10. \A i \in 1..m : flushed(order)[i] = [label |-> order[i], text |-> merged[order[i]].text,
                                            elided |-> merged[order[i]].elided]
  BY <1>9
<1>11. flushed(order) \in Seq(Entries) /\ Len(flushed(order)) = m
  <2>1. \A i \in 1..m : flushed(order)[i] \in Entries
    BY <1>1, <1>7, <1>10 DEF Entries, Buckets
  <2>2. DOMAIN flushed(order) = 1..m
    BY <1>9
  <2> DEFINE f == flushed(order)
  <2>3. f = [i \in 1..m |-> f[i]]
    BY <1>9
  <2> HIDE DEF f
  <2>4. f \in [1..m -> Entries]
    BY <2>1, <2>3 DEF f
  <2> QED BY <1>6, <2>2, <2>4 DEF f
<1> DEFINE f == flushed(order)
<1>12. /\ released' \in Seq(Entries) /\ Len(released') = L + m
       /\ \A i \in 1..(L + m) : released'[i] = IF i <= L THEN released[i] ELSE f[i - L]
  <2>1. f \in Seq(Entries) /\ Len(f) = m /\ released' = released \o f
    BY <1>4, <1>11
  <2> HIDE DEF f
  <2> QED BY <1>1, <2>1, ConcatProperties
<1>13. \A i \in 1..L : released'[i] = released[i]
  <2> HIDE DEF f
  <2> QED BY <1>1, <1>6, <1>12
<1>14. \A i \in 1..m : released'[L + i] = [label |-> order[i], text |-> merged[order[i]].text,
                                           elided |-> merged[order[i]].elided]
  <2>1. \A i \in 1..m : L + i \in 1..(L + m) /\ ~(L + i <= L) /\ (L + i) - L = i
    BY <1>1, <1>6
  <2>2. \A i \in 1..m : released'[L + i] = f[i]
    <3> HIDE DEF f
    <3> QED BY <1>12, <2>1
  <2> QED BY <1>10, <2>2
<1>15. /\ DOMAIN merged' = DOMAIN merged \ {order[i] : i \in 1..m}
       /\ \A l \in DOMAIN merged' : merged'[l] = merged[l]
  BY <1>4, <1>9 DEF Remaining, ToSet
<1>16. \/ m = 0 /\ flushing' = flushing
       \/ /\ m > 0
          /\ flushing' = flushing \cup {[next |-> L + 1, last |-> L + m, told |-> FALSE]}
  <2>1. order \in Seq(DOMAIN merged) /\ Len(order) = m
    BY <1>6, <1>7, <1>9
  <2>2. order = <<>> <=> m = 0
    BY <1>6, <2>1, EmptySeq
  <2> QED BY <1>4, <1>6, <2>1, <2>2
<1>17. UNCHANGED <<arrived, reader>>
  BY DEF AckOutput
<1>18. Drains(m, order)
  <2>1. \A i \in 1..m : /\ released'[L + i].label = order[i]
                        /\ released'[L + i].text = merged[order[i]].text
                        /\ released'[L + i].elided = merged[order[i]].elided
    <3> SUFFICES ASSUME NEW i \in 1..m
                 PROVE  /\ released'[L + i].label = order[i]
                        /\ released'[L + i].text = merged[order[i]].text
                        /\ released'[L + i].elided = merged[order[i]].elided
      OBVIOUS
    <3> DEFINE r == released'[L + i]
    <3>1. r = [label |-> order[i], text |-> merged[order[i]].text,
               elided |-> merged[order[i]].elided]
      BY <1>14
    <3> QED BY <3>1
  <2> QED
    BY <1>3, <1>6, <1>8, <1>12, <1>13, <1>15, <1>16, <1>17, <2>1 DEF Drains
<1> QED BY <1>6, <1>7, <1>18

(* Every other step leaves the gate alone.                                  *)
GateStands == UNCHANGED <<arrived, acked, merged, released>>

(* What a step does to the gate, in one of four ways.                       *)
LEMMA GateSteps ==
    ASSUME TypeOK, OutputsSuffice, [Next]_vars
    PROVE  \/ GateStands
           \/ \E c \in Categories : Numbers(c) /\ OnOutput(c)
           \/ \E k \in Labels, b \in Buckets : Holds(k, b) /\ \E c \in Categories : OnOutput(c)
           \/ \E s \in page.acks : \E m \in Nat : \E order \in [1..m -> DOMAIN merged] :
                 IsInjective(order) /\ Drains(m, order) /\ AckOutput(s)
<1>1. ASSUME NEW c \in Categories, OnOutput(c)
      PROVE  \/ Numbers(c)
             \/ \E k \in Labels, b \in Buckets : Holds(k, b)
  BY <1>1, NumbersOrHolds
<1>2. ASSUME NEW s \in page.acks, AckOutput(s)
      PROVE  \/ GateStands
             \/ \E m \in Nat : \E order \in [1..m -> DOMAIN merged] :
                   IsInjective(order) /\ Drains(m, order)
  BY <1>2, AckDrains DEF GateStands, gate
<1>3. CASE UNCHANGED vars
  BY <1>3 DEF vars, gate, GateStands
<1>4. CASE \/ EmitFlushed \/ ReaderEmits \/ ReaderTerminated \/ ReaderEnds \/ AdapterExits
           \/ HandshakeSucceeds \/ HandshakeFails \/ Disconnect \/ Shutdown \/ JoinReader
  BY <1>4 DEF EmitFlushed, ReaderEmits, ReaderTerminated, ReaderEnds, AdapterExits,
              HandshakeSucceeds, HandshakeFails, Disconnect, Shutdown, JoinReader, gate, GateStands
<1>5. CASE Dispatch \/ StartReturns \/ StartFails \/ UserStops \/ OpenConsole
  BY <1>5 DEF Dispatch, StartReturns, StartFails, UserStops, OpenConsole, gate, GateStands
<1> QED BY <1>1, <1>2, <1>3, <1>4, <1>5 DEF Next

(* The entries after numbering, holding and draining, one by one.           *)
LEMMA DrainedEntries ==
    ASSUME NEW m \in Nat, NEW order \in [1..m -> DOMAIN merged], IsInjective(order),
           Drains(m, order), released \in Seq(Entries)
    PROVE  /\ Len(released) \in Nat /\ DOMAIN released = 1..Len(released)
           /\ DOMAIN released' = DOMAIN released \cup {Len(released) + i : i \in 1..m}
           /\ \A i \in DOMAIN released : released'[i] = released[i] /\ i <= Len(released)
           /\ \A i \in 1..m : Len(released) + i \notin DOMAIN released
<1>1. Len(released) \in Nat /\ DOMAIN released = 1..Len(released)
  BY LenProperties
<1>2. released' \in Seq(Entries) /\ Len(released') = Len(released) + m
  BY DEF Drains
<1>3. DOMAIN released' = 1..(Len(released) + m)
  <2> DEFINE r == released'
  <2>1. r \in Seq(Entries) /\ Len(r) = Len(released) + m
    BY <1>2
  <2> HIDE DEF r
  <2>2. DOMAIN r = 1..(Len(released) + m)
    BY <2>1, LenProperties
  <2> QED BY <2>2 DEF r
<1>4. 1..(Len(released) + m) = 1..Len(released) \cup {Len(released) + i : i \in 1..m}
  <2>1. \A i \in 1..(Len(released) + m) :
           i \in 1..Len(released) \/ (i - Len(released) \in 1..m
                                       /\ i = Len(released) + (i - Len(released)))
    BY <1>1
  <2>2. \A i \in 1..m : Len(released) + i \in 1..(Len(released) + m)
    BY <1>1
  <2>3. 1..Len(released) \subseteq 1..(Len(released) + m)
    BY <1>1
  <2> QED BY <2>1, <2>2, <2>3
<1>5. \A i \in 1..m : Len(released) + i \notin 1..Len(released)
  BY <1>1
<1>6. \A i \in 1..Len(released) : released'[i] = released[i] /\ i <= Len(released)
  BY <1>1 DEF Drains
<1> QED BY <1>1, <1>3, <1>4, <1>5, <1>6

(* The entries after an output is numbered at once.                         *)
LEMMA NumberedEntries ==
    ASSUME NEW c, Numbers(c), released \in Seq(Entries)
    PROVE  /\ Len(released) \in Nat /\ DOMAIN released = 1..Len(released)
           /\ DOMAIN released' = DOMAIN released \cup {Len(released) + 1}
           /\ \A i \in DOMAIN released : released'[i] = released[i] /\ i < Len(released) + 1
           /\ Len(released) + 1 \notin DOMAIN released
<1>1. Len(released) \in Nat /\ DOMAIN released = 1..Len(released)
  BY LenProperties
<1>2. released' \in Seq(Entries) /\ Len(released') = Len(released) + 1
  BY DEF Numbers
<1>3. DOMAIN released' = 1..(Len(released) + 1)
  <2> DEFINE r == released'
  <2>1. r \in Seq(Entries) /\ Len(r) = Len(released) + 1
    BY <1>2
  <2> HIDE DEF r
  <2>2. DOMAIN r = 1..(Len(released) + 1)
    BY <2>1, LenProperties
  <2> QED BY <2>2 DEF r
<1>4. 1..(Len(released) + 1) = 1..Len(released) \cup {Len(released) + 1}
  BY <1>1
<1>5. \A i \in 1..Len(released) : released'[i] = released[i] /\ i < Len(released) + 1
  BY <1>1 DEF Numbers
<1>6. Len(released) + 1 \notin 1..Len(released)
  BY <1>1
<1> QED BY <1>1, <1>3, <1>4, <1>5, <1>6

(* The number of labels that hold something after that.                     *)
LEMMA LabelsHolding ==
    ASSUME IsFiniteSet(DOMAIN merged), NEW k \in Labels, NEW b \in Buckets, Holds(k, b)
    PROVE  /\ IsFiniteSet(DOMAIN merged') /\ Cardinality(DOMAIN merged) \in Nat
           /\ Cardinality(DOMAIN merged') =
                 IF k \in DOMAIN merged THEN Cardinality(DOMAIN merged)
                 ELSE Cardinality(DOMAIN merged) + 1
<1>1. DOMAIN merged' = DOMAIN merged \cup {k}
  BY DEF Holds
<1>2. Cardinality(DOMAIN merged) \in Nat
  BY FS_CardinalityType
<1> DEFINE D == DOMAIN merged
<1> HIDE DEF D
<1>3. IsFiniteSet(D)
  BY DEF D
<1>4. /\ IsFiniteSet(D \cup {k})
      /\ Cardinality(D \cup {k}) = IF k \in D THEN Cardinality(D) ELSE Cardinality(D) + 1
  BY <1>3, FS_AddElement
<1> QED BY <1>1, <1>2, <1>4 DEF D

(* The number of labels that hold something after a drain.                  *)
LEMMA LabelsDrained ==
    ASSUME IsFiniteSet(DOMAIN merged), NEW m \in Nat, NEW order \in [1..m -> DOMAIN merged],
           IsInjective(order), Drains(m, order)
    PROVE  /\ IsFiniteSet(DOMAIN merged') /\ Cardinality(DOMAIN merged) \in Nat
           /\ Cardinality(DOMAIN merged') = Cardinality(DOMAIN merged) - m
           /\ Cardinality(DOMAIN merged') \in Nat
<1> DEFINE D == DOMAIN merged
           R == {order[i] : i \in 1..m}
<1>1. DOMAIN merged' = D \ R
  BY DEF Drains
<1>2. R \subseteq D
  OBVIOUS
<1>3. order \in Surjection(1..m, R) /\ order \in Injection(1..m, R)
  BY DEF IsInjective, Surjection, Injection
<1>4. IsFiniteSet(1..m) /\ Cardinality(1..m) = m
  <2>1. IsFiniteSet(1..m) /\ Cardinality(1..m) = IF 1 > m THEN 0 ELSE m - 1 + 1
    BY FS_Interval
  <2> QED BY <2>1
<1> HIDE DEF D, R
<1>5. IsFiniteSet(R) /\ Cardinality(R) = m
  <2>1. /\ IsFiniteSet(R)
        /\ Cardinality(R) = Cardinality(1..m) <=> order \in Injection(1..m, R)
    BY <1>3, <1>4, FS_Surjection
  <2> QED BY <1>3, <1>4, <2>1
<1>6. IsFiniteSet(D) /\ Cardinality(D) \in Nat
  BY FS_CardinalityType DEF D
<1>7. /\ IsFiniteSet(D \ R)
      /\ Cardinality(D \ R) = Cardinality(D) - Cardinality(D \cap R)
  BY <1>6, FS_Difference
<1>8. D \cap R = R
  BY <1>2
<1>9. Cardinality(D \ R) \in Nat
  BY <1>7, FS_CardinalityType
<1> QED BY <1>1, <1>5, <1>6, <1>7, <1>8, <1>9 DEF D

-----------------------------------------------------------------------------
(* The limits and the order of the gate *)

(* Every step leaves enough outputs for what is numbered and held.          *)
LEMMA OutputsStep ==
    ASSUME TypeOK, OutputsSuffice, PiecesArrived, [Next]_vars
    PROVE  OutputsSuffice'
<1>1. /\ arrived \in Nat /\ Len(released) \in Nat /\ IsFiniteSet(DOMAIN merged)
      /\ Cardinality(DOMAIN merged) \in Nat
      /\ Len(released) + Cardinality(DOMAIN merged) <= arrived
      /\ \A k \in DOMAIN merged : merged[k].elided <= arrived /\ merged[k].elided \in Nat
  BY LenProperties, FS_CardinalityType, MaxOutputsIsNat DEF TypeOK, OutputsSuffice
<1>2. CASE GateStands
  BY <1>2 DEF GateStands, OutputsSuffice
<1>3. ASSUME NEW c \in Categories, Numbers(c) PROVE OutputsSuffice'
  <2>1. /\ arrived' = arrived + 1 /\ merged' = merged /\ DOMAIN merged = {}
        /\ Len(released') = Len(released) + 1
    BY <1>3 DEF Numbers
  <2> QED BY <1>1, <2>1 DEF OutputsSuffice
<1>4. ASSUME NEW k \in Labels, NEW b \in Buckets, Holds(k, b), \E c \in Categories : OnOutput(c)
      PROVE  OutputsSuffice'
  <2>1. /\ IsFiniteSet(DOMAIN merged')
        /\ Cardinality(DOMAIN merged') <= Cardinality(DOMAIN merged) + 1
        /\ Cardinality(DOMAIN merged') \in Nat
    BY <1>1, <1>4, LabelsHolding
  <2>2. /\ arrived' = arrived + 1 /\ Len(released') = Len(released)
        /\ DOMAIN merged' = DOMAIN merged \cup {k}
        /\ \A l \in DOMAIN merged : l # k => merged'[l] = merged[l]
        /\ merged'[k] = Push(b, arrived + 1)
    BY <1>4 DEF Holds
  <2>3. b.elided <= arrived /\ b.elided \in Nat
    BY <1>1, <1>4 DEF Holds
  <2>4. merged'[k].elided \in {b.elided, b.elided + 1}
    BY <2>2, <2>3 DEF Push
  <2>5. \A l \in DOMAIN merged' : merged'[l].elided <= arrived'
    BY <1>1, <2>2, <2>3, <2>4
  <2>6. Len(released') + Cardinality(DOMAIN merged') <= arrived'
    BY <1>1, <2>1, <2>2
  <2> QED BY <2>1, <2>5, <2>6 DEF OutputsSuffice
<1>5. ASSUME NEW m \in Nat, NEW order \in [1..m -> DOMAIN merged],
             IsInjective(order), Drains(m, order)
      PROVE  OutputsSuffice'
  <2>1. /\ IsFiniteSet(DOMAIN merged')
        /\ Cardinality(DOMAIN merged') = Cardinality(DOMAIN merged) - m
        /\ Cardinality(DOMAIN merged') \in Nat
    BY <1>1, <1>5, LabelsDrained
  <2>2. /\ arrived' = arrived /\ Len(released') = Len(released) + m
        /\ DOMAIN merged' \subseteq DOMAIN merged
        /\ \A l \in DOMAIN merged' : merged'[l] = merged[l]
    BY <1>5 DEF Drains
  <2> QED BY <1>1, <2>1, <2>2 DEF OutputsSuffice
<1> QED BY <1>2, <1>3, <1>4, <1>5, GateSteps

(* Every step leaves a bucket for the overflow, and no more than the limit. *)
LEMMA RoomStep ==
    ASSUME TypeOK, OutputsSuffice, OverflowHasRoom, [Next]_vars
    PROVE  OverflowHasRoom' /\ Cardinality(DOMAIN merged') <= MaxCategories
<1>1. /\ IsFiniteSet(DOMAIN merged) /\ Cardinality(DOMAIN merged) \in Nat
      /\ Cardinality(DOMAIN merged) <= MaxCategories /\ MaxCategories \in Nat \ {0}
      /\ Overflow \notin DOMAIN merged => Cardinality(DOMAIN merged) < MaxCategories
  BY FS_CardinalityType, LimitsArePositive DEF TypeOK, OutputsSuffice, OverflowHasRoom
<1>2. CASE merged' = merged
  BY <1>1, <1>2 DEF OverflowHasRoom
<1>3. ASSUME NEW k \in Labels, NEW b \in Buckets, Holds(k, b)
      PROVE  OverflowHasRoom' /\ Cardinality(DOMAIN merged') <= MaxCategories
  <2>1. Cardinality(DOMAIN merged') = IF k \in DOMAIN merged THEN Cardinality(DOMAIN merged)
                                      ELSE Cardinality(DOMAIN merged) + 1
    BY <1>1, <1>3, LabelsHolding
  <2>2. DOMAIN merged' = DOMAIN merged \cup {k}
    BY <1>3 DEF Holds
  <2>3. CASE k \in DOMAIN merged
    BY <1>1, <2>1, <2>2, <2>3 DEF OverflowHasRoom
  <2>4. CASE k \notin DOMAIN merged
    <3>1. \/ Overflow \in DOMAIN merged /\ Cardinality(DOMAIN merged) < MaxCategories
          \/ Cardinality(DOMAIN merged) < MaxCategories - 1
          \/ k = Overflow
      BY <1>3, <2>4 DEF Holds
    <3> QED BY <1>1, <2>1, <2>2, <2>4, <3>1 DEF OverflowHasRoom
  <2> QED BY <2>3, <2>4
<1>4. ASSUME NEW m \in Nat, NEW order \in [1..m -> DOMAIN merged],
             IsInjective(order), Drains(m, order)
      PROVE  OverflowHasRoom' /\ Cardinality(DOMAIN merged') <= MaxCategories
  <2>1. Cardinality(DOMAIN merged') = Cardinality(DOMAIN merged) - m
    BY <1>1, <1>4, LabelsDrained
  <2>2. DOMAIN merged' = DOMAIN merged \ {order[i] : i \in 1..m}
    BY <1>4 DEF Drains
  <2>3. m = 0 => DOMAIN merged' = DOMAIN merged
    <3>1. m = 0 => {order[i] : i \in 1..m} = {}
      OBVIOUS
    <3> QED BY <2>2, <3>1
  <2>4. m > 0 => Cardinality(DOMAIN merged') < MaxCategories
    BY <1>1, <2>1
  <2>5. m = 0 => OverflowHasRoom'
    BY <1>1, <2>3 DEF OverflowHasRoom
  <2>6. Cardinality(DOMAIN merged') <= MaxCategories
    BY <1>1, <2>1
  <2> QED BY <2>4, <2>5, <2>6 DEF OverflowHasRoom
<1>5. \A c \in Categories : Numbers(c) => merged' = merged
  BY DEF Numbers
<1> QED BY <1>2, <1>3, <1>4, <1>5, GateSteps DEF GateStands

(* What a step does to the pieces a label holds.                            *)
LEMMA HeldPieces ==
    ASSUME TypeOK, OutputsSuffice, PiecesArrived,
           NEW k \in Labels, NEW b \in Buckets, Holds(k, b)
    PROVE  /\ merged'[k] \in Buckets /\ Increases(merged'[k].text)
           /\ \A p \in Pieces(b) : p \in 1..arrived
           /\ k \in DOMAIN merged => b = merged[k]
           /\ k \notin DOMAIN merged => Pieces(b) = {} /\ b.elided = 0
           /\ arrived \in Nat /\ b.elided \in Nat
           /\ \/ /\ Pieces(merged'[k]) = Pieces(b) \cup {arrived + 1}
                 /\ merged'[k].elided = b.elided
              \/ /\ \E p \in Pieces(b) : Pieces(merged'[k]) = (Pieces(b) \ {p}) \cup {arrived + 1}
                 /\ merged'[k].elided = b.elided + 1
<1>1. /\ arrived \in Nat /\ MaxOutputs \in Nat /\ arrived < MaxOutputs
      /\ b.elided \in Nat /\ merged'[k] = Push(b, arrived + 1)
  BY MaxOutputsIsNat DEF TypeOK, Holds, Buckets
<1>2. k \in DOMAIN merged => b = merged[k]
  BY DEF Holds
<1>3. k \notin DOMAIN merged => /\ b = [text |-> <<>>, elided |-> 0]
                                /\ b.text = <<>> /\ b.elided = 0
  BY DEF Holds
<1>4. k \notin DOMAIN merged => Pieces(b) = {} /\ Increases(b.text)
  <2>1. DOMAIN <<>> = {}
    OBVIOUS
  <2> QED BY <1>3, <2>1 DEF Pieces, ToSet, Increases
<1>5. \A p \in Pieces(b) : p \in 1..arrived
  BY <1>2, <1>4 DEF PiecesArrived
<1>6. Increases(b.text)
  BY <1>2, <1>4 DEF PiecesArrived
<1>7. b.elided <= arrived
  BY <1>1, <1>2, <1>3 DEF OutputsSuffice
<1>8. /\ arrived + 1 \in 1..MaxOutputs /\ b.elided < MaxOutputs
      /\ \A p \in Pieces(b) : p < arrived + 1
  BY <1>1, <1>5, <1>7
<1>9. /\ Push(b, arrived + 1) \in Buckets /\ Increases(Push(b, arrived + 1).text)
      /\ \/ /\ Pieces(Push(b, arrived + 1)) = Pieces(b) \cup {arrived + 1}
            /\ Push(b, arrived + 1).elided = b.elided
         \/ /\ \E p \in Pieces(b) :
                  Pieces(Push(b, arrived + 1)) = (Pieces(b) \ {p}) \cup {arrived + 1}
            /\ Push(b, arrived + 1).elided = b.elided + 1
  BY <1>6, <1>8, PushedPieces
<1> QED BY <1>1, <1>2, <1>3, <1>4, <1>5, <1>9

(* Every step numbers or holds only what has arrived.                       *)
LEMMA PiecesStep ==
    ASSUME TypeOK, OutputsSuffice, PiecesArrived, [Next]_vars
    PROVE  PiecesArrived'
<1>1. released \in Seq(Entries) /\ arrived \in Nat
  BY DEF TypeOK, Entries
<1>2. CASE GateStands
  BY <1>2 DEF GateStands, PiecesArrived
<1>3. ASSUME NEW c \in Categories, Numbers(c) PROVE PiecesArrived'
  <2>1. /\ DOMAIN released' = DOMAIN released \cup {Len(released) + 1}
        /\ \A i \in DOMAIN released : released'[i] = released[i]
    BY <1>1, <1>3, NumberedEntries
  <2>2. /\ arrived' = arrived + 1 /\ merged' = merged /\ DOMAIN merged = {}
        /\ released'[Len(released) + 1].text = <<arrived + 1>>
    BY <1>3 DEF Numbers
  <2>3. Pieces(released'[Len(released) + 1]) = {arrived + 1}
    <3>1. DOMAIN <<arrived + 1>> = {1} /\ <<arrived + 1>>[1] = arrived + 1
      OBVIOUS
    <3>2. ToSet(<<arrived + 1>>) = {arrived + 1}
      BY <3>1 DEF ToSet
    <3> QED BY <2>2, <3>2 DEF Pieces
  <2>4. arrived + 1 \in 1..arrived' /\ 1..arrived \subseteq 1..arrived'
    BY <1>1, <2>2
  <2>5. \A i \in DOMAIN released' : Pieces(released'[i]) \subseteq 1..arrived'
    BY <2>1, <2>3, <2>4 DEF PiecesArrived
  <2> QED BY <2>2, <2>5 DEF PiecesArrived
<1>4. ASSUME NEW k \in Labels, NEW b \in Buckets, Holds(k, b) PROVE PiecesArrived'
  <2>1. /\ arrived' = arrived + 1 /\ released' = released
        /\ DOMAIN merged' = DOMAIN merged \cup {k}
        /\ \A l \in DOMAIN merged : l # k => merged'[l] = merged[l]
    BY <1>4 DEF Holds
  <2>2. /\ Increases(merged'[k].text)
        /\ Pieces(merged'[k]) \subseteq 1..arrived \cup {arrived + 1}
    BY <1>4, HeldPieces
  <2>3. arrived + 1 \in 1..arrived' /\ 1..arrived \subseteq 1..arrived'
    BY <1>1, <2>1
  <2> QED BY <2>1, <2>2, <2>3 DEF PiecesArrived
<1>5. ASSUME NEW m \in Nat, NEW order \in [1..m -> DOMAIN merged],
             IsInjective(order), Drains(m, order)
      PROVE  PiecesArrived'
  <2>1. /\ DOMAIN released' = DOMAIN released \cup {Len(released) + i : i \in 1..m}
        /\ \A i \in DOMAIN released : released'[i] = released[i]
    BY <1>1, <1>5, DrainedEntries
  <2>2. /\ arrived' = arrived /\ DOMAIN merged' \subseteq DOMAIN merged
        /\ \A l \in DOMAIN merged' : merged'[l] = merged[l]
        /\ \A i \in 1..m : released'[Len(released) + i].text = merged[order[i]].text
    BY <1>5 DEF Drains
  <2>3. \A i \in 1..m : Pieces(released'[Len(released) + i]) = Pieces(merged[order[i]])
    BY <2>2 DEF Pieces
  <2>4. \A i \in 1..m : order[i] \in DOMAIN merged
    OBVIOUS
  <2>5. \A i \in DOMAIN released' : Pieces(released'[i]) \subseteq 1..arrived'
    <3>1. \A i \in DOMAIN released : Pieces(released'[i]) \subseteq 1..arrived'
      BY <2>1, <2>2 DEF PiecesArrived
    <3>2. \A i \in 1..m : Pieces(released'[Len(released) + i]) \subseteq 1..arrived'
      BY <2>2, <2>3, <2>4 DEF PiecesArrived
    <3> QED BY <2>1, <3>1, <3>2
  <2> QED BY <2>2, <2>5 DEF PiecesArrived
<1> QED BY <1>2, <1>3, <1>4, <1>5, GateSteps

(* A piece that arrives is later than all that did.                         *)
LEMMA NewIsLater ==
    ASSUME NEW P, P \subseteq 1..arrived, arrived \in Nat
    PROVE  /\ \A p \in P : p < arrived + 1
           /\ arrived + 1 \notin P
OBVIOUS

(* Every step keeps the pieces of a label in order.                         *)
LEMMA OrderStep ==
    ASSUME TypeOK, OutputsSuffice, PiecesArrived, GateKeepsOrder, [Next]_vars
    PROVE  GateKeepsOrder'
<1>1. /\ released \in Seq(Entries) /\ arrived \in Nat /\ Len(released) \in Nat
      /\ DOMAIN released = 1..Len(released)
  <2>1. released \in Seq(Entries)
    BY DEF TypeOK, Entries
  <2> QED BY <2>1, LenProperties DEF TypeOK
<1>2. CASE GateStands
  BY <1>2 DEF GateStands, GateKeepsOrder
<1>3. ASSUME NEW c \in Categories, Numbers(c) PROVE GateKeepsOrder'
  <2> DEFINE L == Len(released) + 1
  <2>1. /\ DOMAIN released' = DOMAIN released \cup {L}
        /\ \A i \in DOMAIN released : released'[i] = released[i] /\ i < L
        /\ L \notin DOMAIN released
    BY <1>1, <1>3, NumberedEntries
  <2>2. merged' = merged /\ DOMAIN merged = {} /\ released'[L].text = <<arrived + 1>>
    BY <1>3 DEF Numbers
  <2>3. /\ DOMAIN <<arrived + 1>> = {1} /\ <<arrived + 1>>[1] = arrived + 1
    OBVIOUS
  <2>4. Pieces(released'[L]) = {arrived + 1}
    <3>1. ToSet(<<arrived + 1>>) = {arrived + 1}
      BY <2>3 DEF ToSet
    <3> QED BY <2>2, <3>1 DEF Pieces
  <2>5. Increases(released'[L].text)
    <3>1. Increases(<<arrived + 1>>)
      BY <2>3 DEF Increases
    <3> QED BY <2>2, <3>1
  <2>6. L \in Nat
    BY <1>1
  <2> HIDE DEF L
  <2>7. \A i \in DOMAIN released' : Increases(released'[i].text)
    BY <2>1, <2>5 DEF GateKeepsOrder
  <2>8. ASSUME NEW i \in DOMAIN released', NEW j \in DOMAIN released', i < j,
               released'[i].label = released'[j].label
        PROVE  Precedes(released'[i], released'[j])
    <3>1. i \in DOMAIN released
      BY <1>1, <2>1, <2>6, <2>8
    <3>2. CASE j \in DOMAIN released
      BY <2>1, <2>8, <3>1, <3>2 DEF GateKeepsOrder
    <3>3. CASE j = L
      <4>1. Pieces(released[i]) \subseteq 1..arrived
        BY <3>1 DEF PiecesArrived
      <4>2. \A p \in Pieces(released[i]) : p < arrived + 1
        BY <1>1, <4>1, NewIsLater
      <4> QED BY <2>1, <2>4, <3>1, <3>3, <4>2 DEF Precedes
    <3> QED BY <2>1, <3>2, <3>3
  <2> QED BY <2>2, <2>7, <2>8 DEF GateKeepsOrder
<1>4. ASSUME NEW k \in Labels, NEW b \in Buckets, Holds(k, b) PROVE GateKeepsOrder'
  <2>1. /\ released' = released
        /\ DOMAIN merged' = DOMAIN merged \cup {k}
        /\ \A l \in DOMAIN merged : l # k => merged'[l] = merged[l]
    BY <1>4 DEF Holds
  <2>2. /\ Pieces(merged'[k]) \subseteq Pieces(b) \cup {arrived + 1}
        /\ k \in DOMAIN merged => b = merged[k]
        /\ k \notin DOMAIN merged => Pieces(b) = {}
    BY <1>4, HeldPieces
  <2>3. ASSUME NEW i \in DOMAIN released, released[i].label \in DOMAIN merged'
        PROVE  Precedes(released[i], merged'[released[i].label])
    <3>1. CASE released[i].label # k
      BY <2>1, <2>3, <3>1 DEF GateKeepsOrder
    <3>2. CASE released[i].label = k
      <4>1. \A n \in Pieces(released[i]), p \in Pieces(b) : n < p
        BY <2>2, <3>2 DEF GateKeepsOrder, Precedes
      <4>2. Pieces(released[i]) \subseteq 1..arrived
        BY DEF PiecesArrived
      <4>3. \A p \in Pieces(released[i]) : p < arrived + 1
        BY <1>1, <4>2, NewIsLater
      <4> QED BY <2>2, <3>2, <4>1, <4>3 DEF Precedes
    <3> QED BY <3>1, <3>2
  <2> QED BY <2>1, <2>3 DEF GateKeepsOrder
<1>5. ASSUME NEW m \in Nat, NEW order \in [1..m -> DOMAIN merged],
             IsInjective(order), Drains(m, order)
      PROVE  GateKeepsOrder'
  <2> DEFINE at(x) == Len(released) + x
  <2>1. /\ DOMAIN released' = DOMAIN released \cup {at(x) : x \in 1..m}
        /\ \A i \in DOMAIN released : released'[i] = released[i] /\ i <= Len(released)
        /\ \A x \in 1..m : at(x) \notin DOMAIN released
    BY <1>1, <1>5, DrainedEntries
  <2>2. /\ \A l \in DOMAIN merged' : merged'[l] = merged[l]
        /\ DOMAIN merged' = DOMAIN merged \ {order[x] : x \in 1..m}
        /\ \A x \in 1..m : /\ released'[at(x)].label = order[x]
                           /\ released'[at(x)].text = merged[order[x]].text
    BY <1>5 DEF Drains
  <2>3. \A x \in 1..m : /\ Pieces(released'[at(x)]) = Pieces(merged[order[x]])
                        /\ order[x] \in DOMAIN merged
    BY <2>2 DEF Pieces
  <2>4. \A x \in 1..m : Increases(released'[at(x)].text)
    BY <2>2, <2>3 DEF PiecesArrived
  <2>5. \A x \in 1..m : at(x) > Len(released) /\ at(x) \in Nat
    BY <1>1
  <2>6. \A x, y \in 1..m : at(x) < at(y) => x # y
    BY <1>1
  <2> HIDE DEF at
  <2>7. \A i \in DOMAIN released' : Increases(released'[i].text)
    BY <2>1, <2>4 DEF GateKeepsOrder
  <2>8. ASSUME NEW i \in DOMAIN released', NEW j \in DOMAIN released', i < j,
               released'[i].label = released'[j].label
        PROVE  Precedes(released'[i], released'[j])
    <3>1. CASE i \in DOMAIN released /\ j \in DOMAIN released
      BY <2>1, <2>8, <3>1 DEF GateKeepsOrder
    <3>2. ASSUME i \in DOMAIN released, NEW y \in 1..m, j = at(y)
          PROVE  Precedes(released'[i], released'[j])
      <4>1. released[i].label = order[y] /\ order[y] \in DOMAIN merged
        BY <2>1, <2>2, <2>3, <2>8, <3>2
      <4>2. Precedes(released[i], merged[order[y]])
        BY <3>2, <4>1 DEF GateKeepsOrder
      <4>3. Pieces(released'[j]) = Pieces(merged[order[y]]) /\ released'[i] = released[i]
        BY <2>1, <2>3, <3>2
      <4> QED BY <4>2, <4>3 DEF Precedes
    <3>3. ASSUME NEW x \in 1..m, i = at(x), j \in DOMAIN released PROVE FALSE
      <4>1. at(x) > Len(released) /\ j <= Len(released) /\ j \in Nat /\ at(x) \in Nat
        BY <1>1, <2>1, <2>5, <3>3
      <4> QED BY <1>1, <2>8, <3>3, <4>1
    <3>4. ASSUME NEW x \in 1..m, NEW y \in 1..m, i = at(x), j = at(y) PROVE FALSE
      <4>1. x # y
        BY <2>6, <2>8, <3>4
      <4>2. order[x] = order[y]
        BY <2>2, <2>8, <3>4
      <4>3. x \in DOMAIN order /\ y \in DOMAIN order
        OBVIOUS
      <4> QED BY <1>5, <4>1, <4>2, <4>3 DEF IsInjective
    <3> QED BY <2>1, <3>1, <3>2, <3>3, <3>4
  <2>9. ASSUME NEW i \in DOMAIN released', released'[i].label \in DOMAIN merged'
        PROVE  Precedes(released'[i], merged'[released'[i].label])
    <3>1. i \in DOMAIN released
      <4>1. ASSUME NEW x \in 1..m, i = at(x) PROVE FALSE
        BY <2>2, <2>9, <4>1
      <4> QED BY <2>1, <4>1
    <3> QED BY <2>1, <2>2, <2>9, <3>1 DEF GateKeepsOrder
  <2> QED BY <2>7, <2>8, <2>9 DEF GateKeepsOrder
<1> QED BY <1>2, <1>3, <1>4, <1>5, GateSteps

-----------------------------------------------------------------------------
(* The accounts of the gate *)

(* What keys stand for, each with its key.                                  *)
Pairs(F) == UNION {{k} \X F[k] : k \in DOMAIN F}

(* Which pairs there are.                                                   *)
LEMMA PairsAre ==
    ASSUME NEW F
    PROVE  /\ \A p \in Pairs(F) : p[1] \in DOMAIN F /\ p[2] \in F[p[1]] /\ p = <<p[1], p[2]>>
           /\ \A k \in DOMAIN F : \A x \in F[k] : <<k, x>> \in Pairs(F)
BY DEF Pairs

(* Two sets that are apart count together.                                  *)
LEMMA ApartCount ==
    ASSUME NEW A, NEW B, IsFiniteSet(A), IsFiniteSet(B), A \cap B = {}
    PROVE  /\ IsFiniteSet(A \cup B) /\ Cardinality(A) \in Nat /\ Cardinality(B) \in Nat
           /\ Cardinality(A \cup B) = Cardinality(A) + Cardinality(B)
<1>1. /\ IsFiniteSet(A \cup B)
      /\ Cardinality(A \cup B) = Cardinality(A) + Cardinality(B) - Cardinality(A \cap B)
  BY FS_Union
<1>2. Cardinality(A \cap B) = 0
  BY FS_EmptySet
<1>3. Cardinality(A) \in Nat /\ Cardinality(B) \in Nat
  BY FS_CardinalityType
<1> QED BY <1>1, <1>2, <1>3

(* Giving some keys other names ...                                         *)
Renames(F, G, F2, G2, L, order, m) ==
    /\ L \in Nat /\ m \in Nat /\ order \in [1..m -> DOMAIN F] /\ IsInjective(order)
    /\ DOMAIN G = 1..L
    /\ \A j : j \in DOMAIN G2 <=> j \in DOMAIN G \/ \E i \in 1..m : j = L + i
    /\ \A i \in DOMAIN G : G2[i] = G[i]
    /\ \A i \in 1..m : G2[L + i] = F[order[i]]
    /\ \A k : k \in DOMAIN F2 <=> k \in DOMAIN F /\ \A i \in 1..m : k # order[i]
    /\ \A k \in DOMAIN F2 : F2[k] = F[k]
    /\ IsFiniteSet(Pairs(F)) /\ IsFiniteSet(Pairs(G))

(* ... keeps the count.                                                     *)
LEMMA PairsMove ==
    ASSUME NEW F, NEW G, NEW F2, NEW G2, NEW L, NEW order, NEW m,
           Renames(F, G, F2, G2, L, order, m)
    PROVE  /\ IsFiniteSet(Pairs(F2)) /\ IsFiniteSet(Pairs(G2))
           /\ Cardinality(Pairs(F)) \in Nat /\ Cardinality(Pairs(G)) \in Nat
           /\ Cardinality(Pairs(F2)) \in Nat /\ Cardinality(Pairs(G2)) \in Nat
           /\ Cardinality(Pairs(G2)) + Cardinality(Pairs(F2))
                = Cardinality(Pairs(G)) + Cardinality(Pairs(F))
<1> USE DEF Renames
<1> DEFINE R == {order[i] : i \in 1..m}
           Go == {p \in Pairs(F) : p[1] \in R}
           Come == {p \in Pairs(G2) : p[1] \notin DOMAIN G}
<1>1. Pairs(F) = Pairs(F2) \cup Go /\ Pairs(F2) \cap Go = {}
  <2>1. \A p \in Pairs(F2) : p \in Pairs(F) /\ p[1] \notin R
    BY PairsAre
  <2>2. \A p \in Pairs(F) : p[1] \notin R => p \in Pairs(F2)
    <3> SUFFICES ASSUME NEW p \in Pairs(F), p[1] \notin R PROVE p \in Pairs(F2)
      OBVIOUS
    <3>1. p[1] \in DOMAIN F /\ p[2] \in F[p[1]] /\ p = <<p[1], p[2]>>
      BY PairsAre
    <3>2. p[1] \in DOMAIN F2 /\ p[2] \in F2[p[1]]
      BY <3>1
    <3>3. <<p[1], p[2]>> \in Pairs(F2)
      BY <3>2, PairsAre
    <3> QED BY <3>1, <3>3
  <2> QED BY <2>1, <2>2
<1>2. Pairs(G2) = Pairs(G) \cup Come /\ Pairs(G) \cap Come = {}
  <2>1. \A p \in Pairs(G) : p \in Pairs(G2) /\ p[1] \in DOMAIN G
    <3> SUFFICES ASSUME NEW p \in Pairs(G) PROVE p \in Pairs(G2) /\ p[1] \in DOMAIN G
      OBVIOUS
    <3>1. p[1] \in DOMAIN G /\ p[2] \in G[p[1]] /\ p = <<p[1], p[2]>>
      BY PairsAre
    <3>2. p[1] \in DOMAIN G2 /\ p[2] \in G2[p[1]]
      BY <3>1
    <3>3. <<p[1], p[2]>> \in Pairs(G2)
      BY <3>2, PairsAre
    <3> QED BY <3>1, <3>3
  <2>2. \A p \in Pairs(G2) : p[1] \in DOMAIN G => p \in Pairs(G)
    <3> SUFFICES ASSUME NEW p \in Pairs(G2), p[1] \in DOMAIN G PROVE p \in Pairs(G)
      OBVIOUS
    <3>1. p[2] \in G2[p[1]] /\ p = <<p[1], p[2]>>
      BY PairsAre
    <3>2. <<p[1], p[2]>> \in Pairs(G)
      BY <3>1, PairsAre
    <3> QED BY <3>1, <3>2
  <2> QED BY <2>1, <2>2
<1> DEFINE f == [p \in Come |-> <<order[p[1] - L], p[2]>>]
<1>3. \A p \in Come : /\ p[1] - L \in 1..m /\ p[1] = L + (p[1] - L)
                      /\ p[2] \in F[order[p[1] - L]] /\ p = <<p[1], p[2]>>
  <2> SUFFICES ASSUME NEW p \in Come
               PROVE  /\ p[1] - L \in 1..m /\ p[1] = L + (p[1] - L)
                      /\ p[2] \in F[order[p[1] - L]] /\ p = <<p[1], p[2]>>
    OBVIOUS
  <2>1. p[1] \in DOMAIN G2 /\ p[2] \in G2[p[1]] /\ p = <<p[1], p[2]>> /\ p[1] \notin DOMAIN G
    BY PairsAre
  <2>2. PICK i \in 1..m : p[1] = L + i
    BY <2>1
  <2>3. p[1] - L = i
    BY <2>2
  <2> QED BY <2>1, <2>2, <2>3
<1>4. f \in [Come -> Go]
  <2> SUFFICES ASSUME NEW p \in Come PROVE <<order[p[1] - L], p[2]>> \in Go
    OBVIOUS
  <2>1. p[1] - L \in 1..m /\ p[2] \in F[order[p[1] - L]]
    BY <1>3
  <2>2. order[p[1] - L] \in DOMAIN F /\ order[p[1] - L] \in R
    BY <2>1
  <2>3. <<order[p[1] - L], p[2]>> \in Pairs(F)
    BY <2>1, <2>2, PairsAre
  <2> QED BY <2>2, <2>3
<1>5. \A p, q \in Come : f[p] = f[q] => p = q
  <2> SUFFICES ASSUME NEW p \in Come, NEW q \in Come, f[p] = f[q] PROVE p = q
    OBVIOUS
  <2>1. order[p[1] - L] = order[q[1] - L] /\ p[2] = q[2]
    OBVIOUS
  <2>2. p[1] - L \in DOMAIN order /\ q[1] - L \in DOMAIN order
    BY <1>3
  <2>3. p[1] - L = q[1] - L
    BY <2>1, <2>2 DEF IsInjective
  <2> QED BY <1>3, <2>1, <2>3
<1>6. \A g \in Go : \E p \in Come : f[p] = g
  <2> SUFFICES ASSUME NEW g \in Go PROVE \E p \in Come : f[p] = g
    OBVIOUS
  <2>1. g[2] \in F[g[1]] /\ g = <<g[1], g[2]>> /\ g[1] \in R
    BY PairsAre
  <2>2. PICK i \in 1..m : g[1] = order[i]
    BY <2>1
  <2>3. L + i \in DOMAIN G2 /\ g[2] \in G2[L + i] /\ L + i \notin DOMAIN G
    BY <2>1, <2>2
  <2>4. <<L + i, g[2]>> \in Pairs(G2)
    BY <2>3, PairsAre
  <2>5. <<L + i, g[2]>> \in Come
    BY <2>3, <2>4
  <2>6. (L + i) - L = i
    OBVIOUS
  <2>7. f[<<L + i, g[2]>>] = g
    BY <2>1, <2>2, <2>5, <2>6
  <2> QED BY <2>5, <2>7
<1> HIDE DEF f
<1>7. f \in Injection(Come, Go) /\ f \in Surjection(Come, Go)
  <2>1. DOMAIN f = Come /\ IsInjective(f)
    BY <1>4, <1>5 DEF IsInjective
  <2> QED BY <1>4, <1>6, <2>1 DEF Injection, Surjection
<1> HIDE DEF Come, Go
<1>8. IsFiniteSet(Pairs(F2)) /\ IsFiniteSet(Go)
  <2>1. Pairs(F2) \in SUBSET Pairs(F) /\ Go \in SUBSET Pairs(F)
    BY <1>1
  <2> QED BY <2>1, FS_Subset
<1>9. IsFiniteSet(Come) /\ Cardinality(Come) = Cardinality(Go)
  BY <1>7, <1>8, FS_Injection
<1>10. /\ Cardinality(Pairs(F)) = Cardinality(Pairs(F2)) + Cardinality(Go)
       /\ Cardinality(Pairs(F2)) \in Nat /\ Cardinality(Go) \in Nat
  <2>1. IsFiniteSet(Pairs(F2)) /\ IsFiniteSet(Go) /\ Pairs(F2) \cap Go = {}
    BY <1>1, <1>8
  <2>2. /\ Cardinality(Pairs(F2)) \in Nat /\ Cardinality(Go) \in Nat
        /\ Cardinality(Pairs(F2) \cup Go) = Cardinality(Pairs(F2)) + Cardinality(Go)
    BY <2>1, ApartCount
  <2> QED BY <1>1, <2>2
<1>11. /\ Cardinality(Pairs(G2)) = Cardinality(Pairs(G)) + Cardinality(Come)
       /\ Cardinality(Pairs(G)) \in Nat /\ IsFiniteSet(Pairs(G2))
  <2>1. IsFiniteSet(Pairs(G)) /\ IsFiniteSet(Come) /\ Pairs(G) \cap Come = {}
    BY <1>2, <1>9
  <2>2. /\ IsFiniteSet(Pairs(G) \cup Come)
        /\ Cardinality(Pairs(G)) \in Nat /\ Cardinality(Come) \in Nat
        /\ Cardinality(Pairs(G) \cup Come) = Cardinality(Pairs(G)) + Cardinality(Come)
    BY <2>1, ApartCount
  <2> QED BY <1>2, <2>2
<1> QED BY <1>8, <1>9, <1>10, <1>11

(* The four counts are counts of pairs.                                     *)
SentPieces == [i \in DOMAIN released |-> Pieces(released[i])]
SentGaps == [i \in DOMAIN released |-> 1..released[i].elided]
KeptPieces == [k \in DOMAIN merged |-> Pieces(merged[k])]
KeptGaps == [k \in DOMAIN merged |-> 1..merged[k].elided]

(* They are, before and after a step.                                       *)
LEMMA CountsArePairs ==
    /\ Numbered = Pairs(SentPieces) /\ Numbered' = Pairs(SentPieces')
    /\ NumberedGaps = Pairs(SentGaps) /\ NumberedGaps' = Pairs(SentGaps')
    /\ HeldBack = Pairs(KeptPieces) /\ HeldBack' = Pairs(KeptPieces')
    /\ HeldGaps = Pairs(KeptGaps) /\ HeldGaps' = Pairs(KeptGaps')
<1>1. Numbered = Pairs(SentPieces) /\ Numbered' = Pairs(SentPieces')
  BY DEF Numbered, Pairs, SentPieces
<1>2. NumberedGaps = Pairs(SentGaps) /\ NumberedGaps' = Pairs(SentGaps')
  BY DEF NumberedGaps, Pairs, SentGaps
<1>3. HeldBack = Pairs(KeptPieces) /\ HeldBack' = Pairs(KeptPieces')
  BY DEF HeldBack, Pairs, KeptPieces
<1>4. HeldGaps = Pairs(KeptGaps) /\ HeldGaps' = Pairs(KeptGaps')
  BY DEF HeldGaps, Pairs, KeptGaps
<1> QED BY <1>1, <1>2, <1>3, <1>4

(* The pieces numbered and held back, ...                                   *)
LEMMA PiecesAre ==
    /\ \A p \in Numbered : /\ p[1] \in DOMAIN released /\ p[2] \in Pieces(released[p[1]])
                           /\ p = <<p[1], p[2]>>
    /\ \A p \in HeldBack : /\ p[1] \in DOMAIN merged /\ p[2] \in Pieces(merged[p[1]])
                           /\ p = <<p[1], p[2]>>
    /\ \A i \in DOMAIN released : \A n \in Pieces(released[i]) : <<i, n>> \in Numbered
    /\ \A k \in DOMAIN merged : \A n \in Pieces(merged[k]) : <<k, n>> \in HeldBack
BY DEF Numbered, HeldBack

(* ... after a step, ...                                                    *)
LEMMA PiecesWillBe ==
    /\ \A p \in Numbered' : /\ p[1] \in DOMAIN released' /\ p[2] \in Pieces(released'[p[1]])
                            /\ p = <<p[1], p[2]>>
    /\ \A p \in HeldBack' : /\ p[1] \in DOMAIN merged' /\ p[2] \in Pieces(merged'[p[1]])
                            /\ p = <<p[1], p[2]>>
    /\ \A i \in DOMAIN released' : \A n \in Pieces(released'[i]) : <<i, n>> \in Numbered'
    /\ \A k \in DOMAIN merged' : \A n \in Pieces(merged'[k]) : <<k, n>> \in HeldBack'
BY DEF Numbered, HeldBack

(* ... and the gaps of what is held back.                                   *)
LEMMA GapsAre ==
    /\ \A p \in HeldGaps : /\ p[1] \in DOMAIN merged /\ p[2] \in 1..merged[p[1]].elided
                           /\ p = <<p[1], p[2]>>
    /\ \A p \in HeldGaps' : /\ p[1] \in DOMAIN merged' /\ p[2] \in 1..merged'[p[1]].elided
                            /\ p = <<p[1], p[2]>>
    /\ \A k \in DOMAIN merged : \A n \in 1..merged[k].elided : <<k, n>> \in HeldGaps
    /\ \A k \in DOMAIN merged' : \A n \in 1..merged'[k].elided : <<k, n>> \in HeldGaps'
BY DEF HeldGaps

(* Each piece is in one place.                                              *)
OnePlace ==
    /\ \A p, q \in Numbered : p[2] = q[2] => p = q
    /\ \A p, q \in HeldBack : p[2] = q[2] => p = q
    /\ \A p \in Numbered, q \in HeldBack : p[2] # q[2]

Counted == Cardinality(Numbered) + Cardinality(HeldBack)
           + Cardinality(NumberedGaps) + Cardinality(HeldGaps)

Accounts == CountsAreFinite /\ OnePlace /\ arrived = Counted

(* The accounts are finite counts in which each piece is accounted for.     *)
LEMMA AccountsAre ==
    /\ Accounts <=> CountsAreFinite /\ EveryPieceAccounted
    /\ Accounts' <=> CountsAreFinite' /\ EveryPieceAccounted'
BY DEF Accounts, OnePlace, Counted, EveryPieceAccounted

(* Finite counts are numbers.                                               *)
LEMMA CountsAreNumbers ==
    ASSUME CountsAreFinite
    PROVE  /\ Cardinality(Numbered) \in Nat /\ Cardinality(HeldBack) \in Nat
           /\ Cardinality(NumberedGaps) \in Nat /\ Cardinality(HeldGaps) \in Nat
BY FS_CardinalityType DEF CountsAreFinite

(* What is numbered at once has its place among what is numbered.           *)
LEMMA NumberAccounts ==
    ASSUME TypeOK, PiecesArrived, Accounts, NEW c \in Categories, Numbers(c)
    PROVE  Accounts'
<1> DEFINE L == Len(released) + 1  n == arrived + 1
<1>1. /\ released \in Seq(Entries) /\ arrived \in Nat
  BY DEF TypeOK, Entries
<1>2. /\ DOMAIN released' = DOMAIN released \cup {L}
      /\ \A i \in DOMAIN released : released'[i] = released[i]
      /\ L \notin DOMAIN released
  BY <1>1, NumberedEntries
<1>3. /\ merged' = merged /\ DOMAIN merged = {} /\ released'[L].text = <<n>>
      /\ released'[L].elided = 0 /\ arrived' = n
  BY DEF Numbers
<1>4. Pieces(released'[L]) = {n}
  <2>1. /\ DOMAIN <<n>> = {1} /\ <<n>>[1] = n
    OBVIOUS
  <2>2. ToSet(<<n>>) = {n}
    BY <2>1 DEF ToSet
  <2> QED BY <1>3, <2>2 DEF Pieces
<1>5. \A p \in Numbered : p[2] < n /\ p[2] # n /\ p[1] # L
  <2> SUFFICES ASSUME NEW p \in Numbered PROVE p[2] < n /\ p[2] # n /\ p[1] # L
    OBVIOUS
  <2>1. p[1] \in DOMAIN released /\ p[2] \in Pieces(released[p[1]])
    BY PiecesAre
  <2>2. p[2] \in 1..arrived
    BY <2>1 DEF PiecesArrived
  <2> QED BY <1>1, <1>2, <2>1, <2>2
<1> HIDE DEF L, n
<1>6. Numbered' = Numbered \cup {<<L, n>>} /\ <<L, n>> \notin Numbered
  <2>1. \A p \in Numbered' : p \in Numbered \cup {<<L, n>>}
    <3> SUFFICES ASSUME NEW p \in Numbered' PROVE p \in Numbered \cup {<<L, n>>}
      OBVIOUS
    <3>1. p[1] \in DOMAIN released' /\ p[2] \in Pieces(released'[p[1]]) /\ p = <<p[1], p[2]>>
      BY PiecesWillBe
    <3>2. CASE p[1] = L
      BY <1>4, <3>1, <3>2
    <3>3. CASE p[1] \in DOMAIN released
      BY <1>2, <3>1, <3>3, PiecesAre
    <3> QED BY <1>2, <3>1, <3>2, <3>3
  <2>2. \A p \in Numbered : p \in Numbered'
    <3> SUFFICES ASSUME NEW p \in Numbered PROVE p \in Numbered'
      OBVIOUS
    <3>1. p[1] \in DOMAIN released /\ p[2] \in Pieces(released[p[1]]) /\ p = <<p[1], p[2]>>
      BY PiecesAre
    <3>2. p[1] \in DOMAIN released' /\ p[2] \in Pieces(released'[p[1]])
      BY <1>2, <3>1
    <3>3. <<p[1], p[2]>> \in Numbered'
      BY <3>2, PiecesWillBe
    <3> QED BY <3>1, <3>3
  <2>3. <<L, n>> \in Numbered'
    BY <1>2, <1>4, PiecesWillBe
  <2>4. <<L, n>> \notin Numbered
    <3>1. <<L, n>>[1] = L
      OBVIOUS
    <3> QED BY <1>5, <3>1
  <2> QED BY <2>1, <2>2, <2>3, <2>4
<1>7. NumberedGaps' = NumberedGaps
  <2>1. 1..released'[L].elided = {}
    BY <1>3
  <2> QED BY <1>2, <2>1 DEF NumberedGaps
<1>8. HeldBack' = HeldBack /\ HeldGaps' = HeldGaps /\ HeldBack = {}
  BY <1>3 DEF HeldBack, HeldGaps
<1>9. /\ IsFiniteSet(Numbered') /\ Cardinality(Numbered') = Cardinality(Numbered) + 1
  <2>1. IsFiniteSet(Numbered)
    BY DEF Accounts, CountsAreFinite
  <2> DEFINE x == <<L, n>>
  <2>2. x \notin Numbered
    BY <1>6
  <2> HIDE DEF x
  <2>3. /\ IsFiniteSet(Numbered \cup {x})
        /\ Cardinality(Numbered \cup {x}) = Cardinality(Numbered) + 1
    BY <2>1, <2>2, FS_AddElement
  <2> QED BY <1>6, <2>3 DEF x
<1>10. CountsAreFinite'
  BY <1>7, <1>8, <1>9 DEF Accounts, CountsAreFinite
<1>11. OnePlace'
  <2>1. ASSUME NEW p \in Numbered', NEW q \in Numbered', p[2] = q[2] PROVE p = q
    <3>1. CASE p \in Numbered /\ q \in Numbered
      BY <2>1, <3>1 DEF Accounts, OnePlace
    <3>2. <<L, n>>[2] = n
      OBVIOUS
    <3> QED BY <1>5, <1>6, <2>1, <3>1, <3>2
  <2> QED BY <1>8, <2>1 DEF OnePlace
<1>12. arrived' = Counted'
  <2>1. /\ Cardinality(Numbered) \in Nat /\ Cardinality(HeldBack) \in Nat
        /\ Cardinality(NumberedGaps) \in Nat /\ Cardinality(HeldGaps) \in Nat
    BY CountsAreNumbers DEF Accounts
  <2>2. arrived = Cardinality(Numbered) + Cardinality(HeldBack)
                  + Cardinality(NumberedGaps) + Cardinality(HeldGaps)
    BY DEF Accounts, Counted
  <2>3. Counted' = Cardinality(Numbered') + Cardinality(HeldBack)
                   + Cardinality(NumberedGaps) + Cardinality(HeldGaps)
    BY <1>7, <1>8 DEF Counted
  <2>4. arrived' = arrived + 1
    BY <1>3 DEF n
  <2> QED BY <1>9, <2>1, <2>2, <2>3, <2>4
<1> QED BY <1>10, <1>11, <1>12 DEF Accounts

(* What is held back has its place among what is held, in exchange for an   *)
(* older piece, which is then counted, or for none.                         *)
LEMMA HoldAccounts ==
    ASSUME TypeOK, OutputsSuffice, PiecesArrived, Accounts,
           NEW k \in Labels, NEW b \in Buckets, Holds(k, b)
    PROVE  Accounts'
<1> DEFINE n == arrived + 1  x == <<k, n>>
<1>1. /\ Numbered' = Numbered /\ NumberedGaps' = NumberedGaps /\ arrived' = n
      /\ DOMAIN merged' = DOMAIN merged \cup {k}
      /\ \A l \in DOMAIN merged : l # k => merged'[l] = merged[l]
  BY DEF Holds, Numbered, NumberedGaps
<1>2. /\ \A p \in Pieces(b) : p \in 1..arrived
      /\ k \in DOMAIN merged => b = merged[k]
      /\ k \notin DOMAIN merged => Pieces(b) = {} /\ b.elided = 0
      /\ arrived \in Nat /\ b.elided \in Nat
      /\ \/ /\ Pieces(merged'[k]) = Pieces(b) \cup {n}
            /\ merged'[k].elided = b.elided
         \/ /\ \E p \in Pieces(b) : Pieces(merged'[k]) = (Pieces(b) \ {p}) \cup {n}
            /\ merged'[k].elided = b.elided + 1
  BY HeldPieces
<1>3. /\ \A p \in Numbered : p[2] \in 1..arrived
      /\ \A p \in HeldBack : p[2] \in 1..arrived
  BY PiecesAre DEF PiecesArrived
<1>4. n \notin 1..arrived /\ n = arrived + 1
  BY <1>2
<1>5. /\ \A p \in HeldBack : p[1] # k => p \in HeldBack'
      /\ \A p \in HeldBack' : p[1] # k => p \in HeldBack
  <2>1. ASSUME NEW p \in HeldBack, p[1] # k PROVE p \in HeldBack'
    <3>1. p[1] \in DOMAIN merged /\ p[2] \in Pieces(merged[p[1]]) /\ p = <<p[1], p[2]>>
      BY PiecesAre
    <3>2. p[1] \in DOMAIN merged' /\ p[2] \in Pieces(merged'[p[1]])
      BY <1>1, <2>1, <3>1
    <3>3. <<p[1], p[2]>> \in HeldBack'
      BY <3>2, PiecesWillBe
    <3> QED BY <3>1, <3>3
  <2>2. ASSUME NEW p \in HeldBack', p[1] # k PROVE p \in HeldBack
    <3>1. p[1] \in DOMAIN merged' /\ p[2] \in Pieces(merged'[p[1]]) /\ p = <<p[1], p[2]>>
      BY PiecesWillBe
    <3>2. p[1] \in DOMAIN merged /\ p[2] \in Pieces(merged[p[1]])
      BY <1>1, <2>2, <3>1
    <3>3. <<p[1], p[2]>> \in HeldBack
      BY <3>2, PiecesAre
    <3> QED BY <3>1, <3>3
  <2> QED BY <2>1, <2>2
<1>6. /\ \A q : <<k, q>> \in HeldBack <=> q \in Pieces(b)
      /\ \A p \in HeldBack : p[1] = k => p = <<k, p[2]>>
  <2>1. ASSUME NEW q, <<k, q>> \in HeldBack PROVE q \in Pieces(b)
    <3>1. <<k, q>>[1] = k /\ <<k, q>>[2] = q
      OBVIOUS
    <3>2. k \in DOMAIN merged /\ q \in Pieces(merged[k])
      BY <2>1, <3>1, PiecesAre
    <3> QED BY <1>2, <3>2
  <2>2. ASSUME NEW q, q \in Pieces(b) PROVE <<k, q>> \in HeldBack
    <3>1. k \in DOMAIN merged /\ q \in Pieces(merged[k])
      BY <1>2, <2>2
    <3> QED BY <3>1, PiecesAre
  <2>3. \A p \in HeldBack : p[1] = k => p = <<k, p[2]>>
    BY PiecesAre
  <2> QED BY <2>1, <2>2, <2>3
<1>7. /\ \A q : <<k, q>> \in HeldBack' <=> q \in Pieces(merged'[k])
      /\ \A p \in HeldBack' : p[1] = k => p = <<k, p[2]>>
  <2>1. ASSUME NEW q, <<k, q>> \in HeldBack' PROVE q \in Pieces(merged'[k])
    <3>1. <<k, q>>[1] = k /\ <<k, q>>[2] = q
      OBVIOUS
    <3> QED BY <2>1, <3>1, PiecesWillBe
  <2>2. ASSUME NEW q, q \in Pieces(merged'[k]) PROVE <<k, q>> \in HeldBack'
    <3>1. k \in DOMAIN merged'
      BY <1>1
    <3> QED BY <2>2, <3>1, PiecesWillBe
  <2>3. \A p \in HeldBack' : p[1] = k => p = <<k, p[2]>>
    BY PiecesWillBe
  <2> QED BY <2>1, <2>2, <2>3
<1>8. /\ \A p \in HeldGaps : p[1] # k => p \in HeldGaps'
      /\ \A p \in HeldGaps' : p[1] # k => p \in HeldGaps
  <2>1. ASSUME NEW p \in HeldGaps, p[1] # k PROVE p \in HeldGaps'
    <3>1. p[1] \in DOMAIN merged /\ p[2] \in 1..merged[p[1]].elided /\ p = <<p[1], p[2]>>
      BY GapsAre
    <3>2. p[1] \in DOMAIN merged' /\ p[2] \in 1..merged'[p[1]].elided
      BY <1>1, <2>1, <3>1
    <3>3. <<p[1], p[2]>> \in HeldGaps'
      BY <3>2, GapsAre
    <3> QED BY <3>1, <3>3
  <2>2. ASSUME NEW p \in HeldGaps', p[1] # k PROVE p \in HeldGaps
    <3>1. p[1] \in DOMAIN merged' /\ p[2] \in 1..merged'[p[1]].elided /\ p = <<p[1], p[2]>>
      BY GapsAre
    <3>2. p[1] \in DOMAIN merged /\ p[2] \in 1..merged[p[1]].elided
      BY <1>1, <2>2, <3>1
    <3>3. <<p[1], p[2]>> \in HeldGaps
      BY <3>2, GapsAre
    <3> QED BY <3>1, <3>3
  <2> QED BY <2>1, <2>2
<1>9. /\ \A q : <<k, q>> \in HeldGaps <=> q \in 1..b.elided
      /\ \A p \in HeldGaps : p[1] = k => p = <<k, p[2]>>
  <2>1. ASSUME NEW q, <<k, q>> \in HeldGaps PROVE q \in 1..b.elided
    <3>1. <<k, q>>[1] = k /\ <<k, q>>[2] = q
      OBVIOUS
    <3>2. k \in DOMAIN merged /\ q \in 1..merged[k].elided
      BY <2>1, <3>1, GapsAre
    <3> QED BY <1>2, <3>2
  <2>2. ASSUME NEW q, q \in 1..b.elided PROVE <<k, q>> \in HeldGaps
    <3>1. k \in DOMAIN merged
      BY <1>2, <2>2
    <3>2. q \in 1..merged[k].elided
      BY <1>2, <2>2, <3>1
    <3> QED BY <3>1, <3>2, GapsAre
  <2>3. \A p \in HeldGaps : p[1] = k => p = <<k, p[2]>>
    BY GapsAre
  <2> QED BY <2>1, <2>2, <2>3
<1>10. /\ \A q : <<k, q>> \in HeldGaps' <=> q \in 1..merged'[k].elided
       /\ \A p \in HeldGaps' : p[1] = k => p = <<k, p[2]>>
  <2>1. ASSUME NEW q, <<k, q>> \in HeldGaps' PROVE q \in 1..merged'[k].elided
    <3>1. <<k, q>>[1] = k /\ <<k, q>>[2] = q
      OBVIOUS
    <3> QED BY <2>1, <3>1, GapsAre
  <2>2. ASSUME NEW q, q \in 1..merged'[k].elided PROVE <<k, q>> \in HeldGaps'
    <3>1. k \in DOMAIN merged'
      BY <1>1
    <3> QED BY <2>2, <3>1, GapsAre
  <2>3. \A p \in HeldGaps' : p[1] = k => p = <<k, p[2]>>
    BY GapsAre
  <2> QED BY <2>1, <2>2, <2>3
<1> HIDE DEF n
<1>11. x \notin HeldBack /\ x[1] = k /\ x[2] = n
  <2>1. <<k, n>>[2] = n /\ <<k, n>>[1] = k
    OBVIOUS
  <2> QED BY <1>3, <1>4, <2>1
<1>12. IsFiniteSet(HeldBack) /\ IsFiniteSet(HeldGaps)
  BY DEF Accounts, CountsAreFinite
<1>13. /\ Cardinality(Numbered) \in Nat /\ Cardinality(HeldBack) \in Nat
       /\ Cardinality(NumberedGaps) \in Nat /\ Cardinality(HeldGaps) \in Nat
  BY CountsAreNumbers DEF Accounts
<1>14. /\ \A p \in HeldBack' : p \in HeldBack \/ p = x
       /\ IsFiniteSet(HeldBack') /\ IsFiniteSet(HeldGaps')
       /\ Cardinality(HeldBack') \in Nat /\ Cardinality(HeldGaps') \in Nat
       /\ Cardinality(HeldBack') + Cardinality(HeldGaps')
            = Cardinality(HeldBack) + Cardinality(HeldGaps) + 1
  <2>1. CASE /\ Pieces(merged'[k]) = Pieces(b) \cup {n}
             /\ merged'[k].elided = b.elided
    <3>1. HeldBack' = HeldBack \cup {x}
      <4>1. \A p \in HeldBack' : p \in HeldBack \cup {x}
        <5> SUFFICES ASSUME NEW p \in HeldBack', p[1] = k PROVE p \in HeldBack \cup {x}
          BY <1>5
        <5>1. p = <<k, p[2]>>
          BY <1>7
        <5>2. p[2] \in Pieces(b) \cup {n}
          BY <1>7, <2>1, <5>1
        <5> QED BY <1>6, <5>1, <5>2
      <4>2. \A p \in HeldBack : p \in HeldBack'
        <5> SUFFICES ASSUME NEW p \in HeldBack, p[1] = k PROVE p \in HeldBack'
          BY <1>5
        <5>1. p = <<k, p[2]>>
          BY <1>6
        <5>2. p[2] \in Pieces(b)
          BY <1>6, <5>1
        <5>3. p[2] \in Pieces(merged'[k])
          BY <2>1, <5>2
        <5> QED BY <1>7, <5>1, <5>3
      <4>3. x \in HeldBack'
        BY <1>7, <2>1
      <4> QED BY <4>1, <4>2, <4>3
    <3>2. HeldGaps' = HeldGaps
      <4>1. \A p \in HeldGaps' : p \in HeldGaps
        <5> SUFFICES ASSUME NEW p \in HeldGaps', p[1] = k PROVE p \in HeldGaps
          BY <1>8
        <5>1. p = <<k, p[2]>>
          BY <1>10
        <5>2. p[2] \in 1..b.elided
          BY <1>10, <2>1, <5>1
        <5> QED BY <1>9, <5>1, <5>2
      <4>2. \A p \in HeldGaps : p \in HeldGaps'
        <5> SUFFICES ASSUME NEW p \in HeldGaps, p[1] = k PROVE p \in HeldGaps'
          BY <1>8
        <5>1. p = <<k, p[2]>>
          BY <1>9
        <5>2. p[2] \in 1..merged'[k].elided
          BY <1>9, <2>1, <5>1
        <5> QED BY <1>10, <5>1, <5>2
      <4> QED BY <4>1, <4>2
    <3> HIDE DEF x
    <3>3. /\ IsFiniteSet(HeldBack \cup {x})
          /\ Cardinality(HeldBack \cup {x}) = Cardinality(HeldBack) + 1
      BY <1>11, <1>12, FS_AddElement
    <3> QED BY <1>12, <1>13, <3>1, <3>2, <3>3
  <2>2. CASE /\ \E p \in Pieces(b) : Pieces(merged'[k]) = (Pieces(b) \ {p}) \cup {n}
             /\ merged'[k].elided = b.elided + 1
    <3>1. PICK o \in Pieces(b) : Pieces(merged'[k]) = (Pieces(b) \ {o}) \cup {n}
      BY <2>2
    <3> DEFINE y == <<k, o>>  z == <<k, b.elided + 1>>
    <3>2. y \in HeldBack /\ o \in 1..arrived
      BY <1>2, <1>6
    <3>3. HeldBack' = (HeldBack \ {y}) \cup {x}
      <4>1. \A p \in HeldBack' : p \in (HeldBack \ {y}) \cup {x}
        <5>1. ASSUME NEW p \in HeldBack', p[1] # k PROVE p \in (HeldBack \ {y}) \cup {x}
          <6>1. y[1] = k
            OBVIOUS
          <6> QED BY <1>5, <5>1, <6>1
        <5>2. ASSUME NEW p \in HeldBack', p[1] = k PROVE p \in (HeldBack \ {y}) \cup {x}
          <6>1. p = <<k, p[2]>>
            BY <1>7, <5>2
          <6>2. p[2] \in (Pieces(b) \ {o}) \cup {n}
            BY <1>7, <3>1, <6>1
          <6>3. y[2] = o
            OBVIOUS
          <6> QED BY <1>6, <6>1, <6>2, <6>3
        <5> QED BY <5>1, <5>2
      <4>2. \A p \in HeldBack \ {y} : p \in HeldBack'
        <5> SUFFICES ASSUME NEW p \in HeldBack, p # y, p[1] = k PROVE p \in HeldBack'
          BY <1>5
        <5>1. p = <<k, p[2]>>
          BY <1>6
        <5>2. p[2] \in Pieces(b) /\ p[2] # o
          BY <1>6, <5>1
        <5>3. p[2] \in Pieces(merged'[k])
          BY <3>1, <5>2
        <5> QED BY <1>7, <5>1, <5>3
      <4>3. x \in HeldBack'
        BY <1>7, <3>1
      <4> QED BY <4>1, <4>2, <4>3
    <3>4. HeldGaps' = HeldGaps \cup {z}
      <4>1. \A q : q \in 1..(b.elided + 1) <=> q \in 1..b.elided \/ q = b.elided + 1
        BY <1>2
      <4>2. \A p \in HeldGaps' : p \in HeldGaps \cup {z}
        <5> SUFFICES ASSUME NEW p \in HeldGaps', p[1] = k PROVE p \in HeldGaps \cup {z}
          BY <1>8
        <5>1. p = <<k, p[2]>>
          BY <1>10
        <5>2. p[2] \in 1..b.elided \/ p[2] = b.elided + 1
          BY <1>10, <2>2, <4>1, <5>1
        <5> QED BY <1>9, <5>1, <5>2
      <4>3. \A p \in HeldGaps : p \in HeldGaps'
        <5> SUFFICES ASSUME NEW p \in HeldGaps, p[1] = k PROVE p \in HeldGaps'
          BY <1>8
        <5>1. p = <<k, p[2]>>
          BY <1>9
        <5>2. p[2] \in 1..merged'[k].elided
          BY <1>9, <2>2, <4>1, <5>1
        <5> QED BY <1>10, <5>1, <5>2
      <4>4. b.elided + 1 \in 1..merged'[k].elided
        BY <2>2, <4>1
      <4>5. z \in HeldGaps'
        BY <1>10, <4>4
      <4> QED BY <4>2, <4>3, <4>5
    <3>5. z \notin HeldGaps
      <4>1. b.elided + 1 \notin 1..b.elided
        BY <1>2
      <4> QED BY <1>9, <4>1
    <3>6. x \notin HeldBack \ {y}
      BY <1>11
    <3> HIDE DEF x, y, z
    <3>7. /\ IsFiniteSet(HeldBack \ {y})
          /\ Cardinality(HeldBack \ {y}) = Cardinality(HeldBack) - 1
      BY <1>12, <3>2, FS_RemoveElement
    <3>8. /\ IsFiniteSet((HeldBack \ {y}) \cup {x})
          /\ Cardinality((HeldBack \ {y}) \cup {x}) = Cardinality(HeldBack \ {y}) + 1
      BY <3>6, <3>7, FS_AddElement
    <3>9. /\ IsFiniteSet(HeldGaps \cup {z})
          /\ Cardinality(HeldGaps \cup {z}) = Cardinality(HeldGaps) + 1
      BY <1>12, <3>5, FS_AddElement
    <3>10. Cardinality(HeldBack') = Cardinality(HeldBack)
      BY <1>13, <3>3, <3>7, <3>8
    <3>11. Cardinality(HeldGaps') = Cardinality(HeldGaps) + 1
      BY <3>4, <3>9
    <3> QED BY <1>13, <3>3, <3>4, <3>8, <3>9, <3>10, <3>11
  <2> QED BY <1>2, <2>1, <2>2
<1>15. CountsAreFinite'
  BY <1>1, <1>14 DEF Accounts, CountsAreFinite
<1>16. OnePlace'
  <2>1. ASSUME NEW p \in HeldBack', NEW q \in HeldBack', p[2] = q[2] PROVE p = q
    <3>1. CASE p \in HeldBack /\ q \in HeldBack
      BY <2>1, <3>1 DEF Accounts, OnePlace
    <3>2. n \notin 1..arrived /\ x[2] = n
      BY <1>4, <1>11
    <3> QED BY <1>3, <1>14, <2>1, <3>1, <3>2
  <2>2. ASSUME NEW p \in Numbered', NEW q \in HeldBack' PROVE p[2] # q[2]
    <3>1. p \in Numbered /\ p[2] \in 1..arrived
      BY <1>1, <1>3
    <3>2. CASE q \in HeldBack
      BY <3>1, <3>2 DEF Accounts, OnePlace
    <3>3. CASE q = x
      BY <1>4, <1>11, <3>1, <3>3
    <3> QED BY <1>14, <3>2, <3>3
  <2>3. \A p, q \in Numbered' : p[2] = q[2] => p = q
    BY <1>1 DEF Accounts, OnePlace
  <2> QED BY <2>1, <2>2, <2>3 DEF OnePlace
<1>17. arrived' = Counted'
  <2>1. arrived = Cardinality(Numbered) + Cardinality(HeldBack)
                  + Cardinality(NumberedGaps) + Cardinality(HeldGaps)
    BY DEF Accounts, Counted
  <2>2. Counted' = Cardinality(Numbered) + Cardinality(HeldBack')
                   + Cardinality(NumberedGaps) + Cardinality(HeldGaps')
    BY <1>1 DEF Counted
  <2> HIDE DEF x
  <2> QED BY <1>1, <1>4, <1>13, <1>14, <2>1, <2>2
<1> QED BY <1>15, <1>16, <1>17 DEF Accounts

(* What is drained keeps its place and its gap, under another name.         *)
LEMMA DrainAccounts ==
    ASSUME TypeOK, Accounts, NEW m \in Nat, NEW order \in [1..m -> DOMAIN merged],
           IsInjective(order), Drains(m, order)
    PROVE  Accounts'
<1> DEFINE L == Len(released)
           at(i) == L + i
           R == {order[i] : i \in 1..m}
<1>1. /\ L \in Nat /\ DOMAIN released = 1..L
      /\ DOMAIN released' = DOMAIN released \cup {L + i : i \in 1..m}
      /\ \A i \in DOMAIN released : released'[i] = released[i]
  <2>1. released \in Seq(Entries)
    BY DEF TypeOK, Entries
  <2> QED BY <2>1, DrainedEntries
<1>2. /\ DOMAIN merged' = DOMAIN merged \ R
      /\ \A k \in DOMAIN merged' : merged'[k] = merged[k]
      /\ \A i \in 1..m : /\ released'[L + i].text = merged[order[i]].text
                         /\ released'[L + i].elided = merged[order[i]].elided
      /\ arrived' = arrived
  BY DEF Drains
<1>3. \A i \in 1..m : /\ L + i \in DOMAIN released'
                      /\ Pieces(released'[L + i]) = Pieces(merged[order[i]])
                      /\ order[i] \in DOMAIN merged
  BY <1>1, <1>2 DEF Pieces
<1> HIDE DEF L
<1>4. /\ IsFiniteSet(HeldBack') /\ IsFiniteSet(Numbered')
      /\ Cardinality(HeldBack) \in Nat /\ Cardinality(Numbered) \in Nat
      /\ Cardinality(HeldBack') \in Nat /\ Cardinality(Numbered') \in Nat
      /\ Cardinality(Numbered') + Cardinality(HeldBack')
           = Cardinality(Numbered) + Cardinality(HeldBack)
  <2> DEFINE F == KeptPieces  G == SentPieces  F2 == KeptPieces'  G2 == SentPieces'
  <2>1. /\ order \in [1..m -> DOMAIN F]
        /\ DOMAIN G = 1..L
        /\ \A j : j \in DOMAIN G2 <=> j \in DOMAIN G \/ \E i \in 1..m : j = L + i
        /\ \A k : k \in DOMAIN F2 <=> k \in DOMAIN F /\ \A i \in 1..m : k # order[i]
    BY <1>1, <1>2 DEF KeptPieces, SentPieces
  <2>2. /\ \A i \in DOMAIN G : G2[i] = G[i]
    BY <1>1 DEF SentPieces
  <2>3. \A i \in 1..m : G2[L + i] = F[order[i]]
    BY <1>3 DEF SentPieces, KeptPieces
  <2>4. \A k \in DOMAIN F2 : F2[k] = F[k]
    BY <1>2 DEF KeptPieces
  <2>5. IsFiniteSet(Pairs(F)) /\ IsFiniteSet(Pairs(G))
    BY CountsArePairs DEF Accounts, CountsAreFinite
  <2> HIDE DEF F, G, F2, G2
  <2>6. Renames(F, G, F2, G2, L, order, m)
    BY <1>1, <2>1, <2>2, <2>3, <2>4, <2>5 DEF Renames
  <2>7. /\ IsFiniteSet(Pairs(F2)) /\ IsFiniteSet(Pairs(G2))
        /\ Cardinality(Pairs(F)) \in Nat /\ Cardinality(Pairs(G)) \in Nat
        /\ Cardinality(Pairs(F2)) \in Nat /\ Cardinality(Pairs(G2)) \in Nat
        /\ Cardinality(Pairs(G2)) + Cardinality(Pairs(F2))
             = Cardinality(Pairs(G)) + Cardinality(Pairs(F))
    BY <2>6, PairsMove
  <2> QED BY <2>7, CountsArePairs DEF F, G, F2, G2
<1>5. /\ IsFiniteSet(HeldGaps') /\ IsFiniteSet(NumberedGaps')
      /\ Cardinality(HeldGaps) \in Nat /\ Cardinality(NumberedGaps) \in Nat
      /\ Cardinality(HeldGaps') \in Nat /\ Cardinality(NumberedGaps') \in Nat
      /\ Cardinality(NumberedGaps') + Cardinality(HeldGaps')
           = Cardinality(NumberedGaps) + Cardinality(HeldGaps)
  <2> DEFINE F == KeptGaps  G == SentGaps  F2 == KeptGaps'  G2 == SentGaps'
  <2>1. /\ order \in [1..m -> DOMAIN F]
        /\ DOMAIN G = 1..L
        /\ \A j : j \in DOMAIN G2 <=> j \in DOMAIN G \/ \E i \in 1..m : j = L + i
        /\ \A k : k \in DOMAIN F2 <=> k \in DOMAIN F /\ \A i \in 1..m : k # order[i]
    BY <1>1, <1>2 DEF KeptGaps, SentGaps
  <2>2. /\ \A i \in DOMAIN G : G2[i] = G[i]
    BY <1>1 DEF SentGaps
  <2>3. \A i \in 1..m : G2[L + i] = F[order[i]]
    BY <1>2, <1>3 DEF SentGaps, KeptGaps
  <2>4. \A k \in DOMAIN F2 : F2[k] = F[k]
    BY <1>2 DEF KeptGaps
  <2>5. IsFiniteSet(Pairs(F)) /\ IsFiniteSet(Pairs(G))
    BY CountsArePairs DEF Accounts, CountsAreFinite
  <2> HIDE DEF F, G, F2, G2
  <2>6. Renames(F, G, F2, G2, L, order, m)
    BY <1>1, <2>1, <2>2, <2>3, <2>4, <2>5 DEF Renames
  <2>7. /\ IsFiniteSet(Pairs(F2)) /\ IsFiniteSet(Pairs(G2))
        /\ Cardinality(Pairs(F)) \in Nat /\ Cardinality(Pairs(G)) \in Nat
        /\ Cardinality(Pairs(F2)) \in Nat /\ Cardinality(Pairs(G2)) \in Nat
        /\ Cardinality(Pairs(G2)) + Cardinality(Pairs(F2))
             = Cardinality(Pairs(G)) + Cardinality(Pairs(F))
    BY <2>6, PairsMove
  <2> QED BY <2>7, CountsArePairs DEF F, G, F2, G2
(* Where a piece was before: in its place, or under the label drained.      *)
<1>6. \A p \in HeldBack' : p \in HeldBack /\ p[1] \notin R
  <2> SUFFICES ASSUME NEW p \in HeldBack' PROVE p \in HeldBack /\ p[1] \notin R
    OBVIOUS
  <2>1. p[1] \in DOMAIN merged' /\ p[2] \in Pieces(merged'[p[1]]) /\ p = <<p[1], p[2]>>
    BY PiecesWillBe
  <2>2. p[1] \in DOMAIN merged /\ p[1] \notin R /\ p[2] \in Pieces(merged[p[1]])
    BY <1>2, <2>1
  <2>3. <<p[1], p[2]>> \in HeldBack
    BY <2>2, PiecesAre
  <2> QED BY <2>1, <2>2, <2>3
<1>7. \A p \in Numbered' : \/ p \in Numbered
                           \/ \E i \in 1..m : p = <<L + i, p[2]>> /\ <<order[i], p[2]>> \in HeldBack
  <2> SUFFICES ASSUME NEW p \in Numbered'
               PROVE  \/ p \in Numbered
                      \/ \E i \in 1..m : /\ p = <<L + i, p[2]>>
                                         /\ <<order[i], p[2]>> \in HeldBack
    OBVIOUS
  <2>1. p[1] \in DOMAIN released' /\ p[2] \in Pieces(released'[p[1]]) /\ p = <<p[1], p[2]>>
    BY PiecesWillBe
  <2>2. CASE p[1] \in DOMAIN released
    <3>1. p[2] \in Pieces(released[p[1]])
      BY <1>1, <2>1, <2>2
    <3>2. <<p[1], p[2]>> \in Numbered
      BY <2>2, <3>1, PiecesAre
    <3> QED BY <2>1, <3>2
  <2>3. ASSUME NEW i \in 1..m, p[1] = L + i
        PROVE  p = <<L + i, p[2]>> /\ <<order[i], p[2]>> \in HeldBack
    <3>1. p[2] \in Pieces(merged[order[i]]) /\ order[i] \in DOMAIN merged
      BY <1>3, <2>1, <2>3
    <3>2. <<order[i], p[2]>> \in HeldBack
      BY <3>1, PiecesAre
    <3> QED BY <2>1, <2>3, <3>2
  <2> QED BY <1>1, <2>1, <2>2, <2>3
<1>8. /\ \A p, q \in Numbered : p[2] = q[2] => p = q
      /\ \A p, q \in HeldBack : p[2] = q[2] => p = q
      /\ \A p \in Numbered, q \in HeldBack : p[2] # q[2]
  BY DEF Accounts, OnePlace
<1>9. \A l, n : <<l, n>>[1] = l /\ <<l, n>>[2] = n
  OBVIOUS
<1>10. OnePlace'
  <2>1. ASSUME NEW p \in Numbered', NEW q \in Numbered', p[2] = q[2] PROVE p = q
    <3>1. CASE p \in Numbered /\ q \in Numbered
      BY <1>8, <2>1, <3>1
    <3>2. ASSUME NEW i \in 1..m, <<order[i], p[2]>> \in HeldBack, q \in Numbered PROVE FALSE
      BY <1>8, <1>9, <2>1, <3>2
    <3>3. ASSUME NEW i \in 1..m, <<order[i], q[2]>> \in HeldBack, p \in Numbered PROVE FALSE
      BY <1>8, <1>9, <2>1, <3>3
    <3>4. ASSUME NEW i \in 1..m, NEW j \in 1..m, p = <<L + i, p[2]>>, q = <<L + j, q[2]>>,
                 <<order[i], p[2]>> \in HeldBack, <<order[j], q[2]>> \in HeldBack
          PROVE  p = q
      <4>1. <<order[i], p[2]>> = <<order[j], q[2]>>
        BY <1>8, <1>9, <2>1, <3>4
      <4>2. order[i] = order[j]
        BY <1>9, <4>1
      <4>3. i \in DOMAIN order /\ j \in DOMAIN order
        OBVIOUS
      <4>4. i = j
        BY <4>2, <4>3 DEF IsInjective
      <4> QED BY <2>1, <3>4, <4>4
    <3> QED BY <1>7, <3>1, <3>2, <3>3, <3>4
  <2>2. ASSUME NEW p \in HeldBack', NEW q \in HeldBack', p[2] = q[2] PROVE p = q
    BY <1>6, <1>8, <2>2
  <2>3. ASSUME NEW p \in Numbered', NEW q \in HeldBack', p[2] = q[2] PROVE FALSE
    <3>1. q \in HeldBack /\ q[1] \notin R
      BY <1>6
    <3>2. CASE p \in Numbered
      BY <1>8, <2>3, <3>1, <3>2
    <3>3. ASSUME NEW i \in 1..m, <<order[i], p[2]>> \in HeldBack PROVE FALSE
      <4>1. <<order[i], p[2]>> = q
        BY <1>8, <1>9, <2>3, <3>1, <3>3
      <4>2. q[1] = order[i]
        BY <1>9, <4>1
      <4> QED BY <3>1, <4>2
    <3> QED BY <1>7, <3>2, <3>3
  <2> QED BY <2>1, <2>2, <2>3 DEF OnePlace
<1>11. CountsAreFinite'
  BY <1>4, <1>5 DEF CountsAreFinite
<1>12. arrived' = Counted'
  <2> DEFINE a == Cardinality(Numbered)  b == Cardinality(HeldBack)
             c == Cardinality(NumberedGaps)  d == Cardinality(HeldGaps)
             u == Cardinality(Numbered')  v == Cardinality(HeldBack')
             w == Cardinality(NumberedGaps')  x == Cardinality(HeldGaps')
  <2>1. arrived' = ((a + b) + c) + d
    BY <1>2 DEF Accounts, Counted
  <2>2. Counted' = ((u + v) + w) + x
    BY DEF Counted
  <2>3. a \in Nat /\ b \in Nat /\ u \in Nat /\ v \in Nat /\ u + v = a + b
    BY <1>4
  <2>4. c \in Nat /\ d \in Nat /\ w \in Nat /\ x \in Nat /\ w + x = c + d
    BY <1>5
  <2> HIDE DEF a, b, c, d, u, v, w, x
  <2>5. ((u + v) + w) + x = ((a + b) + c) + d
    BY <2>3, <2>4
  <2> QED BY <2>1, <2>2, <2>5
<1> QED BY <1>10, <1>11, <1>12 DEF Accounts

(* Every step keeps the accounts.                                           *)
LEMMA AccountsStep ==
    ASSUME TypeOK, OutputsSuffice, PiecesArrived, CountsAreFinite, EveryPieceAccounted,
           [Next]_vars
    PROVE  CountsAreFinite' /\ EveryPieceAccounted'
<1>1. Accounts
  BY AccountsAre
<1>2. CASE GateStands
  BY <1>2 DEF GateStands, CountsAreFinite, EveryPieceAccounted, Numbered, HeldBack,
              NumberedGaps, HeldGaps
<1>3. ASSUME NEW c \in Categories, Numbers(c) PROVE Accounts'
  BY <1>1, <1>3, NumberAccounts
<1>4. ASSUME NEW k \in Labels, NEW b \in Buckets, Holds(k, b) PROVE Accounts'
  BY <1>1, <1>4, HoldAccounts
<1>5. ASSUME NEW m \in Nat, NEW order \in [1..m -> DOMAIN merged],
             IsInjective(order), Drains(m, order)
      PROVE  Accounts'
  BY <1>1, <1>5, DrainAccounts
<1> QED BY <1>2, <1>3, <1>4, <1>5, GateSteps, AccountsAre

-----------------------------------------------------------------------------
(* What the page is told *)

(* What is in a sequence after a push.                                      *)
LEMMA SetPushed ==
    ASSUME NEW S, NEW s \in Seq(S), NEW c \in S
    PROVE  ToSet(Append(s, c)) = ToSet(s) \cup {c}
<1> DEFINE u == Append(s, c)
<1>1. /\ DOMAIN u = DOMAIN s \cup {Len(s) + 1} /\ u[Len(s) + 1] = c
      /\ \A i \in DOMAIN s : u[i] = s[i]
  BY Pushed
<1> HIDE DEF u
<1>2. ToSet(u) = ToSet(s) \cup {c}
  BY <1>1 DEF ToSet
<1> QED BY <1>2 DEF u

(* What was in a sequence before a pop.                                     *)
LEMMA SetPopped ==
    ASSUME NEW S, NEW s \in Seq(S), s # <<>>
    PROVE  ToSet(s) = ToSet(Tail(s)) \cup {Head(s)}
<1> DEFINE t == Tail(s)
<1>1. /\ Head(s) = s[1] /\ 1 \in DOMAIN s
      /\ \A i \in DOMAIN t : i + 1 \in DOMAIN s /\ t[i] = s[i + 1]
      /\ \A i \in DOMAIN s : i # 1 => i - 1 \in DOMAIN t /\ t[i - 1] = s[i]
  BY Popped
<1> HIDE DEF t
<1>2. ToSet(s) = ToSet(t) \cup {Head(s)}
  BY <1>1 DEF ToSet
<1> QED BY <1>2 DEF t

(* Numbers are given out and never taken back.                              *)
LEMMA NumbersGrow ==
    ASSUME TypeOK, OutputsSuffice, [Next]_vars
    PROVE  /\ Len(released) \in Nat /\ Len(released') \in Nat
           /\ Len(released) <= Len(released')
<1>1. Len(released) \in Nat
  BY LenProperties DEF TypeOK
<1>2. CASE GateStands
  BY <1>1, <1>2 DEF GateStands
<1>3. ASSUME NEW c \in Categories, Numbers(c)
      PROVE  Len(released') \in Nat /\ Len(released) <= Len(released')
  BY <1>1, <1>3 DEF Numbers
<1>4. ASSUME NEW k \in Labels, NEW b \in Buckets, Holds(k, b)
      PROVE  Len(released') \in Nat /\ Len(released) <= Len(released')
  BY <1>1, <1>4 DEF Holds
<1>5. ASSUME NEW m \in Nat, NEW order, Drains(m, order)
      PROVE  Len(released') \in Nat /\ Len(released) <= Len(released')
  BY <1>1, <1>5 DEF Drains
<1> QED BY <1>1, <1>2, <1>3, <1>4, <1>5, GateSteps

PageType == [phase : Phases, held : Seq(Events), acks : SUBSET (1..MaxOutputs),
             disconnect : BOOLEAN]

(* Handling events acknowledges only what is numbered, and leaves the page  *)
(* live exactly if none of them ends the session.                           *)
LEMMA Handled ==
    ASSUME NEW events \in Seq(Events),
           \A i \in DOMAIN events : IsPast(events[i], Len(released)),
           Handle(events), page \in PageType,
           Len(released) \in 0..MaxOutputs, page.acks \subseteq 1..Len(released),
           lines \subseteq (1..MaxOutputs) \X (1..MaxOutputs)
    PROVE  /\ page' \in PageType /\ page'.held = <<>>
           /\ page'.acks \subseteq 1..Len(released)
           /\ lines' \subseteq (1..MaxOutputs) \X (1..MaxOutputs)
           /\ page'.phase # "starting"
           /\ page'.phase = "live" => /\ \A i \in DOMAIN events : ~Ends(events[i])
                                      /\ page'.disconnect => page.disconnect
<1> DEFINE phase == IF \E i \in DOMAIN events : Ends(events[i]) THEN "none" ELSE "live"
           acks == page.acks \cup {events[i].seq : i \in Lines(events)}
           disconnect == page.disconnect \/ \E i \in Reached(events) : events[i] = Terminated
<1>1. \A i \in Lines(events) : events[i].seq \in 1..Len(released)
  BY DEF Lines, Reached, Shows, IsPast
<1>2. 1..Len(released) \subseteq 1..MaxOutputs
  BY MaxOutputsIsNat
<1>3. acks \subseteq 1..Len(released)
  BY <1>1
<1>4. /\ page'.phase = phase /\ page'.held = <<>> /\ page'.acks = acks
      /\ page'.disconnect = disconnect
      /\ page' = [phase |-> phase, held |-> <<>>, acks |-> acks, disconnect |-> disconnect]
  BY DEF Handle, PageType
<1>5. phase \in {"none", "live"}
  OBVIOUS
<1>6. disconnect \in BOOLEAN
  BY Zenon DEF PageType
<1>7. <<>> \in Seq(Events)
  OBVIOUS
<1>8. page'.phase = "live" => /\ \A i \in DOMAIN events : ~Ends(events[i])
                              /\ page'.disconnect => page.disconnect
  <2> SUFFICES ASSUME page'.phase = "live"
               PROVE  /\ \A i \in DOMAIN events : ~Ends(events[i])
                      /\ page'.disconnect => page.disconnect
    OBVIOUS
  <2>1. \A i \in DOMAIN events : ~Ends(events[i])
    BY <1>4
  <2>2. \A i \in Reached(events) : events[i] # Terminated
    BY <2>1 DEF Reached, Ends
  <2>3. page'.disconnect => page.disconnect
    BY <1>4, <2>2, Zenon
  <2> QED BY <2>1, <2>3
<1>9. lines' \subseteq (1..MaxOutputs) \X (1..MaxOutputs)
  <2>1. \A i \in Lines(events) : events[i].seq \in 1..MaxOutputs
    BY <1>1, <1>2
  <2>2. \A line \in lines : line[1] \in 1..MaxOutputs
    OBVIOUS
  <2>3. {<<line[1], events[i].seq>> : line \in lines, i \in Lines(events)}
           \subseteq (1..MaxOutputs) \X (1..MaxOutputs)
    BY <2>1, <2>2
  <2>4. {<<events[k[1]].seq, events[k[2]].seq>> :
            k \in {k \in Lines(events) \X Lines(events) : k[1] <= k[2]}}
           \subseteq (1..MaxOutputs) \X (1..MaxOutputs)
    BY <2>1
  <2> QED BY <2>3, <2>4 DEF Handle
<1> HIDE DEF phase, acks, disconnect
<1>10. page' \in PageType
  BY <1>2, <1>3, <1>4, <1>5, <1>6, <1>7 DEF PageType, Phases
<1>11. page'.acks \subseteq 1..Len(released) /\ page'.phase # "starting"
  BY <1>3, <1>4, <1>5
<1> QED BY <1>4, <1>8, <1>9, <1>10, <1>11

(* What a call of ack_output emits is numbered, and so is what is left.     *)
LEMMA Emissions ==
    ASSUME NEW f \in Batches, f.last <= Len(released), Len(released) \in 0..MaxOutputs
    PROVE  /\ Emitted(f) \in Events /\ IsPast(Emitted(f), Len(released)) /\ Emitted(f) # Ended
           /\ Further(f).last = f.last
           /\ ~(Further(f).next > f.last) => Further(f) \in Batches
<1>1. /\ f.next \in 1..MaxOutputs /\ f.last \in 1..MaxOutputs /\ f.next <= f.last
      /\ f.told \in BOOLEAN /\ f = [next |-> f.next, last |-> f.last, told |-> f.told]
  BY DEF Batches
<1>2. f.next \in 1..Len(released)
  BY <1>1
<1>3. CASE Notices(f)
  <2>1. Emitted(f) = Elided(f.next) /\ Further(f) = [f EXCEPT !.told = TRUE]
    BY <1>3 DEF Emitted, Further
  <2>2. Further(f) = [next |-> f.next, last |-> f.last, told |-> TRUE]
    BY <1>1, <2>1
  <2>3. /\ Elided(f.next) \in Events /\ Elided(f.next) # Ended
        /\ IsPast(Elided(f.next), Len(released))
    BY <1>1, <1>2 DEF Elided, Events, IsPast, Ended
  <2>4. Further(f).last = f.last /\ Further(f) \in Batches
    BY <1>1, <2>2 DEF Batches
  <2> QED BY <2>1, <2>3, <2>4
<1>4. CASE ~Notices(f)
  <2>1. /\ Emitted(f) = Output(f.next)
        /\ Further(f) = [f EXCEPT !.next = f.next + 1, !.told = FALSE]
    BY <1>4 DEF Emitted, Further
  <2>2. Further(f) = [next |-> f.next + 1, last |-> f.last, told |-> FALSE]
    BY <1>1, <2>1
  <2>3. ~(f.next + 1 > f.last) => f.next + 1 \in 1..MaxOutputs /\ f.next + 1 <= f.last
    BY <1>1, MaxOutputsIsNat
  <2>4. /\ Output(f.next) \in Events /\ Output(f.next) # Ended
        /\ IsPast(Output(f.next), Len(released))
    BY <1>1, <1>2 DEF Output, Events, IsPast, Ended
  <2>5. Further(f).last = f.last /\ Further(f).next = f.next + 1
    BY <2>2
  <2>6. ~(f.next + 1 > f.last) => Further(f) \in Batches
    BY <1>1, <2>2, <2>3 DEF Batches
  <2> QED BY <2>1, <2>4, <2>5, <2>6
<1> QED BY <1>3, <1>4

(* There are never more numbers than outputs.                               *)
LEMMA NumbersFit ==
    ASSUME TypeOK, OutputsSuffice, PiecesArrived, [Next]_vars
    PROVE  /\ Len(released) \in 0..MaxOutputs /\ Len(released') \in 0..MaxOutputs
           /\ arrived' \in 0..MaxOutputs
           /\ Cardinality(DOMAIN merged) \in Nat
           /\ Len(released) + Cardinality(DOMAIN merged) <= MaxOutputs
<1>1. /\ arrived \in 0..MaxOutputs /\ MaxOutputs \in Nat
      /\ Len(released) + Cardinality(DOMAIN merged) <= arrived
      /\ Cardinality(DOMAIN merged) \in Nat
  BY FS_CardinalityType, MaxOutputsIsNat DEF TypeOK, OutputsSuffice
<1>2. Len(released) \in Nat /\ Len(released') \in Nat
  BY NumbersGrow
<1>3. arrived' \in 0..MaxOutputs
  <2>1. CASE GateStands
    BY <1>1, <2>1 DEF GateStands
  <2>2. ASSUME NEW c \in Categories, Numbers(c) PROVE arrived' \in 0..MaxOutputs
    BY <1>1, <2>2 DEF Numbers
  <2>3. ASSUME NEW k \in Labels, NEW b \in Buckets, Holds(k, b) PROVE arrived' \in 0..MaxOutputs
    BY <1>1, <2>3 DEF Holds
  <2>4. ASSUME NEW m \in Nat, NEW order, Drains(m, order) PROVE arrived' \in 0..MaxOutputs
    BY <1>1, <2>4 DEF Drains
  <2> QED BY <2>1, <2>2, <2>3, <2>4, GateSteps
<1>4. /\ IsFiniteSet(DOMAIN merged')
      /\ Len(released') + Cardinality(DOMAIN merged') <= arrived'
  BY OutputsStep DEF OutputsSuffice
<1> DEFINE n == Cardinality(DOMAIN merged')
<1>5. n \in Nat
  BY <1>4, FS_CardinalityType
<1>6. Len(released') + n <= arrived'
  BY <1>4
<1> HIDE DEF n
<1>7. Len(released') \in 0..MaxOutputs
  BY <1>1, <1>2, <1>3, <1>5, <1>6
<1> QED BY <1>1, <1>2, <1>3, <1>7

ReaderType == [pc : {"reading", "emitting", "done"}, next : Events, terminated : BOOLEAN]

(* The part of the type and of the numbers that a step on the events keeps. *)
Told ==
    /\ reader \in ReaderType /\ flushing \subseteq Batches
    /\ wire \in Seq(Events) /\ page \in PageType
    /\ lines \subseteq (1..MaxOutputs) \X (1..MaxOutputs)
    /\ NumbersArePast

(* It is a part of the type and of the numbers.                             *)
LEMMA ToldIs == TypeOK /\ NumbersArePast => Told
BY DEF TypeOK, Told, ReaderType, PageType

(* Emitting an event that is past, with the rest of the events in place.    *)
LEMMA Emits ==
    ASSUME Told, NEW e \in Events, IsPast(e, Len(released)), wire' = Append(wire, e),
           UNCHANGED <<page, lines, released>>,
           reader' \in ReaderType, IsPast(reader'.next, Len(released)),
           flushing' \subseteq Batches, \A f \in flushing' : f.last <= Len(released)
    PROVE  Told'
<1>1. /\ wire' \in Seq(Events) /\ DOMAIN wire' = DOMAIN wire \cup {Len(wire) + 1}
      /\ \A i \in DOMAIN wire : wire'[i] = wire[i]
      /\ wire'[Len(wire) + 1] = e
  BY Pushed DEF Told
<1>2. \A i \in DOMAIN wire' : IsPast(wire'[i], Len(released))
  BY <1>1 DEF Told, NumbersArePast
<1>3. NumbersArePast'
  BY <1>2 DEF Told, NumbersArePast, IsPast
<1> QED BY <1>1, <1>3 DEF Told

(* Every step keeps it.                                                     *)
LEMMA ToldStep ==
    ASSUME TypeOK, NumbersArePast, OutputsSuffice, PiecesArrived, [Next]_vars
    PROVE  Told'
<1>1. Told /\ page \in PageType /\ reader \in ReaderType /\ wire \in Seq(Events)
  BY ToldIs DEF Told
<1>2. /\ Len(released) \in 0..MaxOutputs /\ Len(released') \in 0..MaxOutputs
      /\ Len(released) <= Len(released')
  BY NumbersFit, NumbersGrow
<1>3. /\ Terminated \in Events /\ IsPast(Terminated, Len(released))
      /\ Ended \in Events /\ IsPast(Ended, Len(released))
  BY DEF Events, Terminated, Ended, IsPast
<1>4. \A e : IsPast(e, Len(released)) => IsPast(e, Len(released'))
  <2> SUFFICES ASSUME NEW e, IsPast(e, Len(released)), e.event \in {"output", "outputElided"}
               PROVE  e.seq \in 1..Len(released')
    BY DEF IsPast
  <2> QED BY <1>2 DEF IsPast
<1>5. ASSUME UNCHANGED <<page, wire, lines>>,
             reader' \in ReaderType, IsPast(reader'.next, Len(released')),
             flushing' \subseteq Batches, \A f \in flushing' : f.last <= Len(released')
      PROVE  Told'
  <2>1. /\ \A i \in DOMAIN wire' : IsPast(wire'[i], Len(released'))
        /\ \A i \in DOMAIN page.held : IsPast(page.held[i], Len(released'))
    BY <1>4, <1>5 DEF NumbersArePast
  <2>2. page.acks \subseteq 1..Len(released')
    BY <1>2 DEF NumbersArePast
  <2>3. NumbersArePast'
    BY <1>5, <2>1, <2>2 DEF NumbersArePast, IsPast
  <2> QED BY <1>1, <1>5, <2>3 DEF Told
<1>6. \A f \in flushing : f.last <= Len(released')
  <2> SUFFICES ASSUME NEW f \in flushing PROVE f.last <= Len(released')
    OBVIOUS
  <2>1. f.last <= Len(released) /\ f.last \in Nat
    BY MaxOutputsIsNat DEF NumbersArePast, TypeOK, Batches
  <2> QED BY <1>2, <2>1
<1>7. ASSUME NEW c \in Categories, OnOutput(c) PROVE Told'
  <2>1. UNCHANGED <<page, wire, lines, flushing>>
    BY <1>7 DEF OnOutput
  <2>2. CASE Numbers(c)
    <3>1. /\ reader' = [reader EXCEPT !.pc = "emitting", !.next = Output(Len(released) + 1)]
          /\ Len(released') = Len(released) + 1
      BY <2>2 DEF Numbers
    <3>2. Len(released) + 1 \in 1..MaxOutputs /\ Len(released) + 1 \in 1..Len(released')
      BY <1>2, <3>1, MaxOutputsIsNat
    <3>3. /\ Output(Len(released) + 1) \in Events
          /\ IsPast(Output(Len(released) + 1), Len(released'))
      BY <3>2 DEF Output, Events, IsPast
    <3>4. reader' \in ReaderType /\ reader'.next = Output(Len(released) + 1)
      BY <1>1, <3>1, <3>3 DEF ReaderType
    <3>5. IsPast(reader'.next, Len(released'))
      BY <3>3, <3>4
    <3> QED BY <1>1, <1>5, <1>6, <2>1, <3>4, <3>5 DEF Told
  <2>3. ASSUME NEW k \in Labels, NEW b \in Buckets, Holds(k, b) PROVE Told'
    <3>1. reader' = reader
      BY <2>3 DEF Holds
    <3>2. IsPast(reader.next, Len(released'))
      BY <1>4 DEF NumbersArePast
    <3>3. IsPast(reader'.next, Len(released'))
      BY <3>1, <3>2
    <3> QED BY <1>1, <1>5, <1>6, <2>1, <3>1, <3>3 DEF Told
  <2> QED BY <1>7, <2>2, <2>3, NumbersOrHolds
<1>8. ASSUME NEW s \in page.acks, AckOutput(s) PROVE Told'
  <2>1. UNCHANGED <<wire, lines, reader>> /\ page' = [page EXCEPT !.acks = @ \ {s}]
    BY <1>8 DEF AckOutput
  <2>2. /\ page' \in PageType /\ page'.held = page.held /\ page'.acks \subseteq page.acks
    BY <1>1, <2>1 DEF PageType
  <2>3. flushing' \subseteq Batches /\ \A f \in flushing' : f.last <= Len(released')
    <3>1. CASE UNCHANGED flushing
      BY <1>1, <1>6, <3>1 DEF Told
    <3>2. ASSUME NEW m \in Nat, NEW order, m > 0, Len(released') = Len(released) + m,
                 flushing' = flushing \cup {[next |-> Len(released) + 1,
                                             last |-> Len(released) + m, told |-> FALSE]}
          PROVE  flushing' \subseteq Batches /\ \A f \in flushing' : f.last <= Len(released')
      <4> DEFINE x == Len(released) + 1  y == Len(released) + m
                 g == [next |-> x, last |-> y, told |-> FALSE]
      <4>1. /\ x \in 1..MaxOutputs /\ y \in 1..MaxOutputs /\ x <= y /\ y <= Len(released')
        BY <1>2, <3>2, MaxOutputsIsNat
      <4>2. flushing' = flushing \cup {g}
        BY <3>2
      <4> HIDE DEF x, y
      <4>3. g \in Batches /\ g.last <= Len(released')
        BY <4>1 DEF Batches
      <4> HIDE DEF g
      <4> QED BY <1>1, <1>6, <4>2, <4>3 DEF Told
    <3>3. CASE UNCHANGED <<gate, flushing, arrived, reader>>
      BY <3>1, <3>3
    <3>4. ASSUME NEW m \in Nat, NEW order \in [1..m -> DOMAIN merged], Drains(m, order)
          PROVE  flushing' \subseteq Batches /\ \A f \in flushing' : f.last <= Len(released')
      BY <3>1, <3>2, <3>4 DEF Drains
    <3> QED BY <1>8, <3>3, <3>4, AckDrains
  <2>4. /\ \A i \in DOMAIN wire' : IsPast(wire'[i], Len(released'))
        /\ \A i \in DOMAIN page'.held : IsPast(page'.held[i], Len(released'))
        /\ IsPast(reader'.next, Len(released'))
    BY <1>4, <2>1, <2>2 DEF NumbersArePast
  <2>5. page'.acks \subseteq 1..Len(released')
    BY <1>2, <2>2 DEF NumbersArePast
  <2>6. NumbersArePast'
    BY <2>3, <2>4, <2>5 DEF NumbersArePast
  <2> QED BY <1>1, <2>1, <2>2, <2>3, <2>6 DEF Told
<1>9. CASE EmitFlushed
  <2>1. PICK f \in flushing :
          /\ wire' = Append(wire, Emitted(f))
          /\ flushing' = (flushing \ {f})
                         \cup (IF Further(f).next > f.last THEN {} ELSE {Further(f)})
          /\ UNCHANGED <<page, lines, released, reader>>
    BY <1>9 DEF EmitFlushed, gate
  <2>2. f \in Batches /\ f.last <= Len(released)
    BY <1>1 DEF Told, NumbersArePast
  <2>3. /\ Emitted(f) \in Events /\ IsPast(Emitted(f), Len(released))
        /\ Further(f).last = f.last
        /\ ~(Further(f).next > f.last) => Further(f) \in Batches
    BY <1>2, <2>2, Emissions
  <2>4. \A h \in flushing' : h \in flushing \/ (h = Further(f) /\ ~(Further(f).next > f.last))
    BY <2>1
  <2>5. flushing' \subseteq Batches /\ \A h \in flushing' : h.last <= Len(released)
    BY <1>1, <2>2, <2>3, <2>4 DEF Told, NumbersArePast
  <2>6. reader' \in ReaderType /\ IsPast(reader'.next, Len(released))
    BY <1>1, <2>1 DEF NumbersArePast
  <2> QED BY <1>1, <2>1, <2>3, <2>5, <2>6, Emits
<1>10. CASE ReaderEmits
  <2>1. /\ wire' = Append(wire, reader.next) /\ UNCHANGED <<page, lines, released, flushing>>
        /\ reader' = [reader EXCEPT !.pc = "reading", !.next = Ended]
    BY <1>10 DEF ReaderEmits, gate
  <2>2. reader.next \in Events /\ IsPast(reader.next, Len(released))
    BY <1>1 DEF ReaderType, NumbersArePast
  <2>3. reader' \in ReaderType /\ reader'.next = Ended
    BY <1>1, <1>3, <2>1 DEF ReaderType
  <2>4. flushing' \subseteq Batches /\ \A h \in flushing' : h.last <= Len(released)
    BY <1>1, <2>1 DEF Told, NumbersArePast
  <2> QED BY <1>1, <1>3, <2>1, <2>2, <2>3, <2>4, Emits
<1>11. CASE ReaderTerminated \/ ReaderEnds
  <2>1. PICK e \in {Terminated, Ended} : wire' = Append(wire, e)
    BY <1>11 DEF ReaderTerminated, ReaderEnds
  <2>2. /\ UNCHANGED <<page, lines, released, flushing>>
        /\ \/ reader' = [reader EXCEPT !.terminated = TRUE]
           \/ reader' = [reader EXCEPT !.pc = "done"]
    BY <1>11 DEF ReaderTerminated, ReaderEnds, gate
  <2>3. reader' \in ReaderType /\ reader'.next = reader.next
    BY <1>1, <2>2 DEF ReaderType
  <2>4. IsPast(reader'.next, Len(released))
    BY <2>3 DEF NumbersArePast
  <2>5. flushing' \subseteq Batches /\ \A h \in flushing' : h.last <= Len(released)
    BY <1>1, <2>2 DEF Told, NumbersArePast
  <2>6. e \in Events /\ IsPast(e, Len(released))
    BY <1>3, <2>1
  <2> QED BY <1>1, <2>1, <2>2, <2>3, <2>4, <2>5, <2>6, Emits
<1>12. CASE Dispatch
  <2>1. /\ wire # <<>> /\ wire' = Tail(wire) /\ UNCHANGED <<reader, flushing, released>>
    BY <1>12 DEF Dispatch, gate, session
  <2>2. /\ wire' \in Seq(Events) /\ Head(wire) \in Events /\ Head(wire) = wire[1]
        /\ 1 \in DOMAIN wire
        /\ \A i \in DOMAIN wire' : i + 1 \in DOMAIN wire /\ wire'[i] = wire[i + 1]
    BY <1>1, <2>1, Popped
  <2>3. /\ \A i \in DOMAIN wire' : IsPast(wire'[i], Len(released))
        /\ IsPast(Head(wire), Len(released))
    BY <2>2 DEF NumbersArePast
  <2> DEFINE events == <<Head(wire)>>
  <2>4. /\ events \in Seq(Events) /\ \A i \in DOMAIN events : events[i] = Head(wire)
    BY <2>2
  <2>5. /\ page' \in PageType /\ page'.acks \subseteq 1..Len(released)
        /\ \A i \in DOMAIN page'.held : IsPast(page'.held[i], Len(released))
        /\ lines' \subseteq (1..MaxOutputs) \X (1..MaxOutputs)
    <3>1. CASE page.phase = "starting" /\ page' = [page EXCEPT !.held = Append(@, Head(wire))]
               /\ UNCHANGED lines
      <4>1. page.held \in Seq(Events)
        BY <1>1 DEF PageType
      <4> DEFINE h == Append(page.held, Head(wire))
      <4>2. /\ h \in Seq(Events) /\ DOMAIN h = DOMAIN page.held \cup {Len(page.held) + 1}
            /\ \A i \in DOMAIN page.held : h[i] = page.held[i]
            /\ h[Len(page.held) + 1] = Head(wire)
        BY <2>2, <4>1, Pushed
      <4>3. page' = [page EXCEPT !.held = h]
        BY <3>1
      <4> HIDE DEF h
      <4>4. \A i \in DOMAIN h : IsPast(h[i], Len(released))
        BY <2>3, <4>2 DEF NumbersArePast
      <4>5. page' \in PageType /\ page'.held = h /\ page'.acks = page.acks
        BY <1>1, <4>2, <4>3 DEF PageType
      <4> QED BY <1>1, <3>1, <4>4, <4>5 DEF Told, NumbersArePast
    <3>2. CASE Handle(events)
      <4>1. \A i \in DOMAIN events : IsPast(events[i], Len(released))
        BY <2>3, <2>4
      <4>2. /\ page.acks \subseteq 1..Len(released)
            /\ lines \subseteq (1..MaxOutputs) \X (1..MaxOutputs)
        BY <1>1 DEF Told, NumbersArePast
      <4> HIDE DEF events
      <4>3. /\ page' \in PageType /\ page'.held = <<>>
            /\ page'.acks \subseteq 1..Len(released)
            /\ lines' \subseteq (1..MaxOutputs) \X (1..MaxOutputs)
        BY <1>1, <1>2, <2>4, <3>2, <4>1, <4>2, Handled
      <4>4. DOMAIN <<>> = {}
        OBVIOUS
      <4> QED BY <4>3, <4>4
    <3>3. CASE UNCHANGED <<page, lines>>
      BY <1>1, <3>3 DEF Told, NumbersArePast
    <3> QED BY <1>12, <3>1, <3>2, <3>3 DEF Dispatch
  <2>6. NumbersArePast'
    BY <2>1, <2>3, <2>5 DEF NumbersArePast
  <2> QED BY <1>1, <2>1, <2>2, <2>5, <2>6 DEF Told
<1>13. CASE StartReturns
  <2>1. Handle(page.held) /\ UNCHANGED <<wire, reader, flushing, released>>
    BY <1>13 DEF StartReturns, gate, session
  <2>2. /\ page.held \in Seq(Events) /\ page.acks \subseteq 1..Len(released)
        /\ \A i \in DOMAIN page.held : IsPast(page.held[i], Len(released))
        /\ lines \subseteq (1..MaxOutputs) \X (1..MaxOutputs)
    BY <1>1 DEF Told, NumbersArePast, PageType
  <2>3. /\ page' \in PageType /\ page'.held = <<>>
        /\ page'.acks \subseteq 1..Len(released)
        /\ lines' \subseteq (1..MaxOutputs) \X (1..MaxOutputs)
    BY <1>1, <1>2, <2>1, <2>2, Handled
  <2>4. DOMAIN <<>> = {}
    OBVIOUS
  <2>5. NumbersArePast'
    BY <2>1, <2>3, <2>4 DEF NumbersArePast
  <2> QED BY <1>1, <2>1, <2>3, <2>5 DEF Told
<1>14. CASE StartFails \/ UserStops \/ Disconnect
  <2>1. /\ UNCHANGED <<wire, reader, flushing, released, lines>>
        /\ \/ page' = [page EXCEPT !.phase = "none", !.held = <<>>]
           \/ page' = [page EXCEPT !.phase = "none", !.disconnect = TRUE]
           \/ page' = [page EXCEPT !.disconnect = FALSE]
    BY <1>14 DEF StartFails, UserStops, Disconnect, gate, session
  <2>2. page' \in PageType /\ page'.acks = page.acks /\ page'.held \in {page.held, <<>>}
    <3>1. CASE page' = [page EXCEPT !.phase = "none", !.held = <<>>]
      <4>1. <<>> \in Seq(Events)
        OBVIOUS
      <4> QED BY <1>1, <3>1, <4>1 DEF PageType, Phases
    <3>2. CASE page' = [page EXCEPT !.phase = "none", !.disconnect = TRUE]
      BY <1>1, <3>2 DEF PageType, Phases
    <3>3. CASE page' = [page EXCEPT !.disconnect = FALSE]
      BY <1>1, <3>3 DEF PageType
    <3> QED BY <2>1, <3>1, <3>2, <3>3
  <2>3. DOMAIN <<>> = {}
    OBVIOUS
  <2>4. NumbersArePast'
    BY <2>1, <2>2, <2>3 DEF NumbersArePast
  <2> QED BY <1>1, <2>1, <2>2, <2>4 DEF Told
<1>15. CASE \/ AdapterExits \/ HandshakeSucceeds \/ HandshakeFails \/ Shutdown \/ JoinReader
            \/ OpenConsole \/ UNCHANGED vars
  <2>1. UNCHANGED <<wire, reader, flushing, released, page, lines>>
    BY <1>15 DEF AdapterExits, HandshakeSucceeds, HandshakeFails, Shutdown, JoinReader,
                 OpenConsole, vars, gate, session
  <2> QED BY <1>1, <2>1 DEF Told, NumbersArePast
<1> QED BY <1>7, <1>8, <1>9, <1>10, <1>11, <1>12, <1>13, <1>14, <1>15 DEF Next

(* A page that starts the session or believes in it is told of its end.     *)
LEMMA PageStep ==
    ASSUME TypeOK, NumbersArePast, OutputsSuffice, PiecesArrived,
           StartHearsTheEnd, PageFollowsSession, [Next]_vars
    PROVE  StartHearsTheEnd' /\ PageFollowsSession'
<1>1. /\ page \in PageType /\ reader \in ReaderType /\ wire \in Seq(Events)
      /\ page.held \in Seq(Events) /\ Ended \in Events /\ Terminated \in Events
      /\ Len(released) \in 0..MaxOutputs
  BY ToldIs, NumbersFit DEF Told, PageType, Events, Ended, Terminated
(* A step that leaves the page as it is, and only adds to what it is told.  *)
<1>2. ASSUME page'.phase = page.phase, page'.held = page.held,
             page'.disconnect => page.disconnect, table = "listed" => table' = "listed",
             ToSet(wire) \subseteq ToSet(wire'),
             reader'.pc = "done" => reader.pc = "done" \/ Ended \in ToSet(wire')
      PROVE  StartHearsTheEnd' /\ PageFollowsSession'
  BY <1>2 DEF StartHearsTheEnd, PageFollowsSession
<1>3. ASSUME page'.phase = "none" PROVE StartHearsTheEnd' /\ PageFollowsSession'
  BY <1>3 DEF StartHearsTheEnd, PageFollowsSession
<1>4. ASSUME NEW e \in Events, wire' = Append(wire, e), UNCHANGED <<page, table>>,
             reader'.pc = "done" => reader.pc = "done" \/ e = Ended
      PROVE  StartHearsTheEnd' /\ PageFollowsSession'
  <2>1. ToSet(wire') = ToSet(wire) \cup {e}
    BY <1>1, <1>4, SetPushed
  <2>2. /\ ToSet(wire) \subseteq ToSet(wire')
        /\ reader'.pc = "done" => reader.pc = "done" \/ Ended \in ToSet(wire')
    BY <1>4, <2>1
  <2> QED BY <1>2, <1>4, <2>2
<1>5. ASSUME NEW c \in Categories, OnOutput(c) PROVE StartHearsTheEnd' /\ PageFollowsSession'
  <2>1. /\ UNCHANGED <<page, table, wire>> /\ reader.pc = "reading"
    BY <1>5 DEF OnOutput
  <2>2. reader'.pc # "done"
    <3>1. CASE Numbers(c)
      BY <1>1, <3>1 DEF Numbers, ReaderType
    <3>2. ASSUME NEW k \in Labels, NEW b \in Buckets, Holds(k, b) PROVE reader'.pc # "done"
      BY <2>1, <3>2 DEF Holds
    <3> QED BY <1>5, <3>1, <3>2, NumbersOrHolds
  <2> QED BY <1>2, <2>1, <2>2
<1>6. ASSUME NEW s \in page.acks, AckOutput(s) PROVE StartHearsTheEnd' /\ PageFollowsSession'
  <2>1. /\ UNCHANGED <<table, wire, reader>> /\ page' = [page EXCEPT !.acks = @ \ {s}]
    BY <1>6 DEF AckOutput
  <2>2. /\ page'.phase = page.phase /\ page'.held = page.held
        /\ page'.disconnect = page.disconnect
    BY <1>1, <2>1 DEF PageType
  <2> QED BY <1>2, <2>1, <2>2
<1>7. CASE EmitFlushed
  <2>1. PICK f \in flushing : /\ wire' = Append(wire, Emitted(f))
                              /\ UNCHANGED <<page, table, reader>>
    BY <1>7 DEF EmitFlushed
  <2>2. f \in Batches /\ f.last <= Len(released)
    BY DEF TypeOK, NumbersArePast
  <2>3. Emitted(f) \in Events
    BY <1>1, <2>2, Emissions
  <2> QED BY <1>4, <2>1, <2>3
<1>8. CASE ReaderEmits \/ ReaderTerminated \/ ReaderEnds
  <2>1. UNCHANGED <<page, table>>
    BY <1>8 DEF ReaderEmits, ReaderTerminated, ReaderEnds
  <2>2. CASE ReaderEmits
    <3>1. /\ wire' = Append(wire, reader.next)
          /\ reader' = [reader EXCEPT !.pc = "reading", !.next = Ended]
      BY <2>2 DEF ReaderEmits
    <3>2. reader'.pc # "done" /\ reader.next \in Events
      BY <1>1, <3>1 DEF ReaderType
    <3> QED BY <1>4, <2>1, <3>1, <3>2
  <2>3. CASE ReaderTerminated
    <3>1. /\ wire' = Append(wire, Terminated) /\ reader.pc = "reading"
          /\ reader' = [reader EXCEPT !.terminated = TRUE]
      BY <2>3 DEF ReaderTerminated
    <3>2. reader'.pc # "done"
      BY <1>1, <3>1 DEF ReaderType
    <3> QED BY <1>1, <1>4, <2>1, <3>1, <3>2
  <2>4. CASE ReaderEnds
    <3>1. wire' = Append(wire, Ended)
      BY <2>4 DEF ReaderEnds
    <3> QED BY <1>1, <1>4, <2>1, <3>1
  <2> QED BY <1>8, <2>2, <2>3, <2>4
<1>9. CASE Disconnect
  <2>1. /\ page.disconnect /\ page' = [page EXCEPT !.disconnect = FALSE]
        /\ UNCHANGED <<reader, wire>>
    BY <1>9 DEF Disconnect
  <2>2. page'.phase = page.phase
    BY <1>1, <2>1 DEF PageType
  <2>3. page.phase # "starting" /\ page.phase # "live"
    BY <2>1 DEF StartHearsTheEnd, PageFollowsSession
  <2> QED BY <2>2, <2>3 DEF StartHearsTheEnd, PageFollowsSession
<1>10. CASE Dispatch
  <2> DEFINE events == <<Head(wire)>>
  <2>1. /\ wire # <<>> /\ wire' = Tail(wire) /\ UNCHANGED <<reader, table, released>>
    BY <1>10 DEF Dispatch, gate, session
  <2>2. /\ Head(wire) \in Events /\ wire' \in Seq(Events)
        /\ ToSet(wire) = ToSet(wire') \cup {Head(wire)}
    BY <1>1, <2>1, Popped, SetPopped
  <2>3. CASE page.phase = "starting" /\ page' = [page EXCEPT !.held = Append(@, Head(wire))]
    <3>1. /\ page'.phase = "starting" /\ page'.disconnect = page.disconnect
          /\ page'.held = Append(page.held, Head(wire))
      BY <1>1, <2>3 DEF PageType
    <3>2. ToSet(page'.held) = ToSet(page.held) \cup {Head(wire)}
      BY <1>1, <2>2, <3>1, SetPushed
    <3>3. ToSet(wire') \cup ToSet(page'.held) = ToSet(wire) \cup ToSet(page.held)
      BY <2>2, <3>2
    <3> QED BY <2>1, <2>3, <3>1, <3>3 DEF StartHearsTheEnd, PageFollowsSession
  <2>4. CASE page.phase = "live" /\ Handle(events)
    <3>1. /\ events \in Seq(Events) /\ DOMAIN events = {1} /\ events[1] = Head(wire)
      BY <2>2
    <3>2. \A i \in DOMAIN events : IsPast(events[i], Len(released))
      <4>1. Head(wire) = wire[1] /\ 1 \in DOMAIN wire
        BY <1>1, <2>1, Popped
      <4>2. IsPast(Head(wire), Len(released))
        BY <4>1 DEF NumbersArePast
      <4> QED BY <3>1, <4>2
    <3>3. /\ page.acks \subseteq 1..Len(released)
          /\ lines \subseteq (1..MaxOutputs) \X (1..MaxOutputs)
      BY DEF NumbersArePast, TypeOK
    <3> HIDE DEF events
    <3>4. /\ page'.phase # "starting"
          /\ page'.phase = "live" => /\ \A i \in DOMAIN events : ~Ends(events[i])
                                     /\ page'.disconnect => page.disconnect
      BY <1>1, <2>4, <3>1, <3>2, <3>3, Handled
    <3>5. page'.phase = "live" => Head(wire) # Ended
      BY <3>1, <3>4 DEF Ends
    <3>6. StartHearsTheEnd'
      BY <3>4 DEF StartHearsTheEnd
    <3>7. PageFollowsSession'
      BY <2>1, <2>2, <2>4, <3>4, <3>5 DEF PageFollowsSession
    <3> QED BY <3>6, <3>7
  <2>5. CASE page.phase = "none" /\ UNCHANGED page
    BY <1>3, <2>5
  <2> QED BY <1>10, <2>3, <2>4, <2>5 DEF Dispatch
<1>11. CASE StartReturns
  <2>1. /\ page.phase = "starting" /\ table = "listed" /\ Handle(page.held)
        /\ UNCHANGED <<reader, table, released, wire>>
    BY <1>11 DEF StartReturns, gate, session
  <2>2. /\ \A i \in DOMAIN page.held : IsPast(page.held[i], Len(released))
        /\ page.acks \subseteq 1..Len(released)
        /\ lines \subseteq (1..MaxOutputs) \X (1..MaxOutputs)
    BY DEF NumbersArePast, TypeOK
  <2>3. /\ page'.phase # "starting"
        /\ page'.phase = "live" => /\ \A i \in DOMAIN page.held : ~Ends(page.held[i])
                                   /\ page'.disconnect => page.disconnect
    BY <1>1, <2>1, <2>2, Handled
  <2>4. page'.phase = "live" => Ended \notin ToSet(page.held)
    BY <2>3 DEF Ends, ToSet
  <2>5. /\ ~page.disconnect
        /\ reader.pc = "done" => Ended \in ToSet(wire) \cup ToSet(page.held)
    BY <2>1 DEF StartHearsTheEnd
  <2>6. StartHearsTheEnd'
    BY <2>3 DEF StartHearsTheEnd
  <2>7. PageFollowsSession'
    BY <2>1, <2>3, <2>4, <2>5 DEF PageFollowsSession
  <2> QED BY <2>6, <2>7
<1>12. CASE StartFails \/ UserStops
  <2>1. \/ page' = [page EXCEPT !.phase = "none", !.held = <<>>]
        \/ page' = [page EXCEPT !.phase = "none", !.disconnect = TRUE]
    BY <1>12 DEF StartFails, UserStops
  <2>2. page'.phase = "none"
    BY <1>1, <2>1 DEF PageType
  <2> QED BY <1>3, <2>2
<1>13. CASE \/ AdapterExits \/ HandshakeSucceeds \/ HandshakeFails \/ Shutdown \/ JoinReader
            \/ OpenConsole \/ UNCHANGED vars
  <2>1. UNCHANGED <<wire, reader, page>> /\ (table = "listed" => table' = "listed")
    BY <1>13 DEF AdapterExits, HandshakeSucceeds, HandshakeFails, Shutdown, JoinReader,
                 OpenConsole, vars, gate, session
  <2> QED BY <1>2, <2>1
<1> QED BY <1>5, <1>6, <1>7, <1>8, <1>9, <1>10, <1>11, <1>12, <1>13 DEF Next

-----------------------------------------------------------------------------
(* The type and the invariant *)

(* Every step keeps what the gate is made of, within its limits.            *)
LEMMA GateTypeStep ==
    ASSUME TypeOK, OutputsSuffice, PiecesArrived, [Next]_vars
    PROVE  /\ released' \in Seq(Entries) /\ acked' \in 0..Len(released') /\ Unacked' <= High
           /\ DOMAIN merged' \subseteq Labels
           /\ \A k \in DOMAIN merged' : merged'[k] \in Buckets
<1>1. /\ released \in Seq(Entries) /\ acked \in 0..Len(released) /\ Unacked <= High
      /\ DOMAIN merged \subseteq Labels /\ \A k \in DOMAIN merged : merged[k] \in Buckets
      /\ Len(released) \in Nat /\ High \in Nat \ {0}
  <2>1. released \in Seq(Entries)
    BY DEF TypeOK, Entries
  <2> QED BY <2>1, LenProperties, LimitsArePositive DEF TypeOK, Buckets
<1>2. CASE GateStands
  BY <1>1, <1>2 DEF GateStands, Unacked
<1>3. ASSUME NEW c \in Categories, Numbers(c)
      PROVE  /\ released' \in Seq(Entries) /\ acked' \in 0..Len(released') /\ Unacked' <= High
             /\ merged' = merged
  <2>1. /\ released' \in Seq(Entries) /\ Len(released') = Len(released) + 1
        /\ acked' = acked /\ merged' = merged /\ Len(released) - acked < High
    BY <1>3 DEF Numbers, Unacked
  <2>2. acked' \in 0..Len(released') /\ Len(released') - acked' <= High
    BY <1>1, <2>1
  <2> QED BY <2>1, <2>2 DEF Unacked
<1>4. ASSUME NEW k \in Labels, NEW b \in Buckets, Holds(k, b)
      PROVE  /\ released' = released /\ acked' = acked /\ DOMAIN merged' \subseteq Labels
             /\ \A l \in DOMAIN merged' : merged'[l] \in Buckets
  <2>1. merged'[k] \in Buckets
    BY <1>4, HeldPieces
  <2> QED BY <1>1, <1>4, <2>1 DEF Holds
<1>5. ASSUME NEW m \in Nat, NEW order, Drains(m, order)
      PROVE  /\ released' \in Seq(Entries) /\ acked' \in 0..Len(released') /\ Unacked' <= High
             /\ DOMAIN merged' \subseteq Labels
             /\ \A l \in DOMAIN merged' : merged'[l] \in Buckets
  <2>1. /\ released' \in Seq(Entries) /\ Len(released') = Len(released) + m
        /\ acked' \in acked..Len(released)
        /\ m = 0 \/ Len(released) + m - acked' <= High
        /\ DOMAIN merged' \subseteq DOMAIN merged
        /\ \A l \in DOMAIN merged' : merged'[l] = merged[l]
    BY <1>5 DEF Drains
  <2>2. Len(released) - acked <= High
    BY <1>1 DEF Unacked
  <2>3. acked' \in 0..Len(released') /\ Len(released') - acked' <= High
    BY <1>1, <2>1, <2>2
  <2>4. /\ DOMAIN merged' \subseteq Labels
        /\ \A l \in DOMAIN merged' : merged'[l] \in Buckets
    BY <1>1, <2>1
  <2> QED BY <2>1, <2>3, <2>4 DEF Unacked
<1> QED BY <1>1, <1>2, <1>3, <1>4, <1>5, GateSteps DEF Unacked

(* Every step keeps the state of the session and of the console.            *)
LEMMA SessionTypeStep ==
    ASSUME TypeOK, [Next]_vars
    PROVE  /\ transport' \in {"open", "shut"} /\ table' \in {"starting", "listed", "removed"}
           /\ teardown' \in {"none", "removed", "shut", "joined"} /\ console' \in BOOLEAN
<1> USE DEF TypeOK
<1>1. ASSUME NEW c \in Categories, OnOutput(c)
      PROVE  UNCHANGED <<transport, table, teardown, console>>
  BY <1>1 DEF OnOutput
<1>2. ASSUME NEW s \in page.acks, AckOutput(s)
      PROVE  UNCHANGED <<transport, table, teardown, console>>
  BY <1>2 DEF AckOutput
<1>3. CASE EmitFlushed \/ ReaderEmits \/ ReaderTerminated \/ ReaderEnds
  BY <1>3 DEF EmitFlushed, ReaderEmits, ReaderTerminated, ReaderEnds
<1>4. CASE AdapterExits \/ HandshakeSucceeds \/ HandshakeFails
  BY <1>4 DEF AdapterExits, HandshakeSucceeds, HandshakeFails
<1>5. CASE Disconnect \/ Shutdown \/ JoinReader
  BY <1>5 DEF Disconnect, Shutdown, JoinReader
<1>6. CASE Dispatch \/ StartReturns \/ StartFails \/ UserStops
  BY <1>6 DEF Dispatch, StartReturns, StartFails, UserStops, session
<1>7. CASE OpenConsole \/ UNCHANGED vars
  BY <1>7 DEF OpenConsole, session, vars
<1> QED BY <1>1, <1>2, <1>3, <1>4, <1>5, <1>6, <1>7 DEF Next

(* The inductive invariant holds initially, ...                             *)
LEMMA InitInv == Init => IInv
<1> SUFFICES ASSUME Init PROVE IInv
  OBVIOUS
<1> USE MaxOutputsIsNat, LimitsArePositive DEF Init
<1>1. DOMAIN <<>> = {} /\ Len(<<>>) = 0 /\ ToSet(<<>>) = {}
  BY DEF ToSet
<1>2. IsFiniteSet({}) /\ Cardinality({}) = 0
  BY FS_EmptySet
<1>3. TypeOK
  <2>1. /\ arrived \in 0..MaxOutputs /\ transport \in {"open", "shut"}
        /\ flushing \subseteq Batches /\ table \in {"starting", "listed", "removed"}
        /\ teardown \in {"none", "removed", "shut", "joined"}
        /\ wire \in Seq(Events)
    OBVIOUS
  <2>2. reader \in [pc : {"reading", "emitting", "done"}, next : Events, terminated : BOOLEAN]
    BY DEF Events, Ended
  <2>3. page \in [phase : Phases, held : Seq(Events), acks : SUBSET (1..MaxOutputs),
                  disconnect : BOOLEAN]
    BY DEF Phases
  <2>4. /\ released \in Seq([label : Labels, text : Texts, elided : 0..MaxOutputs])
        /\ acked \in 0..Len(released) /\ Unacked <= High
    BY <1>1 DEF Unacked
  <2>5. /\ DOMAIN merged \subseteq Labels /\ Cardinality(DOMAIN merged) <= MaxCategories
        /\ \A k \in DOMAIN merged : merged[k] \in [text : Texts, elided : 0..MaxOutputs]
    BY <1>1, <1>2
  <2>6. console \in BOOLEAN /\ lines \subseteq (1..MaxOutputs) \X (1..MaxOutputs)
    BY ConsoleOpenIsBoolean
  <2> QED BY <2>1, <2>2, <2>3, <2>4, <2>5, <2>6 DEF TypeOK
<1>4. NumbersArePast
  BY <1>1 DEF NumbersArePast, IsPast, Ended
<1>5. OutputsSuffice /\ OverflowHasRoom /\ PiecesArrived
  BY <1>1, <1>2 DEF OutputsSuffice, OverflowHasRoom, PiecesArrived
<1>6. GateKeepsOrder
  BY <1>1 DEF GateKeepsOrder
<1>7. Numbered = {} /\ HeldBack = {} /\ NumberedGaps = {} /\ HeldGaps = {}
  BY <1>1 DEF Numbered, HeldBack, NumberedGaps, HeldGaps
<1>8. CountsAreFinite
  BY <1>2, <1>7 DEF CountsAreFinite
<1>9. EveryPieceAccounted
  BY <1>2, <1>7 DEF EveryPieceAccounted
<1>10. StartHearsTheEnd /\ PageFollowsSession
  BY DEF StartHearsTheEnd, PageFollowsSession
<1> QED BY <1>3, <1>4, <1>5, <1>6, <1>8, <1>9, <1>10 DEF IInv

(* ... every step keeps it, ...                                             *)
LEMMA StepInv == IInv /\ [Next]_vars => IInv'
<1> SUFFICES ASSUME IInv, [Next]_vars PROVE IInv'
  OBVIOUS
<1> USE DEF IInv
<1>1. Told'
  BY ToldStep
<1>2. TypeOK'
  <2>1. /\ released' \in Seq(Entries) /\ acked' \in 0..Len(released') /\ Unacked' <= High
        /\ DOMAIN merged' \subseteq Labels
        /\ \A k \in DOMAIN merged' : merged'[k] \in Buckets
    BY GateTypeStep
  <2>2. /\ transport' \in {"open", "shut"} /\ table' \in {"starting", "listed", "removed"}
        /\ teardown' \in {"none", "removed", "shut", "joined"} /\ console' \in BOOLEAN
    BY SessionTypeStep
  <2>3. arrived' \in 0..MaxOutputs /\ Cardinality(DOMAIN merged') <= MaxCategories
    BY NumbersFit, RoomStep
  <2> QED BY <1>1, <2>1, <2>2, <2>3 DEF TypeOK, Told, ReaderType, PageType, Entries, Buckets
<1>3. NumbersArePast'
  BY <1>1 DEF Told
<1>4. OutputsSuffice' /\ OverflowHasRoom'
  BY OutputsStep, RoomStep
<1>5. PiecesArrived' /\ GateKeepsOrder'
  BY PiecesStep, OrderStep
<1>6. CountsAreFinite' /\ EveryPieceAccounted'
  BY AccountsStep
<1>7. StartHearsTheEnd' /\ PageFollowsSession'
  BY PageStep
<1> QED BY <1>2, <1>3, <1>4, <1>5, <1>6, <1>7

(* ... and so it always holds.                                              *)
LEMMA AlwaysInv == Spec => []IInv
BY InitInv, StepInv, PTL DEF Spec

(* Every variable keeps its type, and the gate its limits: at most High      *)
(* outputs are unacknowledged, at most MaxCategories labels held back, each  *)
(* with at most MergeCap pieces.                                            *)
THEOREM TypeCorrect == Spec => []TypeOK
<1>1. IInv => TypeOK
  BY DEF IInv
<1> QED BY <1>1, AlwaysInv, PTL

(* Under one label output is numbered in the order of its arrival, whatever *)
(* on_output and ack_output merge and drain, and in whatever order.         *)
THEOREM OrderIsKept == Spec => []GateKeepsOrder
<1>1. IInv => GateKeepsOrder
  BY DEF IInv
<1> QED BY <1>1, AlwaysInv, PTL

(* Every piece of output is numbered once, held back once, or counted in an *)
(* elision.                                                                 *)
THEOREM PiecesAreAccounted == Spec => []EveryPieceAccounted
<1>1. IInv => EveryPieceAccounted
  BY DEF IInv
<1> QED BY <1>1, AlwaysInv, PTL

(* The page believes in a session only while it is listed and, if its reader *)
(* has ended, word of that is on its way.                                   *)
THEOREM PageIsTold == Spec => []PageFollowsSession
<1>1. IInv => PageFollowsSession
  BY DEF IInv
<1> QED BY <1>1, AlwaysInv, PTL
=============================================================================
