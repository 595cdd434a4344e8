----------------------- MODULE TerminalSessionProofs ------------------------
(***************************************************************************)
(* Theorems about TerminalSession, for every size of the marks, of chunks, *)
(* of the pty's buffer, and any numbers of chunks, layouts and keys.       *)
(***************************************************************************)
EXTENDS TerminalSession, FiniteSetTheorems, SequenceTheorems, TLAPS

(* The commands of one kind that wait for the vt thread, and the calls.     *)
Indexes(s, op) == {i \in DOMAIN s : s[i].op = op}
Count(s, op) == Cardinality(Indexes(s, op))
SeqsOf(s) == {s[i].seq : i \in DOMAIN s}
AckSeqs(s) == {s[i].seq : i \in Indexes(s, "ack")}
CallsOf(s, op) == {c \in s : c.op = op}

-----------------------------------------------------------------------------
(* The inductive invariant *)

(* A pane opens its session or attaches to one, and each has its phases.    *)
PhasesApart ==
    /\ page.attach => page.phase # "starting" /\ page.held = <<>>
    /\ ~page.attach => page.phase \notin {"unaware", "acking", "acked", "abandoned"}
    /\ ~page.attach /\ Showing => page.listening

(* What is sent to the vt thread was read.                                  *)
SendsWhatWasRead == reader.pc = "sending" => reader.bytes \in ChunkSizes

(* No frame is numbered that was not emitted.                               *)
SeqsArePast ==
    /\ \A i \in DOMAIN wire : wire[i].seq < gate.next
    /\ \A i \in DOMAIN page.held : page.held[i].seq < gate.next
    /\ unpainted # None => unpainted < gate.next
    /\ page.expected <= gate.next

(* The chunks written are drawn or somewhere before the vt thread, ...      *)
ChunksCounted ==
    screen.drawn + Count(chan, "feed") + (IF reader.pc = "sending" THEN 1 ELSE 0) + Len(pty)
        <= written

(* ... and each frame is due to a chunk, to a change of the size, to the    *)
(* size asked for on attaching, or is the first.                            *)
FramesCounted ==
    /\ IsFiniteSet(calls)
    /\ gate.next + (IF screen.full \/ screen.drawn # screen.base THEN 1 ELSE 0)
       + Count(chan, "resize") + Cardinality(CallsOf(calls, "resize"))
         <= 1 + screen.drawn + page.wanted
            + (IF page.attach /\ page.phase \in {"live", "closed", "gone"} THEN 1 ELSE 0)

(* The credit of the gate, wherever it is between the emission of a frame   *)
(* and the handling of its ack.                                             *)
Due(un) == IF un = None THEN 0 ELSE 1
AckCalls(ca) == Cardinality(CallsOf(ca, "ack"))

Total(wi, he, un, ca, ch) == Len(wi) + Len(he) + Due(un) + AckCalls(ca) + Count(ch, "ack")

Tokens == Total(wire, page.held, unpainted, calls, chan)

(* It is in one place, and always of the newest frame.                      *)
CreditIsOne ==
    ~page.attach =>
        /\ Tokens <= 1
        /\ Tokens = 1 => gate.awaiting
        /\ vt = "running" /\ gate.awaiting /\ Showing => Tokens = 1
        /\ vt = "starting" => ~gate.awaiting
        /\ gate.awaiting => gate.next > 0

Seen(wi, he, un, ca, ch) ==
    SeqsOf(wi) \cup SeqsOf(he) \cup ({un} \ {None})
    \cup {c.seq : c \in CallsOf(ca, "ack")} \cup AckSeqs(ch)

Credits == Seen(wire, page.held, unpainted, calls, chan)

CreditIsNewest == ~page.attach => Credits \subseteq {Newest}

(* What is to be painted is on the screen of a live pane.                   *)
PaintIsLive == ~page.attach /\ unpainted # None => page.phase = "live"

(* A pane that shows its session has not killed it.                         *)
ShownIsListed == ~page.attach /\ Showing => listed /\ KillCall \notin calls

(* A frame in flight fits the grid it is going to meet, ...                 *)
Fits(f) ==
    /\ f.upto = screen.base
    /\ ~screen.full => f.size = screen.size
    /\ f.full \/ (f.base = grid.version /\ f.size = grid.size)
    /\ f.seq >= page.expected

(* ... and with none in flight the grid shows what was last drawn.          *)
FramesFit ==
    ~page.attach /\ Showing =>
        /\ gate.next = 0 => screen.full
        /\ \A i \in DOMAIN wire : Fits(wire[i])
        /\ \A i \in DOMAIN page.held : Fits(page.held[i])
        /\ wire = <<>> /\ page.held = <<>> /\ gate.next > 0
             => /\ grid.version = screen.base
                /\ ~screen.full => grid.size = screen.size

IInv == /\ TypeOK /\ SendsWhatWasRead /\ PhasesApart /\ SeqsArePast /\ ChunksCounted /\ FramesCounted
        /\ FlowConserved /\ KeyIsAnswered
        /\ CreditIsOne /\ CreditIsNewest /\ PaintIsLive /\ ShownIsListed /\ FramesFit /\ ScreenIsWhole
-----------------------------------------------------------------------------
(* The commands that wait for the vt thread *)

(* Pushing an element on a sequence.                                        *)
LEMMA Pushed ==
    ASSUME NEW S, NEW s \in Seq(S), NEW c \in S
    PROVE  /\ Append(s, c) \in Seq(S)
           /\ DOMAIN s = 1..Len(s) /\ Len(s) \in Nat
           /\ DOMAIN Append(s, c) = DOMAIN s \cup {Len(s) + 1} /\ Len(s) + 1 \notin DOMAIN s
           /\ \A i \in DOMAIN s : Append(s, c)[i] = s[i]
           /\ Append(s, c)[Len(s) + 1] = c
           /\ Len(Append(s, c)) = Len(s) + 1
<1>1. Len(s) \in Nat /\ DOMAIN s = 1..Len(s)
  BY LenProperties
<1>2. /\ Append(s, c) \in Seq(S)
      /\ Len(Append(s, c)) = Len(s) + 1
      /\ \A i \in 1..Len(s) : Append(s, c)[i] = s[i]
      /\ Append(s, c)[Len(s) + 1] = c
  BY AppendProperties
<1>3. DOMAIN Append(s, c) = 1..(Len(s) + 1)
  BY <1>2, LenProperties
<1>4. 1..(Len(s) + 1) = (1..Len(s)) \cup {Len(s) + 1} /\ Len(s) + 1 \notin 1..Len(s)
  BY <1>1
<1> QED BY <1>1, <1>2, <1>3, <1>4

(* Taking the first element off a sequence.                                 *)
LEMMA Popped ==
    ASSUME NEW S, NEW s \in Seq(S), s # <<>>
    PROVE  /\ Tail(s) \in Seq(S) /\ Head(s) \in S /\ Head(s) = s[1]
           /\ Len(s) \in Nat \ {0} /\ DOMAIN s = 1..Len(s) /\ 1 \in DOMAIN s
           /\ Len(Tail(s)) = Len(s) - 1
           /\ DOMAIN Tail(s) = 1..(Len(s) - 1)
           /\ \A i \in DOMAIN Tail(s) : i + 1 \in DOMAIN s /\ Tail(s)[i] = s[i + 1]
           /\ \A i \in DOMAIN s : i # 1 => i - 1 \in DOMAIN Tail(s) /\ Tail(s)[i - 1] = s[i]
<1>1. Len(s) \in Nat \ {0} /\ DOMAIN s = 1..Len(s)
  BY LenProperties, EmptySeq
<1>2. /\ Head(s) \in S /\ Tail(s) \in Seq(S)
      /\ Len(Tail(s)) = Len(s) - 1
      /\ \A i \in 1..Len(Tail(s)) : Tail(s)[i] = s[i + 1]
  BY HeadTailProperties
<1>3. Head(s) = s[1]
  BY <1>1
<1>4. DOMAIN Tail(s) = 1..(Len(s) - 1)
  BY <1>2, LenProperties
<1>5. \A i \in 1..(Len(s) - 1) : i + 1 \in 1..Len(s)
  BY <1>1
<1>6. \A i \in 1..Len(s) : i # 1 => i - 1 \in 1..(Len(s) - 1) /\ (i - 1) + 1 = i
  BY <1>1
<1>7. 1 \in 1..Len(s)
  BY <1>1
<1> QED BY <1>1, <1>2, <1>3, <1>4, <1>5, <1>6, <1>7

(* A channel holds finitely many commands.                                  *)
LEMMA CountIsNat ==
    ASSUME NEW S, NEW s \in Seq(S), NEW op
    PROVE  IsFiniteSet(Indexes(s, op)) /\ Count(s, op) \in Nat
<1>1. Len(s) \in Nat /\ DOMAIN s = 1..Len(s)
  BY LenProperties
<1>2. IsFiniteSet(1..Len(s))
  BY <1>1, FS_Interval
<1>3. Indexes(s, op) \in SUBSET (1..Len(s))
  BY <1>1 DEF Indexes
<1>4. IsFiniteSet(Indexes(s, op))
  BY <1>2, <1>3, FS_Subset
<1> QED BY <1>4, FS_CardinalityType DEF Count

(* A command sent is one more of its kind.                                  *)
LEMMA CountSent ==
    ASSUME NEW S, NEW s \in Seq(S), NEW c \in S, NEW op
    PROVE  Count(Append(s, c), op) = Count(s, op) + (IF c.op = op THEN 1 ELSE 0)
<1>1. IsFiniteSet(Indexes(s, op)) /\ Count(s, op) \in Nat
  BY CountIsNat
<1>2. CASE c.op = op
  <2>1. Indexes(Append(s, c), op) = Indexes(s, op) \cup {Len(s) + 1}
    BY <1>2, Pushed DEF Indexes
  <2>2. Len(s) + 1 \notin Indexes(s, op)
    BY Pushed DEF Indexes
  <2>3. Cardinality(Indexes(s, op) \cup {Len(s) + 1}) = Cardinality(Indexes(s, op)) + 1
    BY <1>1, <2>2, FS_AddElement
  <2> QED BY <1>2, <2>1, <2>3 DEF Count
<1>3. CASE c.op # op
  <2>1. Indexes(Append(s, c), op) = Indexes(s, op)
    BY <1>3, Pushed DEF Indexes
  <2> QED BY <1>1, <1>3, <2>1 DEF Count
<1> QED BY <1>2, <1>3

(* A command received is one less of its kind.                              *)
LEMMA CountReceived ==
    ASSUME NEW S, NEW s \in Seq(S), s # <<>>, NEW op
    PROVE  Count(s, op) = Count(Tail(s), op) + (IF Head(s).op = op THEN 1 ELSE 0)
<1> DEFINE rest == Indexes(s, op) \ {1}
           back == [i \in rest |-> i - 1]
<1>1. IsFiniteSet(Indexes(s, op)) /\ Count(s, op) \in Nat
  BY CountIsNat
<1>2. IsFiniteSet(rest) /\ Cardinality(rest) = IF 1 \in Indexes(s, op) THEN Count(s, op) - 1
                                                ELSE Count(s, op)
  BY <1>1, FS_RemoveElement DEF Count
<1>3. 1 \in Indexes(s, op) <=> Head(s).op = op
  BY Popped DEF Indexes
<1>4. back \in Bijection(rest, Indexes(Tail(s), op))
  <2>1. \A i \in rest : i \in Nat /\ i - 1 \in Indexes(Tail(s), op)
    BY Popped DEF Indexes
  <2>2. \A j \in Indexes(Tail(s), op) : j \in Nat /\ j + 1 \in rest
    BY Popped DEF Indexes
  <2>3. \A j \in Indexes(Tail(s), op) : back[j + 1] = j
    BY <2>2
  <2>4. back \in [rest -> Indexes(Tail(s), op)]
    BY <2>1
  <2>5. \A i, j \in rest : back[i] = back[j] => i = j
    BY <2>1
  <2> HIDE DEF back
  <2>6. back \in Injection(rest, Indexes(Tail(s), op))
    BY <2>4, <2>5 DEF Injection, IsInjective
  <2>7. back \in Surjection(rest, Indexes(Tail(s), op))
    BY <2>2, <2>3, <2>4 DEF Surjection
  <2> QED BY <2>6, <2>7 DEF Bijection
<1>5. ExistsBijection(rest, Indexes(Tail(s), op))
  BY <1>4 DEF ExistsBijection
<1>6. Cardinality(Indexes(Tail(s), op)) = Cardinality(rest)
  BY <1>2, <1>5, FS_Bijection
<1> QED BY <1>1, <1>2, <1>3, <1>6 DEF Count

(* The bytes of one command, at one place.                                  *)
LEMMA Slab ==
    ASSUME NEW i, NEW n \in Nat
    PROVE  IsFiniteSet({i} \X (1..n)) /\ Cardinality({i} \X (1..n)) = n
<1>1. IsFiniteSet({i}) /\ Cardinality({i}) = 1
  BY FS_Singleton
<1>2. IsFiniteSet(1..n) /\ Cardinality(1..n) = n
  BY FS_Interval
<1>3. /\ IsFiniteSet({i} \X (1..n))
      /\ Cardinality({i} \X (1..n)) = Cardinality({i}) * Cardinality(1..n)
  BY <1>1, <1>2, FS_Product, Zenon
<1> QED BY <1>1, <1>2, <1>3

(* What is fed has a size.                                                  *)
LEMMA FedHasSize ==
    ASSUME NEW c \in Commanded, c.op = "feed"
    PROVE  c.bytes \in ChunkSizes /\ c.bytes \in Nat
<1>1. c \in [op : {"feed"}, bytes : ChunkSizes]
  BY DEF Commanded, Modes, Shutdown
<1> QED BY <1>1, ChunksArePositive

(* A channel holds finitely many bytes.                                     *)
LEMMA BytesAreFinite ==
    ASSUME NEW s \in Seq(Commanded)
    PROVE  IsFiniteSet(Bytes(s)) /\ Cardinality(Bytes(s)) \in Nat
<1> DEFINE slab == [i \in Indexes(s, "feed") |-> {i} \X (1..s[i].bytes)]
           slabs == {slab[i] : i \in Indexes(s, "feed")}
<1>1. IsFiniteSet(Indexes(s, "feed"))
  BY CountIsNat
<1>2. slab \in Surjection(Indexes(s, "feed"), slabs)
  BY DEF Surjection
<1>3. IsFiniteSet(slabs)
  BY <1>1, <1>2, FS_Surjection
<1>4. ASSUME NEW T \in slabs PROVE IsFiniteSet(T)
  <2>1. PICK i \in Indexes(s, "feed") : T = {i} \X (1..s[i].bytes)
    BY <1>4
  <2>2. s[i] \in Commanded /\ s[i].op = "feed"
    BY LenProperties, ElementOfSeq DEF Indexes
  <2>3. s[i].bytes \in Nat
    BY <2>2, FedHasSize
  <2> QED BY <2>1, <2>3, Slab
<1>5. Bytes(s) = UNION slabs
  BY DEF Bytes, Indexes
<1>6. IsFiniteSet(Bytes(s))
  BY <1>3, <1>4, <1>5, FS_UNION
<1> QED BY <1>6, FS_CardinalityType

(* A byte is in the channel at the place of its command.                    *)
LEMMA ByteOf ==
    ASSUME NEW s, NEW p
    PROVE  p \in Bytes(s) <=>
             \E i \in DOMAIN s : s[i].op = "feed" /\ \E b \in 1..s[i].bytes : p = <<i, b>>
BY DEF Bytes

(* Sending a command adds the bytes it feeds.                               *)
LEMMA BytesSent ==
    ASSUME NEW s \in Seq(Commanded), NEW c \in Commanded
    PROVE  Cardinality(Bytes(Append(s, c))) =
             Cardinality(Bytes(s)) + (IF c.op = "feed" THEN c.bytes ELSE 0)
<1> DEFINE t == Append(s, c)
           old == {j \in DOMAIN s : s[j].op = "feed"}
           slab(i) == {i} \X (1..t[i].bytes)
<1>1. /\ DOMAIN t = DOMAIN s \cup {Len(s) + 1} /\ Len(s) + 1 \notin DOMAIN s
      /\ \A i \in DOMAIN s : t[i] = s[i]
      /\ t[Len(s) + 1] = c
  BY Pushed
<1>2. IsFiniteSet(Bytes(s)) /\ Cardinality(Bytes(s)) \in Nat
  BY BytesAreFinite
<1> HIDE DEF t
<1>3. CASE c.op # "feed"
  <2>1. {j \in DOMAIN t : t[j].op = "feed"} = old
    BY <1>1, <1>3
  <2>2. Bytes(t) = Bytes(s)
    BY <1>1, <2>1 DEF Bytes
  <2> QED BY <1>2, <1>3, <2>2 DEF t
<1>4. CASE c.op = "feed"
  <2> DEFINE new == {Len(s) + 1} \X (1..c.bytes)
  <2>1. {j \in DOMAIN t : t[j].op = "feed"} = old \cup {Len(s) + 1}
    BY <1>1, <1>4
  <2>2. Bytes(t) = UNION {slab(i) : i \in old \cup {Len(s) + 1}}
    BY <2>1 DEF Bytes
  <2>3. Bytes(s) = UNION {slab(i) : i \in old}
    BY <1>1 DEF Bytes
  <2>4. slab(Len(s) + 1) = new
    BY <1>1
  <2> HIDE DEF slab
  <2>5. Bytes(t) = Bytes(s) \cup new
    BY <2>2, <2>3, <2>4
  <2>6. Bytes(s) \cap new = {}
    <3>1. \A p \in Bytes(s) : p[1] \in DOMAIN s
      BY ByteOf
    <3>2. \A p \in new : p[1] = Len(s) + 1
      OBVIOUS
    <3> QED BY <1>1, <3>1, <3>2
  <2>7. c.bytes \in Nat
    BY <1>4, FedHasSize
  <2>8. IsFiniteSet(new) /\ Cardinality(new) = c.bytes
    BY <2>7, Slab
  <2>9. Cardinality(Bytes(s) \cap new) = 0
    BY <2>6, FS_EmptySet
  <2>10. Cardinality(Bytes(t)) = Cardinality(Bytes(s)) + c.bytes - 0
    BY <1>2, <2>5, <2>8, <2>9, FS_Union
  <2> QED BY <1>2, <1>4, <2>7, <2>10 DEF t
<1> QED BY <1>3, <1>4

(* Receiving a command takes the bytes it feeds.                            *)
LEMMA BytesReceived ==
    ASSUME NEW s \in Seq(Commanded), s # <<>>
    PROVE  Cardinality(Bytes(s)) =
             Cardinality(Bytes(Tail(s))) + (IF Head(s).op = "feed" THEN Head(s).bytes ELSE 0)
<1> DEFINE t == Tail(s)
           first == {p \in Bytes(s) : p[1] = 1}
           rest == {p \in Bytes(s) : p[1] # 1}
           back == [p \in rest |-> <<p[1] - 1, p[2]>>]
<1>1. /\ Head(s) \in Commanded /\ Head(s) = s[1] /\ t \in Seq(Commanded)
      /\ 1 \in DOMAIN s /\ DOMAIN s \subseteq Nat /\ DOMAIN t \subseteq Nat \ {0}
      /\ \A i \in DOMAIN t : i + 1 \in DOMAIN s /\ t[i] = s[i + 1]
      /\ \A i \in DOMAIN s : i # 1 => i - 1 \in DOMAIN t /\ t[i - 1] = s[i]
  BY Popped
<1>2. IsFiniteSet(Bytes(s)) /\ Cardinality(Bytes(s)) \in Nat
  BY BytesAreFinite
<1> HIDE DEF t
<1>3. IsFiniteSet(first) /\ IsFiniteSet(rest)
  <2>1. first \in SUBSET Bytes(s) /\ rest \in SUBSET Bytes(s)
    OBVIOUS
  <2> QED BY <1>2, <2>1, FS_Subset
<1>4. Cardinality(Bytes(s)) = Cardinality(first) + Cardinality(rest)
  <2>1. Bytes(s) = first \cup rest /\ first \cap rest = {}
    OBVIOUS
  <2>2. Cardinality(first \cap rest) = 0
    BY <2>1, FS_EmptySet
  <2>3. Cardinality(first) \in Nat /\ Cardinality(rest) \in Nat
    BY <1>3, FS_CardinalityType
  <2> HIDE DEF first, rest
  <2> QED BY <1>3, <2>1, <2>2, <2>3, FS_Union
<1>5. Cardinality(first) = IF Head(s).op = "feed" THEN Head(s).bytes ELSE 0
  <2>1. CASE Head(s).op = "feed"
    <3>1. \A p : p \in first <=> p \in {1} \X (1..Head(s).bytes)
      BY <1>1, <2>1, ByteOf
    <3>2. first = {1} \X (1..Head(s).bytes)
      BY <3>1
    <3>3. Head(s).bytes \in Nat
      BY <1>1, <2>1, FedHasSize
    <3>4. Cardinality({1} \X (1..Head(s).bytes)) = Head(s).bytes
      BY <3>3, Slab
    <3> HIDE DEF first
    <3> QED BY <2>1, <3>2, <3>4
  <2>2. CASE Head(s).op # "feed"
    <3>1. first = {}
      BY <1>1, <2>2, ByteOf
    <3> QED BY <2>2, <3>1, FS_EmptySet
  <2> QED BY <2>1, <2>2
<1>6. back \in Bijection(rest, Bytes(t))
  <2>1. ASSUME NEW p \in rest
        PROVE  p[1] \in Nat /\ p = <<p[1], p[2]>> /\ <<p[1] - 1, p[2]>> \in Bytes(t)
    <3>1. PICK i \in DOMAIN s : s[i].op = "feed" /\ \E b \in 1..s[i].bytes : p = <<i, b>>
      BY ByteOf
    <3>2. i - 1 \in DOMAIN t /\ t[i - 1] = s[i]
      BY <1>1, <3>1
    <3>3. PICK b \in 1..s[i].bytes : p = <<i, b>>
      BY <3>1
    <3>4. p[1] = i /\ p[2] = b /\ i # 1
      BY <3>3
    <3>5. <<i - 1, b>> \in Bytes(t)
      BY <3>1, <3>2, <3>3, ByteOf
    <3> QED BY <1>1, <3>3, <3>4, <3>5
  <2>2. ASSUME NEW q \in Bytes(t)
        PROVE  \E p \in rest : back[p] = q
    <3>1. PICK i \in DOMAIN t : t[i].op = "feed" /\ \E b \in 1..t[i].bytes : q = <<i, b>>
      BY ByteOf
    <3>2. i \in Nat \ {0} /\ i + 1 \in DOMAIN s /\ t[i] = s[i + 1]
      BY <1>1
    <3>3. <<i + 1, q[2]>> \in rest
      BY <3>1, <3>2, ByteOf
    <3>4. back[<<i + 1, q[2]>>] = q
      BY <3>1, <3>2, <3>3
    <3> QED BY <3>3, <3>4
  <2>3. back \in [rest -> Bytes(t)]
    BY <2>1
  <2>4. ASSUME NEW p \in rest, NEW q \in rest, back[p] = back[q] PROVE p = q
    <3>1. PICK i \in DOMAIN s : \E b \in 1..s[i].bytes : p = <<i, b>>
      BY <2>4, ByteOf
    <3>2. PICK b \in 1..s[i].bytes : p = <<i, b>>
      BY <3>1
    <3>3. PICK j \in DOMAIN s : \E d \in 1..s[j].bytes : q = <<j, d>>
      BY <2>4, ByteOf
    <3>4. PICK d \in 1..s[j].bytes : q = <<j, d>>
      BY <3>3
    <3>5. back[p] = <<i - 1, b>> /\ back[q] = <<j - 1, d>>
      BY <2>4, <3>2, <3>4
    <3>6. <<i - 1, b>> = <<j - 1, d>>
      BY <2>4, <3>5
    <3>7. i - 1 = j - 1 /\ b = d
      BY <3>6
    <3>8. i = j
      BY <1>1, <3>7
    <3> QED BY <3>2, <3>4, <3>7, <3>8
  <2> HIDE DEF back, rest
  <2>5. back \in Injection(rest, Bytes(t))
    BY <2>3, <2>4 DEF Injection, IsInjective
  <2>6. back \in Surjection(rest, Bytes(t))
    BY <2>2, <2>3 DEF Surjection
  <2> QED BY <2>5, <2>6 DEF Bijection
<1>7. ExistsBijection(rest, Bytes(t))
  BY <1>6 DEF ExistsBijection
<1>8. Cardinality(Bytes(t)) = Cardinality(rest)
  BY <1>3, <1>7, FS_Bijection
<1>9. Cardinality(first) \in Nat /\ Cardinality(rest) \in Nat
  BY <1>3, FS_CardinalityType
<1> HIDE DEF first, rest
<1> QED BY <1>4, <1>5, <1>8, <1>9 DEF t

-----------------------------------------------------------------------------
(* Operators of the model *)

(* What a frame no older than expected makes of the page, ...               *)
Applied(f, p) ==
    /\ f.seq >= p.expected
    /\ grid' = Shown(grid, f) /\ unpainted' = f.seq /\ page' = [p EXCEPT !.expected = f.seq + 1]

(* ... and of a page p that has none to show.                               *)
Stands(p) == UNCHANGED <<grid, unpainted>> /\ page' = p

(* No frame is shown.                                                       *)
LEMMA ShowNone ==
    ASSUME NEW p, ShowFrames(<<>>, p)
    PROVE  Stands(p)
<1> DEFINE fresh == {i \in DOMAIN <<>> : <<>>[i].seq >= p.expected}
           body(f) == [i \in 0..0 |-> IF i = 0 THEN grid
                                      ELSE IF i \in fresh THEN Shown(f[i - 1], <<>>[i])
                                      ELSE f[i - 1]]
           show == CHOOSE f : f = body(f)
<1>1. Len(<<>>) = 0 /\ fresh = {}
  OBVIOUS
<1>2. body([i \in 0..0 |-> grid]) = [i \in 0..0 |-> grid]
  OBVIOUS
<1>3. show = body(show)
  BY <1>2
<1>4. show[0] = grid
  BY <1>3
<1>5. grid' = show[0] /\ unpainted' = unpainted /\ page' = p
  BY <1>1, Zenon DEF ShowFrames
<1> QED BY <1>4, <1>5 DEF Stands

(* One frame is shown, unless it is older than what is expected.            *)
LEMMA ShowOne ==
    ASSUME NEW f \in Frames, NEW p, p.expected \in Nat, ShowFrames(<<f>>, p)
    PROVE  Applied(f, p) \/ (f.seq < p.expected /\ Stands(p))
<1> DEFINE fresh == {i \in DOMAIN <<f>> : <<f>>[i].seq >= p.expected}
           body(g) == [i \in 0..1 |-> IF i = 0 THEN grid
                                      ELSE IF i \in fresh THEN Shown(g[i - 1], <<f>>[i])
                                      ELSE g[i - 1]]
           shows == [i \in 0..1 |-> IF i = 1 /\ 1 \in fresh THEN Shown(grid, f) ELSE grid]
           show == CHOOSE g : g = body(g)
<1>1. Len(<<f>>) = 1 /\ DOMAIN <<f>> = {1} /\ <<f>>[1] = f
  OBVIOUS
<1>2. f.seq \in Nat
  BY DEF Frames, Seqs
<1>3. body(shows) = shows
  <2>1. \A i \in 0..1 : i = 0 \/ i = 1
    OBVIOUS
  <2>2. shows[0] = grid
    OBVIOUS
  <2> HIDE DEF fresh
  <2>3. body(shows)[0] = shows[0]
    OBVIOUS
  <2>4. body(shows)[1] = shows[1]
    BY <1>1, <2>2
  <2> QED BY <2>1, <2>3, <2>4
<1>4. show = body(show)
  BY <1>3
<1>5. show[0] = grid /\ show[1] = IF 1 \in fresh THEN Shown(grid, f) ELSE grid
  <2>1. 0 \in 0..1 /\ 1 \in 0..1
    OBVIOUS
  <2> HIDE DEF fresh, show
  <2>2. show = [i \in 0..1 |-> IF i = 0 THEN grid
                               ELSE IF i \in fresh THEN Shown(show[i - 1], <<f>>[i])
                               ELSE show[i - 1]]
    BY <1>4
  <2>3. show[0] = grid
    BY <2>1, <2>2
  <2>4. show[1] = IF 1 \in fresh THEN Shown(show[0], <<f>>[1]) ELSE show[0]
    BY <2>1, <2>2
  <2> QED BY <1>1, <2>3, <2>4
<1>6. /\ grid' = show[1]
      /\ unpainted' = IF fresh = {} THEN unpainted ELSE <<f>>[Max(fresh)].seq
      /\ page' = IF fresh = {} THEN p ELSE [p EXCEPT !.expected = <<f>>[Max(fresh)].seq + 1]
  BY <1>1, Zenon DEF ShowFrames
<1>7. CASE f.seq >= p.expected
  <2>1. fresh = {1}
    BY <1>1, <1>7
  <2>2. Max({1}) = 1
    BY DEF Max
  <2> HIDE DEF fresh, show
  <2> QED BY <1>1, <1>5, <1>6, <1>7, <2>1, <2>2 DEF Applied
<1>8. CASE ~(f.seq >= p.expected)
  <2>1. fresh = {}
    BY <1>1, <1>8
  <2>2. f.seq < p.expected
    BY <1>2, <1>8
  <2> HIDE DEF fresh, show
  <2> QED BY <1>5, <1>6, <2>1, <2>2 DEF Stands
<1> QED BY <1>7, <1>8

(* An acknowledgement takes what it names off the count, if it is there.    *)
LEMMA AcknowledgedCount ==
    ASSUME flow \in [unacked : Nat, paused : BOOLEAN, cancelled : BOOLEAN], NEW n \in Nat
    PROVE  LET total == IF flow.unacked >= n THEN flow.unacked - n ELSE 0 IN
           /\ total \in Nat
           /\ Acknowledged(n) = [flow EXCEPT !.unacked = total, !.paused = @ /\ total > Low]
<1>1. flow.unacked \in Nat
  OBVIOUS
<1>2. Max({flow.unacked, n}) = IF flow.unacked >= n THEN flow.unacked ELSE n
  BY <1>1 DEF Max
<1>3. Max({flow.unacked, n}) - n = IF flow.unacked >= n THEN flow.unacked - n ELSE 0
  BY <1>1, <1>2
<1> DEFINE total == IF flow.unacked >= n THEN flow.unacked - n ELSE 0
<1>4. total \in Nat /\ Max({flow.unacked, n}) - n = total
  BY <1>1, <1>3
<1> HIDE DEF total
<1>5. Acknowledged(n) = [flow EXCEPT !.unacked = total, !.paused = @ /\ total > Low]
  BY <1>4 DEF Acknowledged
<1> QED BY <1>4, <1>5 DEF total

(* The vt thread has a screen with so much drawn, of this size and fullness, *)
(* and a gate that waits or not, and emits no frame ...                      *)
Quiet(drawn, size, full, awaiting) ==
    /\ awaiting \/ (~full /\ drawn = screen.base)
    /\ screen'.drawn = drawn /\ screen'.base = screen.base
    /\ screen'.full = full /\ screen'.size = size
    /\ gate'.next = gate.next /\ gate'.awaiting = awaiting
    /\ wire' = wire

(* ... or one with all that changed.                                        *)
NewFrame(drawn, size, full) ==
    [seq |-> gate.next, full |-> full, base |-> screen.base, upto |-> drawn, size |-> size]

Emits(drawn, size, full, awaiting) ==
    /\ ~awaiting /\ (full \/ drawn # screen.base)
    /\ screen'.drawn = drawn /\ screen'.base = drawn
    /\ screen'.full = FALSE /\ screen'.size = size
    /\ gate'.next = gate.next + 1 /\ gate'.awaiting = TRUE
    /\ wire' = Append(wire, NewFrame(drawn, size, full))

Draws(drawn, size, full, awaiting) ==
    /\ screen' \in [drawn : {drawn}, base : {drawn, screen.base}, full : BOOLEAN, size : {size}]
    /\ gate' \in [next : {gate.next, gate.next + 1}, awaiting : BOOLEAN]
    /\ Quiet(drawn, size, full, awaiting) \/ Emits(drawn, size, full, awaiting)

(* A frame is emitted when the gate is free and there is something to show. *)
LEMMA EmitsOrNot ==
    ASSUME NEW drawn, NEW size, NEW full \in BOOLEAN, NEW awaiting \in BOOLEAN,
           AttemptEmit([drawn |-> drawn, base |-> screen.base, full |-> full, size |-> size],
                       [next |-> gate.next, awaiting |-> awaiting])
    PROVE  Draws(drawn, size, full, awaiting)
<1> DEFINE s == [drawn |-> drawn, base |-> screen.base, full |-> full, size |-> size]
           g == [next |-> gate.next, awaiting |-> awaiting]
<1>1. s.drawn = drawn /\ s.base = screen.base /\ s.full = full /\ s.size = size
  OBVIOUS
<1>2. g.next = gate.next /\ g.awaiting = awaiting
  OBVIOUS
<1>3. CASE ~awaiting /\ (full \/ drawn # screen.base)
  <2>1. screen' = [s EXCEPT !.base = s.drawn, !.full = FALSE]
    BY <1>1, <1>2, <1>3 DEF AttemptEmit
  <2>2. gate' = [next |-> gate.next + 1, awaiting |-> TRUE]
    BY <1>1, <1>2, <1>3 DEF AttemptEmit
  <2>3. wire' = Append(wire, NewFrame(drawn, size, full))
    BY <1>1, <1>2, <1>3 DEF AttemptEmit, NewFrame
  <2>4. screen' = [drawn |-> drawn, base |-> drawn, full |-> FALSE, size |-> size]
    BY <1>1, <2>1
  <2>5. Emits(drawn, size, full, awaiting)
    BY <1>3, <2>2, <2>3, <2>4 DEF Emits
  <2> QED BY <2>2, <2>4, <2>5 DEF Draws
<1>4. CASE ~(~awaiting /\ (full \/ drawn # screen.base))
  <2>1. screen' = s /\ gate' = g /\ wire' = wire
    BY <1>1, <1>2, <1>4 DEF AttemptEmit
  <2>2. Quiet(drawn, size, full, awaiting)
    BY <1>4, <2>1 DEF Quiet
  <2> QED BY <2>1, <2>2 DEF Draws
<1> QED BY <1>3, <1>4

-----------------------------------------------------------------------------
(* What a step does to the channel *)

(* The commands a session is sent are commands of the channel.              *)
LEMMA CommandsAreCommanded ==
    /\ \A n \in ChunkSizes : Feed(n) \in Commanded /\ Feed(n).op = "feed" /\ Feed(n).bytes = n
    /\ \A s \in Sizes : Resize(s) \in Commanded /\ Resize(s).op = "resize"
    /\ \A q \in Seqs \cup {HighWater} : Ack(q) \in Commanded /\ Ack(q).op = "ack" /\ Ack(q).seq = q
    /\ Modes \in Commanded /\ Modes.op = "modes"
    /\ Shutdown \in Commanded /\ Shutdown.op = "shutdown"
<1>1. \A n \in ChunkSizes : Feed(n) \in Commanded /\ Feed(n).op = "feed" /\ Feed(n).bytes = n
  BY DEF Feed, Commanded
<1>2. \A s \in Sizes : Resize(s) \in Commanded /\ Resize(s).op = "resize"
  BY DEF Resize, Commanded
<1>3. \A q \in Seqs \cup {HighWater} : Ack(q) \in Commanded /\ Ack(q).op = "ack" /\ Ack(q).seq = q
  BY DEF Ack, Commanded
<1>4. Modes \in Commanded /\ Modes.op = "modes" /\ Shutdown \in Commanded /\ Shutdown.op = "shutdown"
  BY DEF Modes, Shutdown, Commanded
<1> QED BY <1>1, <1>2, <1>3, <1>4

(* A command is appended, unless its receiver is gone.                      *)
LEMMA Sent ==
    ASSUME chan \in Seq(Commanded), NEW c \in Commanded, Send(c)
    PROVE  /\ chan' \in Seq(Commanded)
           /\ chan' = chan \/ (vt # "gone" /\ chan' = Append(chan, c))
           /\ vt # "gone" => chan' = Append(chan, c)
           /\ \A op : Count(chan', op) =
                Count(chan, op) + (IF vt # "gone" /\ c.op = op THEN 1 ELSE 0)
           /\ Cardinality(Bytes(chan')) = Cardinality(Bytes(chan))
                + (IF vt # "gone" /\ c.op = "feed" THEN c.bytes ELSE 0)
<1>1. CASE vt = "gone"
  <2>1. chan' = chan
    BY <1>1 DEF Send
  <2>2. \A op : Count(chan, op) \in Nat
    BY CountIsNat
  <2>3. Cardinality(Bytes(chan)) \in Nat
    BY BytesAreFinite
  <2> QED BY <1>1, <2>1, <2>2, <2>3
<1>2. CASE vt # "gone"
  <2>1. chan' = Append(chan, c)
    BY <1>2 DEF Send
  <2>2. chan' \in Seq(Commanded)
    BY <2>1, AppendProperties
  <2>3. \A op : Count(chan', op) = Count(chan, op) + (IF c.op = op THEN 1 ELSE 0)
    BY <2>1, CountSent
  <2>4. Cardinality(Bytes(chan')) =
          Cardinality(Bytes(chan)) + (IF c.op = "feed" THEN c.bytes ELSE 0)
    BY <2>1, BytesSent
  <2> QED BY <1>2, <2>1, <2>2, <2>3, <2>4
<1> QED BY <1>1, <1>2

(* The vt thread takes the first command off.                               *)
LEMMA Received ==
    ASSUME chan \in Seq(Commanded), chan # <<>>, chan' = Tail(chan)
    PROVE  /\ chan' \in Seq(Commanded) /\ Head(chan) \in Commanded
           /\ \A op : Count(chan, op) =
                Count(chan', op) + (IF Head(chan).op = op THEN 1 ELSE 0)
           /\ Cardinality(Bytes(chan)) =
                Cardinality(Bytes(chan')) + (IF Head(chan).op = "feed" THEN Head(chan).bytes ELSE 0)
BY Popped, CountReceived, BytesReceived

(* Nothing is left in an empty channel.                                     *)
LEMMA Emptied ==
    /\ \A op : Count(<<>>, op) = 0
    /\ Bytes(<<>>) = {} /\ Cardinality(Bytes(<<>>)) = 0
<1>1. ASSUME NEW op PROVE Indexes(<<>>, op) = {}
  BY DEF Indexes
<1>2. Bytes(<<>>) = {}
  BY DEF Bytes
<1> QED BY <1>1, <1>2, FS_EmptySet DEF Count

(* What else is sent is not fed.                                            *)
OtherCommands == {c \in Commanded : c.op # "feed"}

(* A command of the page or of the teardown reaches the channel, or not.    *)
LEMMA OthersSend ==
    ASSUME TypeOK,
           \/ \E c \in calls : AckArrives(c) \/ ResizeVt(c)
           \/ KeyPressed \/ SendsShutdown
    PROVE  /\ UNCHANGED <<pty, child, reader, flow, vt, screen, gate, written, listed, wire>>
           /\ \/ UNCHANGED chan
              \/ \E c \in OtherCommands : Send(c)
<1>1. ASSUME NEW c \in calls, AckArrives(c)
      PROVE  UNCHANGED chan \/ \E d \in OtherCommands : Send(d)
  <2>1. c \in Called /\ c.op = "ack"
    BY <1>1 DEF AckArrives, TypeOK
  <2>2. c.seq \in Seqs \cup {HighWater}
    BY <2>1 DEF Called, KillCall
  <2>3. Ack(c.seq) \in OtherCommands
    BY <2>2, CommandsAreCommanded DEF OtherCommands
  <2>4. UNCHANGED chan \/ Send(Ack(c.seq))
    BY <1>1 DEF AckArrives
  <2> QED BY <2>3, <2>4
<1>2. ASSUME NEW c \in calls, ResizeVt(c)
      PROVE  \E d \in OtherCommands : Send(d)
  <2>1. c \in Called /\ c.op = "resize"
    BY <1>2 DEF ResizeVt, TypeOK
  <2>2. c.size \in Sizes
    BY <2>1 DEF Called, KillCall
  <2>3. Resize(c.size) \in OtherCommands
    BY <2>2, CommandsAreCommanded DEF OtherCommands
  <2> QED BY <1>2, <2>3 DEF ResizeVt
<1>3. KeyPressed => \E d \in OtherCommands : Send(d)
  BY CommandsAreCommanded DEF KeyPressed, OtherCommands
<1>4. SendsShutdown => \E d \in OtherCommands : Send(d)
  BY CommandsAreCommanded DEF SendsShutdown, OtherCommands
<1>5. UNCHANGED <<pty, child, reader, flow, vt, screen, gate, written, listed, wire>>
  BY DEF AckArrives, ResizeVt, KeyPressed, SendsShutdown, native, counts
<1> QED BY <1>1, <1>2, <1>3, <1>4, <1>5

(* The steps that reach the native side of a session.                       *)
LEMMA NativeSteps ==
    ASSUME [Next]_vars
    PROVE  \/ UNCHANGED <<pty, native, chan, key, written>>
           \/ \E n \in ChunkSizes : ChildWrites(n)
           \/ Reader
           \/ Vt
           \/ (\E c \in calls : AckArrives(c) \/ ResizeVt(c)) \/ KeyPressed \/ SendsShutdown
           \/ Cancels
<1>1. ASSUME UNCHANGED vars PROVE UNCHANGED <<pty, native, chan, key, written>>
  BY <1>1 DEF vars, counts
<1>2. ASSUME ChildExits \/ WaiterReports \/ Kills \/ Joins \/ KillArrives \/ WindowDestroyed
      PROVE  UNCHANGED <<pty, native, chan, key, written>>
  BY <1>2 DEF ChildExits, WaiterReports, Kills, Joins, KillArrives, WindowDestroyed, counts
<1>3. ASSUME Registers \/ Dispatches \/ StartReturns \/ Attaches \/ Attached
      PROVE  UNCHANGED <<pty, native, chan, key, written>>
  BY <1>3 DEF Registers, Dispatches, StartReturns, Attaches, Attached, counts
<1>4. ASSUME Layouts \/ Disposes \/ Paints \/ Leaves \/ (\E c \in calls : ResizePty(c))
      PROVE  UNCHANGED <<pty, native, chan, key, written>>
  BY <1>4 DEF Layouts, Disposes, Paints, Leaves, ResizePty, counts
<1> QED BY <1>1, <1>2, <1>3, <1>4 DEF Next, Commands, Teardown, User, Page

-----------------------------------------------------------------------------
(* The reader, the vt thread and what is between them *)

(* A chunk that is sent is appended, unless its receiver is gone.           *)
LEMMA ReaderSent ==
    ASSUME TypeOK, SendsWhatWasRead, ReaderSends
    PROVE  /\ Feed(reader.bytes) \in Commanded
           /\ Send(Feed(reader.bytes))
           /\ reader' \in [pc : {"done", "waiting"}, bytes : {0}]
           /\ UNCHANGED <<pty, flow, vt, screen, gate, key, written>>
<1>1. reader.bytes \in ChunkSizes
  BY DEF SendsWhatWasRead, ReaderSends
<1>2. Feed(reader.bytes) \in Commanded
  BY <1>1, CommandsAreCommanded
<1>3. Send(Feed(reader.bytes))
  BY DEF ReaderSends, Send
<1>4. reader' \in [pc : {"done", "waiting"}, bytes : {0}]
  BY DEF ReaderSends
<1>5. UNCHANGED <<pty, flow, vt, screen, gate, key, written>>
  BY DEF ReaderSends, counts
<1> QED BY <1>2, <1>3, <1>4, <1>5

(* What is received is of the kind that was looked for.                     *)
LEMMA VtReceived ==
    ASSUME TypeOK, VtFeeds \/ VtResizes \/ VtAcks \/ VtAnswers
    PROVE  /\ vt = "running" /\ chan # <<>> /\ chan' = Tail(chan)
           /\ UNCHANGED <<pty, child, reader, vt, ptySize, listed, teardown, calls, front, counts>>
           /\ VtFeeds => Head(chan).op = "feed"
           /\ VtResizes => Head(chan).op = "resize"
           /\ VtAcks => Head(chan).op = "ack"
           /\ VtAnswers => Head(chan).op = "modes"
<1>1. VtFeeds => vt' = vt
  BY DEF VtFeeds
<1>2. VtResizes => vt' = vt
  BY DEF VtResizes
<1>3. VtAcks => vt' = vt
  BY DEF VtAcks
<1>4. VtAnswers => vt' = vt
  BY DEF VtAnswers
<1>5. VtFeeds => Receives("feed") /\ chan' = Tail(chan)
  BY DEF VtFeeds
<1>6. VtResizes => Receives("resize") /\ chan' = Tail(chan)
  BY DEF VtResizes
<1>7. VtAcks => Receives("ack") /\ chan' = Tail(chan)
  BY DEF VtAcks
<1>8. VtAnswers => Receives("modes") /\ chan' = Tail(chan)
  BY DEF VtAnswers
<1> QED BY <1>1, <1>2, <1>3, <1>4, <1>5, <1>6, <1>7, <1>8 DEF Receives

(* A step that ends the vt thread empties its channel.                      *)
LEMMA VtEnded ==
    ASSUME VtFails \/ VtShutsDown
    PROVE  /\ vt' = "gone" /\ chan' = <<>> /\ key' = "idle"
           /\ UNCHANGED <<pty, child, reader, flow, screen, gate, wire, written>>
           /\ UNCHANGED <<ptySize, listed, teardown, calls, front, counts>>
<1>1. CASE VtFails
  BY <1>1 DEF VtFails, VtEnds, counts
<1>2. CASE VtShutsDown
  BY <1>2 DEF VtShutsDown, VtEnds, Receives, counts
<1> QED BY <1>1, <1>2

(* What was read stays what is sent.                                        *)
LEMMA ReadStep ==
    ASSUME TypeOK, SendsWhatWasRead, [Next]_vars
    PROVE  SendsWhatWasRead'
<1> USE DEF SendsWhatWasRead
<1>1. CASE UNCHANGED reader
  BY <1>1
<1>2. CASE ReaderClears \/ ReaderSeesEof
  BY <1>2 DEF ReaderClears, ReaderSeesEof, TypeOK
<1>3. CASE ReaderReads
  <2>1. Head(pty) \in ChunkSizes
    BY <1>3, HeadTailProperties DEF ReaderReads, TypeOK
  <2> QED BY <1>3, <2>1 DEF ReaderReads
<1>4. CASE ReaderSends
  BY <1>4, ReaderSent
<1>5. (\E n \in ChunkSizes : ChildWrites(n)) \/ Cancels => UNCHANGED reader
  BY DEF ChildWrites, Cancels, native
<1>6. Vt => UNCHANGED reader
  BY VtReceived, VtEnded DEF Vt, VtStarts
<1> QED
  BY <1>1, <1>2, <1>3, <1>4, <1>5, <1>6, NativeSteps, OthersSend DEF Reader, native

(* Every step keeps the request of a waiting key press before the vt thread. *)
LEMMA KeyStep ==
    ASSUME TypeOK, SendsWhatWasRead, KeyIsAnswered, [Next]_vars
    PROVE  KeyIsAnswered'
<1> USE DEF KeyIsAnswered
<1>1. chan \in Seq(Commanded)
  BY DEF TypeOK
<1>2. ASSUME chan' = chan \/ (\E c \in Commanded : Send(c)), UNCHANGED <<vt, key>>
      PROVE  KeyIsAnswered'
  <2>1. CASE chan' = chan
    BY <1>2, <2>1
  <2>2. ASSUME NEW c \in Commanded, Send(c) PROVE KeyIsAnswered'
    <3>1. chan' = chan \/ chan' = Append(chan, c)
      BY <2>2, <1>1, Sent
    <3> QED BY <1>1, <1>2, <3>1, Pushed
  <2> QED BY <1>2, <2>1, <2>2
<1>3. CASE UNCHANGED <<pty, native, chan, key, written>>
  BY <1>3 DEF native
<1>4. CASE (\E n \in ChunkSizes : ChildWrites(n)) \/ Cancels
  BY <1>2, <1>4 DEF ChildWrites, Cancels, native
<1>5. CASE Reader
  <2>1. CASE ReaderClears \/ ReaderReads \/ ReaderSeesEof
    BY <1>2, <2>1 DEF ReaderClears, ReaderReads, ReaderSeesEof
  <2>2. CASE ReaderSends
    BY <1>2, <2>2, ReaderSent
  <2> QED BY <1>5, <2>1, <2>2 DEF Reader
<1>6. CASE VtStarts
  BY <1>2, <1>6 DEF VtStarts, KeyIsAnswered
<1>7. CASE VtFails \/ VtShutsDown
  BY <1>7, VtEnded
<1>8. CASE VtFeeds \/ VtResizes \/ VtAcks
  <2>1. UNCHANGED key
    BY <1>8 DEF VtFeeds, VtResizes, VtAcks
  <2>2. Head(chan).op # "modes"
    BY <1>8, VtReceived
  <2>3. ASSUME NEW i \in DOMAIN chan, chan[i] = Modes PROVE \E j \in DOMAIN chan' : chan'[j] = Modes
    <3>1. i # 1
      BY <1>1, <1>8, <2>2, <2>3, VtReceived, Popped, CommandsAreCommanded
    <3>2. i - 1 \in DOMAIN Tail(chan) /\ Tail(chan)[i - 1] = chan[i]
      BY <1>1, <1>8, <3>1, VtReceived, Popped
    <3> QED BY <1>8, <2>3, <3>2, VtReceived
  <2> QED BY <1>8, <2>1, <2>3, VtReceived
<1>9. CASE VtAnswers
  BY <1>9 DEF VtAnswers
<1>10. CASE (\E c \in calls : AckArrives(c) \/ ResizeVt(c)) \/ SendsShutdown
  <2>1. UNCHANGED <<key, vt>>
    BY <1>10 DEF AckArrives, ResizeVt, SendsShutdown, native
  <2>2. UNCHANGED chan \/ \E c \in Commanded : Send(c)
    BY <1>10, OthersSend DEF OtherCommands
  <2> QED BY <1>2, <2>1, <2>2
<1>11. CASE KeyPressed
  <2>1. Send(Modes) /\ vt' = vt /\ (vt = "gone" => key' = "idle")
    BY <1>11 DEF KeyPressed, native
  <2>2. vt # "gone" => chan' = Append(chan, Modes)
    BY <1>1, <2>1, Sent, CommandsAreCommanded
  <2> QED BY <1>1, <2>1, <2>2, Pushed, CommandsAreCommanded
<1> QED
  BY <1>3, <1>4, <1>5, <1>6, <1>7, <1>8, <1>9, <1>10, <1>11, NativeSteps DEF Vt

(* Each command draws on the screen as it stands and asks the gate, ...      *)
LEMMA VtDraws ==
    ASSUME TypeOK
    PROVE  /\ VtFeeds => Draws(screen.drawn + 1, screen.size, screen.full, gate.awaiting)
           /\ VtResizes => Draws(screen.drawn, Head(chan).size, TRUE, gate.awaiting)
           /\ VtAcks => \E w \in BOOLEAN :
                 /\ w <=> gate.awaiting /\ ~(gate.next > 0 /\ Head(chan).seq >= gate.next - 1)
                 /\ Draws(screen.drawn, screen.size, screen.full, w)
<1>1. /\ screen = [drawn |-> screen.drawn, base |-> screen.base, full |-> screen.full,
                   size |-> screen.size]
      /\ gate = [next |-> gate.next, awaiting |-> gate.awaiting]
      /\ screen.full \in BOOLEAN /\ gate.awaiting \in BOOLEAN
  BY DEF TypeOK
<1>2. ASSUME VtFeeds
      PROVE  Draws(screen.drawn + 1, screen.size, screen.full, gate.awaiting)
  <2>1. [screen EXCEPT !.drawn = @ + 1] = [drawn |-> screen.drawn + 1, base |-> screen.base,
                                           full |-> screen.full, size |-> screen.size]
    BY <1>1
  <2>2. AttemptEmit([drawn |-> screen.drawn + 1, base |-> screen.base, full |-> screen.full,
                     size |-> screen.size], [next |-> gate.next, awaiting |-> gate.awaiting])
    BY <1>1, <1>2, <2>1 DEF VtFeeds
  <2> QED BY <1>1, <2>2, EmitsOrNot
<1>3. ASSUME VtResizes
      PROVE  Draws(screen.drawn, Head(chan).size, TRUE, gate.awaiting)
  <2>1. ASSUME NEW z, NEW t
        PROVE  [screen EXCEPT !.size = z, !.full = t]
                 = [drawn |-> screen.drawn, base |-> screen.base, full |-> t, size |-> z]
    <3> DEFINE u == [screen EXCEPT !.size = z]
    <3>1. u = [drawn |-> screen.drawn, base |-> screen.base, full |-> screen.full, size |-> z]
      BY <1>1
    <3> HIDE DEF u
    <3>2. [u EXCEPT !.full = t]
            = [drawn |-> screen.drawn, base |-> screen.base, full |-> t, size |-> z]
      BY <3>1
    <3> QED BY <3>2 DEF u
  <2>2. AttemptEmit([drawn |-> screen.drawn, base |-> screen.base, full |-> TRUE,
                     size |-> Head(chan).size], [next |-> gate.next, awaiting |-> gate.awaiting])
    BY <1>1, <1>3, <2>1 DEF VtResizes
  <2> QED BY <1>1, <2>2, EmitsOrNot
<1>4. ASSUME VtAcks
      PROVE  \E w \in BOOLEAN :
                 /\ w <=> gate.awaiting /\ ~(gate.next > 0 /\ Head(chan).seq >= gate.next - 1)
                 /\ Draws(screen.drawn, screen.size, screen.full, w)
  <2> DEFINE w == gate.awaiting /\ ~(gate.next > 0 /\ Head(chan).seq >= gate.next - 1)
  <2>1. GateAcked(Head(chan).seq) = [next |-> gate.next, awaiting |-> w]
    <3>1. CASE gate.next > 0 /\ Head(chan).seq >= gate.next - 1
      <4>1. GateAcked(Head(chan).seq) = [gate EXCEPT !.awaiting = FALSE]
        BY <3>1 DEF GateAcked
      <4>2. w = FALSE
        BY <3>1
      <4> HIDE DEF w
      <4> QED BY <1>1, <4>1, <4>2
    <3>2. CASE ~(gate.next > 0 /\ Head(chan).seq >= gate.next - 1)
      <4>1. GateAcked(Head(chan).seq) = gate
        BY <3>2 DEF GateAcked
      <4>2. w = gate.awaiting
        BY <1>1, <3>2
      <4> HIDE DEF w
      <4> QED BY <1>1, <4>1, <4>2
    <3> QED BY <3>1, <3>2
  <2>2. w \in BOOLEAN
    OBVIOUS
  <2>3. AttemptEmit([drawn |-> screen.drawn, base |-> screen.base, full |-> screen.full,
                     size |-> screen.size], [next |-> gate.next, awaiting |-> w])
    BY <1>1, <1>4, <2>1 DEF VtAcks
  <2>4. Draws(screen.drawn, screen.size, screen.full, w)
    BY <1>1, <2>2, <2>3, EmitsOrNot
  <2> QED BY <2>2, <2>4
<1> QED BY <1>2, <1>3, <1>4

(* ... and the answer to a key press draws nothing.                         *)
LEMMA VtAnswered ==
    ASSUME VtAnswers
    PROVE  UNCHANGED <<flow, screen, gate, wire>>
BY DEF VtAnswers

(* The fields a frame leaves behind it.                                     *)
LEMMA DrawnIs ==
    ASSUME NEW d, NEW z, NEW f, NEW w, Draws(d, z, f, w)
    PROVE  screen'.drawn = d /\ screen'.size = z
BY DEF Draws, Quiet, Emits

(* Every step moves each chunk on, from the child to the screen.            *)
LEMMA ChunksStep ==
    ASSUME TypeOK, SendsWhatWasRead, ChunksCounted, [Next]_vars
    PROVE  ChunksCounted'
<1> DEFINE fed == Count(chan, "feed")
           sending == IF reader.pc = "sending" THEN 1 ELSE 0
<1>1. /\ chan \in Seq(Commanded) /\ fed \in Nat /\ Len(pty) \in Nat /\ sending \in Nat
      /\ screen.drawn \in Nat /\ written \in Nat /\ pty \in Seq(ChunkSizes)
  <2>1. chan \in Seq(Commanded) /\ pty \in Seq(ChunkSizes)
    BY DEF TypeOK
  <2>2. screen.drawn \in Nat /\ written \in Nat
    BY BoundsAreNat DEF TypeOK
  <2> QED BY <2>1, <2>2, LenProperties, CountIsNat
<1>2. screen.drawn + fed + sending + Len(pty) <= written
  BY DEF ChunksCounted
<1>3. ASSUME screen'.drawn + fed' + sending' + Len(pty)' <= written'
      PROVE  ChunksCounted'
  BY <1>3 DEF ChunksCounted
<1>4. CASE UNCHANGED <<pty, native, chan, key, written>>
  BY <1>2, <1>3, <1>4 DEF native
<1>5. CASE \E n \in ChunkSizes : ChildWrites(n)
  <2>1. PICK n \in ChunkSizes : ChildWrites(n)
    BY <1>5
  <2>2. Len(pty') = Len(pty) + 1
    BY <1>1, <2>1, AppendProperties DEF ChildWrites
  <2>3. written' = written + 1 /\ screen' = screen /\ reader' = reader /\ chan' = chan
    BY <2>1 DEF ChildWrites, native
  <2>4. screen'.drawn = screen.drawn /\ fed' = fed /\ sending' = sending
    BY <2>3
  <2> HIDE DEF fed, sending
  <2> QED BY <1>1, <1>2, <1>3, <2>2, <2>3, <2>4
<1>6. CASE ReaderClears \/ ReaderSeesEof
  <2>1. reader.pc # "sending" /\ reader'.pc # "sending"
    BY <1>6 DEF ReaderClears, ReaderSeesEof, TypeOK
  <2>2. UNCHANGED <<screen, chan, pty, written>>
    BY <1>6 DEF ReaderClears, ReaderSeesEof, counts
  <2> QED BY <1>2, <1>3, <2>1, <2>2
<1>7. CASE ReaderReads
  <2>1. reader.pc # "sending" /\ reader'.pc = "sending" /\ pty # <<>> /\ pty' = Tail(pty)
    BY <1>7 DEF ReaderReads
  <2>2. UNCHANGED <<screen, chan, written>>
    BY <1>7 DEF ReaderReads, counts
  <2>3. Len(pty') = Len(pty) - 1
    BY <1>1, <2>1, HeadTailProperties
  <2>4. sending = 0 /\ sending' = 1 /\ fed' = fed /\ screen'.drawn = screen.drawn
    BY <2>1, <2>2
  <2> HIDE DEF fed, sending
  <2> QED BY <1>1, <1>2, <1>3, <2>2, <2>3, <2>4
<1>8. CASE ReaderSends
  <2>1. reader.pc = "sending" /\ reader'.pc # "sending"
    BY <1>8, ReaderSent DEF ReaderSends
  <2>2. UNCHANGED <<screen, pty, written>>
    BY <1>8, ReaderSent
  <2>3. fed' = fed \/ fed' = fed + 1
    BY <1>1, <1>8, ReaderSent, Sent
  <2>4. sending = 1 /\ sending' = 0 /\ screen'.drawn = screen.drawn /\ Len(pty)' = Len(pty)
    BY <2>1, <2>2
  <2> HIDE DEF fed, sending
  <2> QED BY <1>1, <1>2, <1>3, <2>2, <2>3, <2>4
<1>9. CASE VtStarts
  BY <1>2, <1>3, <1>9 DEF VtStarts, counts
<1>10. CASE VtFails \/ VtShutsDown
  <2>1. chan' = <<>> /\ UNCHANGED <<pty, reader, screen, written>>
    BY <1>10, VtEnded
  <2>2. fed' = 0 /\ sending' = sending /\ screen'.drawn = screen.drawn /\ Len(pty)' = Len(pty)
    BY <2>1, Emptied
  <2> HIDE DEF fed, sending
  <2> QED BY <1>1, <1>2, <1>3, <2>1, <2>2
<1>11. CASE VtFeeds \/ VtResizes \/ VtAcks \/ VtAnswers
  <2>1. chan # <<>> /\ chan' = Tail(chan) /\ UNCHANGED <<pty, reader, written>>
    BY <1>11, VtReceived DEF counts
  <2>2. fed = fed' + (IF Head(chan).op = "feed" THEN 1 ELSE 0) /\ fed' \in Nat
    BY <1>1, <2>1, Received, CountIsNat
  <2>3. CASE VtFeeds
    <3>1. Head(chan).op = "feed" /\ screen'.drawn = screen.drawn + 1
      BY <2>3, VtReceived, VtDraws, DrawnIs
    <3>2. sending' = sending /\ Len(pty)' = Len(pty)
      BY <2>1
    <3> HIDE DEF fed, sending
    <3> QED BY <1>1, <1>2, <1>3, <2>1, <2>2, <3>1, <3>2
  <2>4. CASE VtResizes \/ VtAcks \/ VtAnswers
    <3>1. Head(chan).op # "feed" /\ screen'.drawn = screen.drawn
      BY <2>4, VtReceived, VtDraws, DrawnIs, VtAnswered
    <3>2. sending' = sending /\ Len(pty)' = Len(pty)
      BY <2>1
    <3> HIDE DEF fed, sending
    <3> QED BY <1>1, <1>2, <1>3, <2>1, <2>2, <3>1, <3>2
  <2> QED BY <1>11, <2>3, <2>4
<1>12. CASE (\E c \in calls : AckArrives(c) \/ ResizeVt(c)) \/ KeyPressed \/ SendsShutdown
  <2>1. UNCHANGED <<pty, reader, screen, written>>
    BY <1>12, OthersSend
  <2>2. fed' = fed
    <3>1. CASE UNCHANGED chan
      BY <3>1
    <3>2. CASE \E c \in OtherCommands : Send(c)
      BY <1>1, <3>2, Sent DEF OtherCommands
    <3> QED BY <1>12, <3>1, <3>2, OthersSend
  <2> QED BY <1>2, <1>3, <2>1, <2>2
<1>13. CASE Cancels
  BY <1>2, <1>3, <1>13 DEF Cancels, counts
<1> QED
  BY <1>4, <1>5, <1>6, <1>7, <1>8, <1>9, <1>10, <1>11, <1>12, <1>13, NativeSteps DEF Reader, Vt

(* Whatever is drawn, a frame of it is a frame.                             *)
LEMMA VtFrames ==
    ASSUME TypeOK, ChunksCounted, VtFeeds \/ VtResizes \/ VtAcks
    PROVE  \E d \in 0..MaxChunks, z \in Sizes, f \in BOOLEAN, w \in BOOLEAN :
              /\ Draws(d, z, f, w) /\ NewFrame(d, z, f) \in Frames
              /\ VtFeeds => /\ d = screen.drawn + 1 /\ z = screen.size /\ f = screen.full
                            /\ w = gate.awaiting
              /\ VtResizes => d = screen.drawn /\ f = TRUE /\ w = gate.awaiting
              /\ VtAcks => /\ d = screen.drawn /\ z = screen.size /\ f = screen.full
                           /\ w <=> gate.awaiting /\ ~(gate.next > 0 /\ Head(chan).seq >= gate.next - 1)
<1>1. /\ screen.drawn \in 0..MaxChunks /\ screen.size \in Sizes /\ screen.full \in BOOLEAN
      /\ gate.awaiting \in BOOLEAN /\ chan \in Seq(Commanded)
  BY DEF TypeOK
<1>2. ASSUME NEW d \in 0..MaxChunks, NEW z \in Sizes, NEW f \in BOOLEAN
      PROVE  NewFrame(d, z, f) \in Frames
  BY DEF TypeOK, NewFrame, Frames
<1>3. CASE VtFeeds
  <2> DEFINE fed == Count(chan, "feed")
             sending == IF reader.pc = "sending" THEN 1 ELSE 0
  <2>1. chan # <<>> /\ Head(chan).op = "feed"
    BY <1>3, VtReceived
  <2>2. fed = Count(Tail(chan), "feed") + 1 /\ Tail(chan) \in Seq(Commanded)
    BY <1>1, <2>1, CountReceived, Popped
  <2>3. Count(Tail(chan), "feed") \in Nat
    BY <2>2, CountIsNat
  <2>4. screen.drawn + fed + sending + Len(pty) <= written
    BY DEF ChunksCounted
  <2>5. Len(pty) \in Nat /\ written \in 0..MaxChunks /\ sending \in Nat
    BY LenProperties DEF TypeOK
  <2> HIDE DEF fed, sending
  <2>6. screen.drawn + 1 \in 0..MaxChunks
    BY <1>1, <2>2, <2>3, <2>4, <2>5, BoundsAreNat
  <2>7. ~VtResizes /\ ~VtAcks
    BY <1>3, VtReceived
  <2> QED BY <1>1, <1>2, <1>3, <2>6, <2>7, VtDraws
<1>4. CASE VtResizes
  <2>1. chan # <<>> /\ Head(chan).op = "resize" /\ Head(chan) \in Commanded
    BY <1>1, <1>4, VtReceived, Popped
  <2>2. Head(chan) \in [op : {"resize"}, size : Sizes]
    BY <2>1 DEF Commanded, Modes, Shutdown
  <2>3. Head(chan).size \in Sizes
    BY <2>2
  <2>4. ~VtFeeds /\ ~VtAcks
    BY <1>4, VtReceived
  <2> QED BY <1>1, <1>2, <1>4, <2>3, <2>4, VtDraws
<1>5. CASE VtAcks
  <2>1. ~VtFeeds /\ ~VtResizes
    BY <1>5, VtReceived
  <2>2. PICK w \in BOOLEAN :
           /\ w <=> gate.awaiting /\ ~(gate.next > 0 /\ Head(chan).seq >= gate.next - 1)
           /\ Draws(screen.drawn, screen.size, screen.full, w)
    BY <1>5, VtDraws
  <2> QED BY <1>1, <1>2, <1>5, <2>1, <2>2
<1> QED BY <1>3, <1>4, <1>5

(* Every step keeps the count of the bytes between the two threads.         *)
LEMMA FlowStep ==
    ASSUME TypeOK, SendsWhatWasRead, FlowConserved, [Next]_vars
    PROVE  FlowConserved'
<1> DEFINE inside == Cardinality(Bytes(chan))
           held == IF reader.pc = "sending" THEN reader.bytes ELSE 0
<1>1. /\ chan \in Seq(Commanded) /\ inside \in Nat /\ held \in Nat
      /\ flow.unacked \in Nat /\ High \in Nat /\ Low \in Nat /\ Low < High
      /\ pty \in Seq(ChunkSizes) /\ flow.paused \in BOOLEAN
      /\ flow \in [unacked : Nat, paused : BOOLEAN, cancelled : BOOLEAN]
  <2>1. chan \in Seq(Commanded) /\ pty \in Seq(ChunkSizes) /\ flow.paused \in BOOLEAN
    BY DEF TypeOK
  <2>2. flow \in [unacked : Nat, paused : BOOLEAN, cancelled : BOOLEAN]
    BY DEF TypeOK
  <2>3. reader.bytes \in ChunkSizes \cup {0}
    BY DEF TypeOK
  <2>4. reader.bytes \in Nat
    <3>1. \A n \in ChunkSizes : n \in Nat
      BY ChunksArePositive
    <3> QED BY <2>3, <3>1
  <2> QED BY <2>1, <2>2, <2>4, BytesAreFinite, MarksAreOrdered
<1>2. vt # "gone" => flow.unacked = inside + held /\ (flow.paused => flow.unacked > Low)
  BY DEF FlowConserved, Queued
<1>3. ASSUME vt' # "gone" => flow'.unacked = inside' + held' /\ (flow'.paused => flow'.unacked > Low)
      PROVE  FlowConserved'
  BY <1>3 DEF FlowConserved, Queued
<1>4. CASE UNCHANGED <<pty, native, chan, key, written>>
  BY <1>2, <1>3, <1>4 DEF native
<1>5. CASE (\E n \in ChunkSizes : ChildWrites(n)) \/ VtStarts
  <2>1. UNCHANGED <<flow, chan, reader>> /\ (vt' # "gone" => vt # "gone")
    BY <1>5 DEF ChildWrites, VtStarts, native
  <2> QED BY <1>2, <1>3, <2>1
<1>6. CASE ReaderClears \/ ReaderSeesEof
  <2>1. reader.pc # "sending" /\ reader'.pc # "sending"
    BY <1>6 DEF ReaderClears, ReaderSeesEof, TypeOK
  <2>2. UNCHANGED <<flow, chan, vt>>
    BY <1>6 DEF ReaderClears, ReaderSeesEof
  <2> QED BY <1>2, <1>3, <2>1, <2>2
<1>7. CASE ReaderReads
  <2> DEFINE n == Head(pty)
  <2>1. reader.pc # "sending" /\ reader' = [pc |-> "sending", bytes |-> n] /\ pty # <<>>
    BY <1>7 DEF ReaderReads
  <2>2. n \in Nat \ {0}
    BY <1>1, <2>1, HeadTailProperties, ChunksArePositive
  <2>3. flow'.unacked = flow.unacked + n /\ (flow'.paused => flow.paused \/ flow.unacked + n >= High)
    BY <1>1, <1>7 DEF ReaderReads, Recorded
  <2>4. UNCHANGED <<chan, vt>>
    BY <1>7 DEF ReaderReads
  <2>5. held = 0 /\ held' = n /\ inside' = inside
    BY <2>1, <2>4
  <2> HIDE DEF n, held, inside
  <2> QED BY <1>1, <1>2, <1>3, <2>2, <2>3, <2>4, <2>5
<1>8. CASE ReaderSends
  <2>1. reader.pc = "sending" /\ reader'.pc # "sending" /\ UNCHANGED <<flow, vt>>
    BY <1>8, ReaderSent DEF ReaderSends
  <2>2. vt # "gone" => inside' = inside + reader.bytes
    BY <1>1, <1>8, ReaderSent, Sent DEF Feed
  <2>3. held = reader.bytes /\ held' = 0
    BY <2>1
  <2> HIDE DEF held, inside
  <2> QED BY <1>1, <1>2, <1>3, <2>1, <2>2, <2>3
<1>9. CASE VtFails \/ VtShutsDown
  BY <1>3, <1>9, VtEnded
<1>10. CASE VtFeeds
  <2> DEFINE n == Head(chan).bytes
             total == IF flow.unacked >= n THEN flow.unacked - n ELSE 0
  <2>1. /\ chan # <<>> /\ chan' = Tail(chan) /\ UNCHANGED reader
        /\ vt # "gone" /\ Head(chan).op = "feed"
    BY <1>10, VtReceived
  <2>2. Head(chan) \in Commanded /\ inside = inside' + n /\ inside' \in Nat
    BY <1>1, <2>1, Received, BytesAreFinite
  <2>3. n \in Nat
    BY <2>1, <2>2, FedHasSize
  <2>4. flow' = [flow EXCEPT !.unacked = total, !.paused = @ /\ total > Low]
    BY <1>1, <1>10, <2>3, AcknowledgedCount DEF VtFeeds
  <2>5. flow'.unacked = total /\ (flow'.paused => total > Low)
    <3> HIDE DEF total
    <3> QED BY <1>1, <2>4
  <2>6. held' = held
    BY <2>1
  <2> HIDE DEF n, held, inside
  <2>7. total = inside' + held
    BY <1>1, <1>2, <2>1, <2>2, <2>3
  <2> QED BY <1>3, <2>5, <2>6, <2>7
<1>11. CASE VtResizes \/ VtAcks \/ VtAnswers
  <2>1. /\ chan # <<>> /\ chan' = Tail(chan) /\ UNCHANGED <<reader, vt>>
        /\ Head(chan).op # "feed"
    BY <1>11, VtReceived
  <2>2. inside' = inside
    <3>1. Cardinality(Bytes(chan)) = Cardinality(Bytes(chan')) + 0 /\ chan' \in Seq(Commanded)
      BY <1>1, <2>1, Received
    <3>2. Cardinality(Bytes(chan')) \in Nat
      BY <3>1, BytesAreFinite
    <3> QED BY <3>1, <3>2
  <2>3. flow' = flow
    BY <1>11, VtAnswered DEF VtResizes, VtAcks
  <2> QED BY <1>2, <1>3, <2>1, <2>2, <2>3
<1>12. CASE (\E c \in calls : AckArrives(c) \/ ResizeVt(c)) \/ KeyPressed \/ SendsShutdown
  <2>1. UNCHANGED <<flow, reader, vt>>
    BY <1>12, OthersSend
  <2>2. inside' = inside
    <3>1. CASE UNCHANGED chan
      BY <3>1
    <3>2. CASE \E c \in OtherCommands : Send(c)
      BY <1>1, <3>2, Sent DEF OtherCommands
    <3> QED BY <1>12, <3>1, <3>2, OthersSend
  <2> QED BY <1>2, <1>3, <2>1, <2>2
<1>13. CASE Cancels
  <2>1. UNCHANGED <<chan, reader, vt>> /\ flow'.unacked = flow.unacked /\ flow'.paused = flow.paused
    BY <1>1, <1>13 DEF Cancels
  <2>2. inside' = inside /\ held' = held
    BY <2>1
  <2> HIDE DEF held, inside
  <2> QED BY <1>2, <1>3, <2>1, <2>2
<1> QED
  BY <1>4, <1>5, <1>6, <1>7, <1>8, <1>9, <1>10, <1>11, <1>12, <1>13, NativeSteps DEF Reader, Vt

-----------------------------------------------------------------------------
(* The page *)

(* The acks that wait were sent before, or are the one that is sent now.    *)
LEMMA AcksMove ==
    ASSUME chan \in Seq(Commanded)
    PROVE  /\ \A c \in Commanded : Send(c) =>
                AckSeqs(chan') \subseteq AckSeqs(chan) \cup (IF c.op = "ack" THEN {c.seq} ELSE {})
           /\ chan # <<>> /\ chan' = Tail(chan) => AckSeqs(chan') \subseteq AckSeqs(chan)
           /\ chan' = <<>> => AckSeqs(chan') = {}
<1>1. ASSUME NEW c \in Commanded, Send(c), NEW q \in AckSeqs(chan')
      PROVE  q \in AckSeqs(chan) \cup (IF c.op = "ack" THEN {c.seq} ELSE {})
  <2>1. CASE chan' = chan
    BY <1>1, <2>1
  <2>2. CASE chan' = Append(chan, c)
    <3>1. PICK i \in DOMAIN chan' : chan'[i].op = "ack" /\ q = chan'[i].seq
      BY <1>1 DEF AckSeqs, Indexes
    <3>2. CASE i \in DOMAIN chan
      <4>1. chan'[i] = chan[i]
        BY <2>2, <3>2, Pushed
      <4> QED BY <3>1, <3>2, <4>1 DEF AckSeqs, Indexes
    <3>3. CASE i = Len(chan) + 1
      BY <2>2, <3>1, <3>3, Pushed
    <3> QED BY <2>2, <3>2, <3>3, Pushed
  <2> QED BY <1>1, <2>1, <2>2, Sent
<1>2. ASSUME chan # <<>>, chan' = Tail(chan), NEW q \in AckSeqs(chan')
      PROVE  q \in AckSeqs(chan)
  <2>1. PICK i \in DOMAIN chan' : chan'[i].op = "ack" /\ q = chan'[i].seq
    BY <1>2 DEF AckSeqs, Indexes
  <2>2. i + 1 \in DOMAIN chan /\ chan'[i] = chan[i + 1]
    BY <1>2, Popped
  <2> QED BY <2>1, <2>2 DEF AckSeqs, Indexes
<1>3. chan' = <<>> => AckSeqs(chan') = {}
  BY DEF AckSeqs, Indexes
<1> QED BY <1>1, <1>2, <1>3

(* The steps that leave the page, and what is on its way to it or from it,  *)
(* alone, or end the vt thread.                                             *)
Indoors ==
    /\ UNCHANGED <<wire, calls, front, gate, screen, listed>>
    /\ \/ vt' = "gone" /\ chan' = <<>>
       \/ /\ vt' = vt \/ (vt = "starting" /\ vt' = "running")
          /\ Count(chan', "resize") = Count(chan, "resize")
          /\ Count(chan', "ack") = Count(chan, "ack")
          /\ AckSeqs(chan') \subseteq AckSeqs(chan)

(* The reader, the child, the vt thread's other answers and the teardown    *)
(* are all of this kind.                                                    *)
LEMMA IndoorSteps ==
    ASSUME TypeOK, SendsWhatWasRead,
           \/ UNCHANGED vars
           \/ \E n \in ChunkSizes : ChildWrites(n)
           \/ ChildExits \/ WaiterReports \/ Reader \/ Kills \/ Cancels \/ SendsShutdown \/ Joins
           \/ KeyPressed \/ VtStarts \/ VtAnswers \/ VtFails \/ VtShutsDown
    PROVE  Indoors
<1>1. chan \in Seq(Commanded)
  BY DEF TypeOK
<1>2. ASSUME UNCHANGED <<wire, calls, front, gate, screen, listed>>,
             vt' = vt \/ (vt = "starting" /\ vt' = "running"),
             UNCHANGED chan \/ (\E c \in Commanded : c.op \notin {"ack", "resize"} /\ Send(c))
               \/ (chan # <<>> /\ chan' = Tail(chan) /\ Head(chan).op \notin {"ack", "resize"})
      PROVE  Indoors
  <2>1. CASE UNCHANGED chan
    BY <1>2, <2>1 DEF Indoors
  <2>2. CASE \E c \in Commanded : c.op \notin {"ack", "resize"} /\ Send(c)
    <3>1. PICK c \in Commanded : c.op \notin {"ack", "resize"} /\ Send(c)
      BY <2>2
    <3>2. Count(chan, "resize") \in Nat /\ Count(chan, "ack") \in Nat
      BY <1>1, CountIsNat
    <3>3. Count(chan', "resize") = Count(chan, "resize") /\ Count(chan', "ack") = Count(chan, "ack")
      BY <1>1, <3>1, <3>2, Sent
    <3>4. AckSeqs(chan') \subseteq AckSeqs(chan)
      BY <1>1, <3>1, AcksMove
    <3> QED BY <1>2, <3>3, <3>4 DEF Indoors
  <2>3. CASE chan # <<>> /\ chan' = Tail(chan) /\ Head(chan).op \notin {"ack", "resize"}
    <3>1. chan' \in Seq(Commanded)
      BY <1>1, <2>3, Received
    <3>2. Count(chan', "resize") \in Nat /\ Count(chan', "ack") \in Nat
      BY <3>1, CountIsNat
    <3>3. Count(chan', "resize") = Count(chan, "resize") /\ Count(chan', "ack") = Count(chan, "ack")
      BY <1>1, <2>3, <3>2, Received
    <3>4. AckSeqs(chan') \subseteq AckSeqs(chan)
      BY <1>1, <2>3, AcksMove
    <3> QED BY <1>2, <3>3, <3>4 DEF Indoors
  <2> QED BY <1>2, <2>1, <2>2, <2>3
<1>3. CASE UNCHANGED vars
  BY <1>2, <1>3 DEF vars, native
<1>4. CASE (\E n \in ChunkSizes : ChildWrites(n)) \/ ChildExits \/ WaiterReports
  BY <1>2, <1>4 DEF ChildWrites, ChildExits, WaiterReports, native
<1>5. CASE ReaderClears \/ ReaderReads \/ ReaderSeesEof
  BY <1>2, <1>5 DEF ReaderClears, ReaderReads, ReaderSeesEof
<1>6. CASE ReaderSends
  <2>1. UNCHANGED <<wire, calls, front, gate, screen, listed, vt>>
    BY <1>6 DEF ReaderSends
  <2>2. Feed(reader.bytes).op = "feed"
    BY DEF Feed
  <2> QED BY <1>2, <1>6, <2>1, <2>2, ReaderSent
<1>7. CASE Kills \/ Cancels \/ Joins
  BY <1>2, <1>7 DEF Kills, Cancels, Joins, native
<1>8. CASE SendsShutdown \/ KeyPressed
  <2>1. UNCHANGED <<wire, calls, front, gate, screen, listed, vt>>
    BY <1>8 DEF SendsShutdown, KeyPressed, native
  <2>2. \E c \in {Shutdown, Modes} : Send(c)
    BY <1>8 DEF SendsShutdown, KeyPressed
  <2> QED BY <1>2, <2>1, <2>2, CommandsAreCommanded
<1>9. CASE VtStarts
  BY <1>2, <1>9 DEF VtStarts
<1>10. CASE VtAnswers
  BY <1>2, <1>10, VtReceived, VtAnswered
<1>11. CASE VtFails \/ VtShutsDown
  BY <1>11, VtEnded DEF Indoors
<1> QED BY <1>3, <1>4, <1>5, <1>6, <1>7, <1>8, <1>9, <1>10, <1>11 DEF Reader

(* A pane that is starting holds one frame at most.                         *)
LEMMA HeldAtMostOne ==
    ASSUME TypeOK, PhasesApart, CreditIsOne, FramesCounted, page.phase = "starting"
    PROVE  /\ ~page.attach
           /\ page.held = <<>> \/ (page.held = <<page.held[1]>> /\ page.held[1] \in Frames)
<1>1. ~page.attach
  BY DEF PhasesApart
<1>2. page.held \in Seq(Frames) /\ wire \in Seq(Frames) /\ chan \in Seq(Commanded)
  BY DEF TypeOK
<1>3. Len(page.held) \in Nat /\ Len(wire) \in Nat /\ Count(chan, "ack") \in Nat
  BY <1>2, LenProperties, CountIsNat
<1>4. Cardinality(CallsOf(calls, "ack")) \in Nat
  <2>1. CallsOf(calls, "ack") \in SUBSET calls
    BY DEF CallsOf
  <2> QED BY <2>1, FS_Subset, FS_CardinalityType DEF FramesCounted
<1>5. Tokens <= 1
  BY <1>1 DEF CreditIsOne
<1>6. Len(page.held) <= 1
  <2> DEFINE h == Len(page.held)  w == Len(wire)  c == Cardinality(CallsOf(calls, "ack"))
             a == Count(chan, "ack")
  <2>1. w + h + (IF unpainted = None THEN 0 ELSE 1) + c + a <= 1
    BY <1>5 DEF Tokens, Total, Due, AckCalls
  <2>2. h \in Nat /\ w \in Nat /\ c \in Nat /\ a \in Nat
    BY <1>3, <1>4
  <2> HIDE DEF h, w, c, a
  <2>3. h <= 1
    BY <2>1, <2>2
  <2> QED BY <2>3 DEF h
<1>7. CASE Len(page.held) = 0
  <2>1. page.held = <<>>
    BY <1>2, <1>7, EmptySeq
  <2> QED BY <1>1, <2>1
<1>8. CASE Len(page.held) = 1
  <2>1. page.held[1] \in Frames
    BY <1>2, <1>8, ElementOfSeq
  <2>2. <<page.held[1]>> \in Seq(Frames) /\ Len(<<page.held[1]>>) = 1
    BY <2>1
  <2>3. \A i \in 1..1 : <<page.held[1]>>[i] = page.held[i]
    OBVIOUS
  <2>4. page.held = <<page.held[1]>>
    BY <1>2, <1>8, <2>2, <2>3, SeqEqual
  <2> QED BY <1>1, <2>1, <2>4
<1>9. \A n \in Nat : n <= 1 => n = 0 \/ n = 1
  OBVIOUS
<1> QED BY <1>3, <1>6, <1>7, <1>8, <1>9

(* A frame is lost, held, or shown on the page p if it is not stale.        *)
ShowsOn(f, p) == Applied(f, p) \/ (f.seq < p.expected /\ Stands(p))

Loses == (~page.listening \/ page.phase \in {"abandoned", "leaving"}) /\ UNCHANGED front
Holds == /\ page.listening /\ page.phase = "starting"
         /\ page' = [page EXCEPT !.held = Append(@, Head(wire))]
         /\ UNCHANGED <<grid, unpainted>>
ShowsNow == /\ page.listening /\ page.phase \in {"acking", "acked", "live"}
            /\ ShowsOn(Head(wire), page)

(* An event that arrives meets one of the three.                            *)
LEMMA DispatchCases ==
    ASSUME TypeOK, Dispatches
    PROVE  /\ wire # <<>> /\ wire' = Tail(wire) /\ Head(wire) \in Frames /\ Head(wire) = wire[1]
           /\ 1 \in DOMAIN wire
           /\ UNCHANGED <<native, chan, listed, calls>>
           /\ Loses \/ Holds \/ ShowsNow
<1>1. wire # <<>> /\ wire' = Tail(wire) /\ UNCHANGED <<native, chan, listed, calls>>
  BY DEF Dispatches
<1>2. wire \in Seq(Frames) /\ page.expected \in Nat
  BY DEF TypeOK, Seqs
<1>3. Head(wire) \in Frames /\ Head(wire) = wire[1] /\ 1 \in DOMAIN wire
  BY <1>1, <1>2, Popped
<1>4. ShowFrames(<<Head(wire)>>, page) => ShowsOn(Head(wire), page)
  BY <1>2, <1>3, ShowOne DEF ShowsOn
<1>5. Loses \/ Holds \/ ShowsNow
  BY <1>4 DEF Dispatches, Loses, Holds, ShowsNow
<1> QED BY <1>1, <1>3, <1>5

(* The page of a session that has started, ...                              *)
Started == [page EXCEPT !.phase = "live", !.held = <<>>]

(* ... which shows the frame it held.                                       *)
LEMMA StartCases ==
    ASSUME TypeOK, PhasesApart, CreditIsOne, FramesCounted, StartReturns
    PROVE  /\ page.phase = "starting" /\ ~page.attach
           /\ UNCHANGED <<native, chan, listed, calls, wire>>
           /\ \/ page.held = <<>> /\ Stands(Started)
              \/ /\ page.held = <<page.held[1]>> /\ page.held[1] \in Frames
                 /\ ShowsOn(page.held[1], Started)
<1>1. page.phase = "starting" /\ ShowFrames(page.held, Started)
  BY DEF StartReturns, Started
<1>2. UNCHANGED <<native, chan, listed, calls, wire>>
  BY DEF StartReturns
<1>3. /\ ~page.attach
      /\ page.held = <<>> \/ (page.held = <<page.held[1]>> /\ page.held[1] \in Frames)
  BY <1>1, HeldAtMostOne
<1>4. Started.expected \in Nat
  BY DEF Started, TypeOK, Seqs
<1>5. page.held = <<>> => Stands(Started)
  BY <1>1, ShowNone
<1>6. ASSUME page.held = <<page.held[1]>>, page.held[1] \in Frames
      PROVE  ShowsOn(page.held[1], Started)
  <2>1. ShowFrames(<<page.held[1]>>, Started)
    BY <1>1, <1>6
  <2> QED BY <1>4, <1>6, <2>1, ShowOne DEF ShowsOn
<1> QED BY <1>1, <1>2, <1>3, <1>5, <1>6

(* The steps of Next that are not indoors, one by one.                      *)
LEMMA OutdoorSteps ==
    ASSUME TypeOK, SendsWhatWasRead, [Next]_vars
    PROVE  \/ Indoors
           \/ VtFeeds \/ VtResizes \/ VtAcks
           \/ (\E c \in calls : AckArrives(c)) \/ (\E c \in calls : ResizePty(c))
           \/ (\E c \in calls : ResizeVt(c))
           \/ KillArrives \/ WindowDestroyed
           \/ Registers \/ Dispatches \/ StartReturns \/ Attaches \/ Attached \/ Layouts
           \/ Paints \/ Disposes \/ Leaves
BY IndoorSteps DEF Next, Vt, Commands, Teardown, User, Page

(* A page with these fields is of the same kind, open or attached.          *)
Pages == [attach : BOOLEAN, phase : Phases, listening : BOOLEAN, held : Seq(Frames),
          expected : Seqs, wanted : Sizes]

Paged(phase, listening, held, expected, wanted) ==
    [attach |-> page.attach, phase |-> phase, listening |-> listening, held |-> held,
     expected |-> expected, wanted |-> wanted]

(* Changing a page changes only the fields that are named.                  *)
LEMMA PageWith ==
    ASSUME page \in Pages, NEW ph, NEW li, NEW he, NEW ex, NEW wa
    PROVE  /\ page = Paged(page.phase, page.listening, page.held, page.expected, page.wanted)
           /\ [page EXCEPT !.phase = ph]
                = Paged(ph, page.listening, page.held, page.expected, page.wanted)
           /\ [page EXCEPT !.listening = li]
                = Paged(page.phase, li, page.held, page.expected, page.wanted)
           /\ [page EXCEPT !.held = he]
                = Paged(page.phase, page.listening, he, page.expected, page.wanted)
           /\ [page EXCEPT !.expected = ex]
                = Paged(page.phase, page.listening, page.held, ex, page.wanted)
           /\ [page EXCEPT !.wanted = wa]
                = Paged(page.phase, page.listening, page.held, page.expected, wa)
           /\ [page EXCEPT !.phase = ph, !.listening = li]
                = Paged(ph, li, page.held, page.expected, page.wanted)
           /\ [page EXCEPT !.phase = ph, !.held = he]
                = Paged(ph, page.listening, he, page.expected, page.wanted)
           /\ [page EXCEPT !.phase = ph, !.listening = li, !.held = he]
                = Paged(ph, li, he, page.expected, page.wanted)
<1> USE DEF Paged
<1>1. page = Paged(page.phase, page.listening, page.held, page.expected, page.wanted)
  BY DEF Pages
<1>2. ASSUME NEW a, NEW b, NEW c, NEW d, NEW e
      PROVE  /\ [Paged(a, b, c, d, e) EXCEPT !.phase = ph] = Paged(ph, b, c, d, e)
             /\ [Paged(a, b, c, d, e) EXCEPT !.listening = li] = Paged(a, li, c, d, e)
             /\ [Paged(a, b, c, d, e) EXCEPT !.held = he] = Paged(a, b, he, d, e)
             /\ [Paged(a, b, c, d, e) EXCEPT !.expected = ex] = Paged(a, b, c, ex, e)
             /\ [Paged(a, b, c, d, e) EXCEPT !.wanted = wa] = Paged(a, b, c, d, wa)
  <2>1. [Paged(a, b, c, d, e) EXCEPT !.phase = ph] = Paged(ph, b, c, d, e)
    OBVIOUS
  <2>2. [Paged(a, b, c, d, e) EXCEPT !.listening = li] = Paged(a, li, c, d, e)
    OBVIOUS
  <2>3. [Paged(a, b, c, d, e) EXCEPT !.held = he] = Paged(a, b, he, d, e)
    OBVIOUS
  <2>4. [Paged(a, b, c, d, e) EXCEPT !.expected = ex] = Paged(a, b, c, ex, e)
    OBVIOUS
  <2>5. [Paged(a, b, c, d, e) EXCEPT !.wanted = wa] = Paged(a, b, c, d, wa)
    OBVIOUS
  <2> QED BY <2>1, <2>2, <2>3, <2>4, <2>5
<1> DEFINE v == [page EXCEPT !.phase = ph]
           w == [v EXCEPT !.listening = li]
<1> HIDE DEF Paged
<1>3. v = Paged(ph, page.listening, page.held, page.expected, page.wanted)
  BY <1>1, <1>2
<1> HIDE DEF v
<1>4. w = Paged(ph, li, page.held, page.expected, page.wanted)
  BY <1>2, <1>3
<1>5. [v EXCEPT !.held = he] = Paged(ph, page.listening, he, page.expected, page.wanted)
  BY <1>2, <1>3
<1> HIDE DEF w
<1>6. [w EXCEPT !.held = he] = Paged(ph, li, he, page.expected, page.wanted)
  BY <1>2, <1>4
<1>7. w = [page EXCEPT !.phase = ph, !.listening = li]
  BY DEF v, w
<1>8. [v EXCEPT !.held = he] = [page EXCEPT !.phase = ph, !.held = he]
  BY DEF v
<1>9. [w EXCEPT !.held = he] = [page EXCEPT !.phase = ph, !.listening = li, !.held = he]
  BY DEF v, w
<1>10. /\ [page EXCEPT !.listening = li]
             = Paged(page.phase, li, page.held, page.expected, page.wanted)
       /\ [page EXCEPT !.held = he]
             = Paged(page.phase, page.listening, he, page.expected, page.wanted)
  BY <1>1, <1>2
<1>11. /\ [page EXCEPT !.expected = ex]
             = Paged(page.phase, page.listening, page.held, ex, page.wanted)
       /\ [page EXCEPT !.wanted = wa]
             = Paged(page.phase, page.listening, page.held, page.expected, wa)
  BY <1>1, <1>2
<1>12. v = [page EXCEPT !.phase = ph]
  BY DEF v
<1>13. [page EXCEPT !.phase = ph]
         = Paged(ph, page.listening, page.held, page.expected, page.wanted)
  BY <1>3, <1>12, Zenon
<1>14. [page EXCEPT !.phase = ph, !.listening = li]
         = Paged(ph, li, page.held, page.expected, page.wanted)
  BY <1>4, <1>7, Zenon
<1>15. [page EXCEPT !.phase = ph, !.held = he]
         = Paged(ph, page.listening, he, page.expected, page.wanted)
  BY <1>5, <1>8, Zenon
<1>16. [page EXCEPT !.phase = ph, !.listening = li, !.held = he]
         = Paged(ph, li, he, page.expected, page.wanted)
  BY <1>6, <1>9, Zenon
<1> QED BY <1>1, <1>10, <1>11, <1>13, <1>14, <1>15, <1>16, Zenon

(* The page after each step of its own.                                     *)
LEMMA PageMoves ==
    ASSUME TypeOK
    PROVE  LET phase == page.phase  listening == page.listening  held == page.held
               expected == page.expected  wanted == page.wanted IN
           /\ page \in Pages
           /\ WindowDestroyed => page' = Paged("gone", FALSE, <<>>, expected, wanted)
           /\ Registers => page' = Paged(phase, TRUE, held, expected, wanted)
           /\ Attaches => page' = Paged("acking", ListenFirst, held, expected, wanted)
           /\ Attached => page' = Paged("live", listening, held, expected, wanted)
           /\ Layouts => page' = Paged(phase, listening, held, expected, wanted + 1)
           /\ Leaves => page' = Paged("closed", FALSE, <<>>, expected, wanted)
           /\ Disposes => page' = IF phase \in {"starting", "acked"}
                                  THEN Paged("leaving", listening, held, expected, wanted)
                                  ELSE IF phase = "acking"
                                  THEN Paged("abandoned", listening, held, expected, wanted)
                                  ELSE Paged("closed", FALSE, held, expected, wanted)
           /\ Holds => page' = Paged(phase, listening, Append(held, Head(wire)), expected, wanted)
           /\ Started = Paged("live", listening, <<>>, expected, wanted)
           /\ \A f : Applied(f, page) =>
                       page' = Paged(phase, listening, held, f.seq + 1, wanted)
           /\ \A f : Applied(f, Started) =>
                       page' = Paged("live", listening, <<>>, f.seq + 1, wanted)
<1>1. page \in Pages
  BY DEF TypeOK, Pages
<1>2. WindowDestroyed => page' = Paged("gone", FALSE, <<>>, page.expected, page.wanted)
  BY <1>1, PageWith DEF WindowDestroyed
<1>3. Registers => page' = Paged(page.phase, TRUE, page.held, page.expected, page.wanted)
  BY <1>1, PageWith DEF Registers
<1>4. Attaches => page' = Paged("acking", ListenFirst, page.held, page.expected, page.wanted)
  BY <1>1, PageWith DEF Attaches
<1>5. Attached => page' = Paged("live", page.listening, page.held, page.expected, page.wanted)
  BY <1>1, PageWith DEF Attached
<1>6. Layouts =>
        page' = Paged(page.phase, page.listening, page.held, page.expected, page.wanted + 1)
  BY <1>1, PageWith DEF Layouts
<1>7. Leaves => page' = Paged("closed", FALSE, <<>>, page.expected, page.wanted)
  BY <1>1, PageWith DEF Leaves
<1>8. Disposes =>
        page' = IF page.phase \in {"starting", "acked"}
                THEN Paged("leaving", page.listening, page.held, page.expected, page.wanted)
                ELSE IF page.phase = "acking"
                THEN Paged("abandoned", page.listening, page.held, page.expected, page.wanted)
                ELSE Paged("closed", FALSE, page.held, page.expected, page.wanted)
  BY <1>1, PageWith DEF Disposes
<1>9. Holds => page' = Paged(page.phase, page.listening, Append(page.held, Head(wire)),
                             page.expected, page.wanted)
  BY <1>1, PageWith DEF Holds
<1>10. Started = Paged("live", page.listening, <<>>, page.expected, page.wanted)
  BY <1>1, PageWith DEF Started
<1>11. ASSUME NEW f, Applied(f, page)
       PROVE  page' = Paged(page.phase, page.listening, page.held, f.seq + 1, page.wanted)
  BY <1>1, <1>11, PageWith DEF Applied
<1>12. ASSUME NEW f, Applied(f, Started)
       PROVE  page' = Paged("live", page.listening, <<>>, f.seq + 1, page.wanted)
  <2>1. ASSUME NEW e
        PROVE  [Paged("live", page.listening, <<>>, page.expected, page.wanted) EXCEPT !.expected = e]
                 = Paged("live", page.listening, <<>>, e, page.wanted)
    BY DEF Paged
  <2> QED BY <1>10, <1>12, <2>1 DEF Applied
<1> QED BY <1>1, <1>2, <1>3, <1>4, <1>5, <1>6, <1>7, <1>8, <1>9, <1>10, <1>11, <1>12

(* An answer changes the phase of a pane that attaches.                     *)
LEMMA AckedPage ==
    ASSUME TypeOK, NEW c \in calls, AckArrives(c)
    PROVE  /\ page'.attach = page.attach /\ page'.held = page.held
           /\ page'.expected = page.expected /\ page'.wanted = page.wanted
           /\ \/ page' = page
              \/ /\ page.phase \in {"acking", "abandoned"}
                 /\ page'.phase \in {"closed", "acked", "leaving"}
                 /\ page'.listening \in {FALSE, page.listening}
           /\ page' \in [attach : {page.attach}, phase : Phases, listening : BOOLEAN,
                         held : {page.held}, expected : {page.expected}, wanted : {page.wanted}]
<1>1. page.listening \in BOOLEAN /\ page.phase \in Phases
  BY DEF TypeOK
<1>2. CASE page' = page
  BY <1>1, <1>2, PageMoves DEF Pages
<1>3. CASE /\ page.phase \in {"acking", "abandoned"}
           /\ page' = [page EXCEPT !.phase = "closed", !.listening = FALSE]
  BY <1>1, <1>3 DEF TypeOK, Phases
<1>4. CASE page.phase = "acking" /\ page' = [page EXCEPT !.phase = "acked"]
  BY <1>1, <1>4 DEF TypeOK, Phases
<1>5. CASE page.phase = "abandoned" /\ page' = [page EXCEPT !.phase = "leaving"]
  BY <1>1, <1>5 DEF TypeOK, Phases
<1> QED BY <1>2, <1>3, <1>4, <1>5 DEF AckArrives

(* Every step keeps the phases of the two kinds of pane apart.              *)
LEMMA PhasesStep ==
    ASSUME TypeOK, SendsWhatWasRead, PhasesApart, CreditIsOne, FramesCounted, [Next]_vars
    PROVE  PhasesApart'
<1> USE DEF PhasesApart, Showing
<1>1. ASSUME page' = page PROVE PhasesApart'
  BY <1>1
<1>2. Indoors \/ VtFeeds \/ VtResizes \/ VtAcks => page' = page
  BY VtReceived DEF Indoors, front
<1>3. (\E c \in calls : ResizePty(c) \/ ResizeVt(c)) \/ KillArrives \/ Paints => page' = page
  BY DEF ResizePty, ResizeVt, KillArrives, Paints, front
<1>4. ASSUME NEW c \in calls, AckArrives(c) PROVE PhasesApart'
  BY <1>4, AckedPage
<1>5. CASE WindowDestroyed \/ Leaves
  <2>1. page' \in {Paged("gone", FALSE, <<>>, page.expected, page.wanted),
                   Paged("closed", FALSE, <<>>, page.expected, page.wanted)}
    BY <1>5, PageMoves
  <2> QED BY <2>1 DEF Paged
<1>6. CASE Registers \/ Layouts
  <2>1. page'.attach = page.attach /\ page'.phase = page.phase /\ page'.held = page.held
    BY <1>6, PageMoves DEF Paged
  <2>2. page'.listening = TRUE \/ page'.listening = page.listening
    BY <1>6, PageMoves DEF Paged
  <2> QED BY <2>1, <2>2
<1>7. CASE Attaches \/ Attached
  <2>1. page.attach
    BY <1>7 DEF Attaches, Attached
  <2>2. page'.attach = page.attach /\ page'.held = page.held /\ page'.phase \in {"acking", "live"}
    BY <1>7, PageMoves DEF Paged
  <2> QED BY <2>1, <2>2
<1>8. CASE Disposes
  <2>1. page'.attach = page.attach /\ page'.held = page.held
    BY <1>8, PageMoves DEF Paged
  <2>2. page.phase # "acking" => page'.phase \in {"leaving", "closed"}
    BY <1>8, PageMoves DEF Paged
  <2>3. page.phase = "acking" => page'.phase = "abandoned"
    BY <1>8, PageMoves DEF Paged
  <2> QED BY <2>1, <2>2, <2>3
<1>9. CASE Dispatches
  <2>1. CASE Loses
    BY <1>1, <2>1 DEF Loses, front
  <2>2. CASE Holds
    <3>1. page'.attach = page.attach /\ page'.phase = page.phase /\ page'.listening = page.listening
      BY <2>2, PageMoves DEF Paged
    <3> QED BY <2>2, <3>1 DEF Holds
  <2>3. CASE ShowsNow
    <3>1. CASE Applied(Head(wire), page)
      BY <3>1, PageMoves DEF Paged
    <3>2. CASE Stands(page)
      BY <1>1, <3>2 DEF Stands
    <3> QED BY <2>3, <3>1, <3>2 DEF ShowsNow, ShowsOn
  <2> QED BY <1>9, <2>1, <2>2, <2>3, DispatchCases
<1>10. CASE StartReturns
  <2>1. PICK ex : page' = Paged("live", page.listening, <<>>, ex, page.wanted)
    BY <1>10, StartCases, PageMoves DEF ShowsOn, Stands
  <2> QED BY <1>10, <2>1, StartCases DEF Paged
<1> QED BY <1>1, <1>2, <1>3, <1>4, <1>5, <1>6, <1>7, <1>8, <1>9, <1>10, OutdoorSteps

(* Every number is of a frame that was emitted, after every step.           *)
LEMMA SeqsStep ==
    ASSUME TypeOK, SendsWhatWasRead, PhasesApart, CreditIsOne, FramesCounted,
           ChunksCounted, SeqsArePast, [Next]_vars
    PROVE  SeqsArePast'
<1>1. /\ wire \in Seq(Frames) /\ page.held \in Seq(Frames) /\ gate.next \in Nat
      /\ page.expected \in Nat /\ \A f \in Frames : f.seq \in Nat
      /\ unpainted \in Nat
  BY BoundsAreNat DEF TypeOK, Seqs, Frames, None, HighWater
<1>2. /\ \A i \in DOMAIN wire : wire[i].seq < gate.next
      /\ \A i \in DOMAIN page.held : page.held[i].seq < gate.next
      /\ unpainted # None => unpainted < gate.next
      /\ page.expected <= gate.next
  BY DEF SeqsArePast
<1>3. ASSUME gate'.next = gate.next,
             wire' \in {wire, <<>>} \/ (wire # <<>> /\ wire' = Tail(wire)),
             \/ page'.held \in {page.held, <<>>}
             \/ wire # <<>> /\ page'.held = Append(page.held, Head(wire)),
             unpainted' # None => unpainted' = unpainted \/ unpainted' < gate.next,
             page'.expected \in {page.expected, 0} \/ page'.expected <= gate.next
      PROVE  SeqsArePast'
  <2>1. \A i \in DOMAIN wire' : wire'[i].seq < gate.next
    <3>1. CASE wire' \in {wire, <<>>}
      BY <1>2, <3>1
    <3>2. CASE wire # <<>> /\ wire' = Tail(wire)
      BY <1>1, <1>2, <3>2, Popped
    <3> QED BY <1>3, <3>1, <3>2
  <2>2. \A i \in DOMAIN page'.held : page'.held[i].seq < gate.next
    <3>1. CASE page'.held \in {page.held, <<>>}
      BY <1>2, <3>1
    <3>2. CASE wire # <<>> /\ page'.held = Append(page.held, Head(wire))
      <4>1. Head(wire) \in Frames /\ Head(wire) = wire[1] /\ 1 \in DOMAIN wire
        BY <1>1, <3>2, Popped
      <4>2. Head(wire).seq < gate.next
        BY <1>2, <4>1
      <4> QED BY <1>1, <1>2, <3>2, <4>1, <4>2, Pushed
    <3> QED BY <1>3, <3>1, <3>2
  <2> QED BY <1>1, <1>2, <1>3, <2>1, <2>2 DEF SeqsArePast
<1>4. CASE Indoors
  BY <1>3, <1>4 DEF Indoors, front
<1>5. ASSUME NEW d, NEW z, NEW f, NEW w, Draws(d, z, f, w), NewFrame(d, z, f) \in Frames,
             UNCHANGED <<page, unpainted>>
      PROVE  SeqsArePast'
  <2>1. CASE Quiet(d, z, f, w)
    BY <1>3, <1>5, <2>1 DEF Quiet
  <2>2. CASE Emits(d, z, f, w)
    <3>1. gate'.next = gate.next + 1 /\ wire' = Append(wire, NewFrame(d, z, f))
      BY <2>2 DEF Emits
    <3>2. \A i \in DOMAIN wire' : wire'[i].seq < gate'.next
      <4>1. NewFrame(d, z, f).seq = gate.next
        BY DEF NewFrame
      <4> HIDE DEF NewFrame
      <4>2. ASSUME NEW i \in DOMAIN wire' PROVE wire'[i].seq < gate'.next
        <5>1. CASE i \in DOMAIN wire
          <6>1. wire'[i] = wire[i] /\ wire[i] \in Frames
            BY <1>1, <1>5, <3>1, <5>1, Pushed
          <6>2. wire[i].seq \in Nat /\ wire[i].seq < gate.next
            BY <1>1, <1>2, <5>1, <6>1
          <6> QED BY <1>1, <3>1, <6>1, <6>2
        <5>2. CASE i = Len(wire) + 1
          BY <1>1, <1>5, <3>1, <4>1, <5>2, Pushed
        <5> QED BY <1>1, <1>5, <3>1, <5>1, <5>2, Pushed
      <4> QED BY <4>2
    <3>3. \A i \in DOMAIN page.held : page.held[i].seq < gate.next + 1
      <4>1. \A i \in DOMAIN page.held : page.held[i] \in Frames
        BY <1>1, Popped, EmptySeq
      <4> QED BY <1>1, <1>2, <4>1
    <3> QED BY <1>1, <1>2, <1>5, <3>1, <3>2, <3>3 DEF SeqsArePast
  <2> QED BY <1>5, <2>1, <2>2 DEF Draws
<1>6. CASE VtFeeds \/ VtResizes \/ VtAcks
  <2>1. UNCHANGED <<page, unpainted>>
    BY <1>6, VtReceived DEF front
  <2>2. \E d \in 0..MaxChunks, z \in Sizes, f \in BOOLEAN, w \in BOOLEAN :
           Draws(d, z, f, w) /\ NewFrame(d, z, f) \in Frames
    BY <1>6, VtFrames
  <2> QED BY <1>5, <2>1, <2>2
<1>7. CASE \E c \in calls : AckArrives(c)
  BY <1>3, <1>7, AckedPage DEF AckArrives, native
<1>8. CASE (\E c \in calls : ResizePty(c) \/ ResizeVt(c)) \/ KillArrives
  BY <1>3, <1>8 DEF ResizePty, ResizeVt, KillArrives, native, front
<1>9. CASE WindowDestroyed
  <2>1. page'.held = <<>> /\ page'.expected = page.expected
    BY <1>9, PageMoves DEF Paged
  <2> QED BY <1>3, <1>9, <2>1 DEF WindowDestroyed, native
<1>10. CASE Registers \/ Attaches \/ Attached \/ Layouts \/ Leaves
  <2>1. page'.held \in {page.held, <<>>} /\ page'.expected = page.expected
    BY <1>10, PageMoves DEF Paged
  <2>2. UNCHANGED <<gate, wire, unpainted>>
    BY <1>10 DEF Registers, Attaches, Attached, Layouts, Leaves, native
  <2> QED BY <1>3, <2>1, <2>2
<1>11. CASE Paints \/ Disposes
  <2>1. page'.held = page.held /\ page'.expected = page.expected
    BY <1>11, PageMoves DEF Paged, Paints
  <2>2. UNCHANGED <<gate, wire>> /\ unpainted' = None
    BY <1>11 DEF Paints, Disposes, native
  <2> QED BY <1>3, <2>1, <2>2
<1>12. CASE Dispatches
  <2>1. wire # <<>> /\ wire' = Tail(wire) /\ gate' = gate /\ Head(wire).seq < gate.next
    BY <1>2, <1>12, DispatchCases DEF native
  <2>2. Head(wire) \in Frames
    BY <1>12, DispatchCases
  <2>3. CASE Loses \/ (ShowsNow /\ Stands(page))
    <3>1. UNCHANGED front
      BY <2>3 DEF Loses, Stands, front
    <3> QED BY <1>3, <2>1, <3>1 DEF front
  <2>4. CASE Holds
    <3>1. page'.held = Append(page.held, Head(wire)) /\ page'.expected = page.expected
      BY <2>4, PageMoves DEF Paged
    <3> QED BY <1>3, <2>1, <2>4, <3>1 DEF Holds
  <2>5. CASE Applied(Head(wire), page)
    <3>1. page'.held = page.held /\ page'.expected = Head(wire).seq + 1
      BY <2>5, PageMoves DEF Paged
    <3>2. unpainted' = Head(wire).seq /\ Head(wire).seq + 1 <= gate.next
      BY <1>1, <2>1, <2>2, <2>5 DEF Applied
    <3> QED BY <1>3, <2>1, <3>1, <3>2
  <2> QED BY <1>12, <2>3, <2>4, <2>5, DispatchCases DEF ShowsNow, ShowsOn
<1>13. CASE StartReturns
  <2>1. UNCHANGED <<gate, wire>>
    BY <1>13, StartCases DEF native
  <2>2. CASE Stands(Started)
    <3>1. page'.held = <<>> /\ page'.expected = page.expected
      BY <2>2, PageMoves DEF Paged, Stands
    <3> QED BY <1>3, <2>1, <2>2, <3>1 DEF Stands
  <2>3. CASE page.held # <<>> /\ page.held[1] \in Frames /\ Applied(page.held[1], Started)
    <3>1. page'.held = <<>> /\ page'.expected = page.held[1].seq + 1
      BY <2>3, PageMoves DEF Paged
    <3>2. page.held[1].seq < gate.next /\ page.held[1].seq \in Nat
      BY <1>1, <1>2, <2>3, Popped
    <3>3. unpainted' = page.held[1].seq /\ page.held[1].seq + 1 <= gate.next
      BY <1>1, <2>3, <3>2 DEF Applied
    <3> QED BY <1>3, <2>1, <3>1, <3>2, <3>3
  <2> QED BY <1>13, <2>2, <2>3, StartCases DEF ShowsOn
<1> QED
  BY <1>4, <1>6, <1>7, <1>8, <1>9, <1>10, <1>11, <1>12, <1>13, OutdoorSteps

-----------------------------------------------------------------------------
(* What a step does to the commands in flight *)

(* Of finitely many commands, finitely many are of one kind.                *)
LEMMA FewCalls ==
    ASSUME NEW s, IsFiniteSet(s), NEW op
    PROVE  IsFiniteSet(CallsOf(s, op)) /\ Cardinality(CallsOf(s, op)) \in Nat
<1>1. CallsOf(s, op) \in SUBSET s
  BY DEF CallsOf
<1> QED BY <1>1, FS_Subset, FS_CardinalityType

(* One more command is at most one more of its kind.                        *)
LEMMA Calling ==
    ASSUME NEW s, IsFiniteSet(s), NEW c, NEW op
    PROVE  /\ IsFiniteSet(s \cup {c})
           /\ c.op # op => CallsOf(s \cup {c}, op) = CallsOf(s, op)
           /\ c.op = op => CallsOf(s \cup {c}, op) = CallsOf(s, op) \cup {c}
           /\ Cardinality(CallsOf(s \cup {c}, op)) <= Cardinality(CallsOf(s, op)) + 1
           /\ c.op = op /\ c \notin s =>
                Cardinality(CallsOf(s \cup {c}, op)) = Cardinality(CallsOf(s, op)) + 1
<1>1. IsFiniteSet(s \cup {c})
  BY FS_AddElement
<1>2. IsFiniteSet(CallsOf(s, op)) /\ Cardinality(CallsOf(s, op)) \in Nat
  BY FewCalls
<1>3. c.op # op => CallsOf(s \cup {c}, op) = CallsOf(s, op)
  BY DEF CallsOf
<1>4. c.op = op => CallsOf(s \cup {c}, op) = CallsOf(s, op) \cup {c}
  BY DEF CallsOf
<1>5. Cardinality(CallsOf(s, op) \cup {c}) =
        IF c \in CallsOf(s, op) THEN Cardinality(CallsOf(s, op)) ELSE Cardinality(CallsOf(s, op)) + 1
  BY <1>2, FS_AddElement
<1>6. c \in CallsOf(s, op) => c \in s
  BY DEF CallsOf
<1> QED BY <1>1, <1>2, <1>3, <1>4, <1>5, <1>6

(* One command less is one less of its kind.                                *)
LEMMA Answering ==
    ASSUME NEW s, IsFiniteSet(s), NEW c \in s, NEW op
    PROVE  /\ IsFiniteSet(s \ {c})
           /\ c.op # op => CallsOf(s \ {c}, op) = CallsOf(s, op)
           /\ c.op = op => Cardinality(CallsOf(s, op)) = Cardinality(CallsOf(s \ {c}, op)) + 1
<1>1. IsFiniteSet(s \ {c})
  BY FS_RemoveElement
<1>2. IsFiniteSet(CallsOf(s, op)) /\ Cardinality(CallsOf(s, op)) \in Nat
  BY FewCalls
<1>3. c.op # op => CallsOf(s \ {c}, op) = CallsOf(s, op)
  BY DEF CallsOf
<1>4. ASSUME c.op = op
      PROVE  Cardinality(CallsOf(s, op)) = Cardinality(CallsOf(s \ {c}, op)) + 1
  <2>1. CallsOf(s \ {c}, op) = CallsOf(s, op) \ {c} /\ c \in CallsOf(s, op)
    BY <1>4 DEF CallsOf
  <2>2. Cardinality(CallsOf(s, op) \ {c}) = Cardinality(CallsOf(s, op)) - 1
    BY <1>2, <2>1, FS_RemoveElement
  <2>3. Cardinality(CallsOf(s \ {c}, op)) = Cardinality(CallsOf(s, op)) - 1
    BY <2>1, <2>2
  <2> QED BY <1>2, <2>3
<1> QED BY <1>1, <1>3, <1>4

(* The commands of the page are of the kinds that are sent.                 *)
LEMMA CallsAreCalled ==
    /\ \A q : AckCall(q).op = "ack" /\ AckCall(q).seq = q
    /\ \A s : ResizeCall(s).op = "resize"
    /\ KillCall.op = "kill"
BY DEF AckCall, ResizeCall, KillCall

(* The resize of the master leaves a resize of the mirror, or none.         *)
LEMMA ResizedPty ==
    ASSUME IsFiniteSet(calls), NEW c \in calls, ResizePty(c), calls \subseteq Called
    PROVE  /\ IsFiniteSet(calls')
           /\ Cardinality(CallsOf(calls', "resize")) <= Cardinality(CallsOf(calls, "resize"))
           /\ \A op : op # "resize" => CallsOf(calls', op) = CallsOf(calls, op)
<1> DEFINE d == [c EXCEPT !.done = TRUE]
           left == calls \ {c}
<1>1. c.op = "resize" /\ calls' \in {left, left \cup {d}}
  BY DEF ResizePty
<1>2. d.op = "resize"
  <2>1. c \in [op : {"resize"}, size : Sizes, done : BOOLEAN]
    BY <1>1 DEF Called, KillCall
  <2> QED BY <2>1
<1> HIDE DEF d, left
<1>3. /\ IsFiniteSet(left)
      /\ Cardinality(CallsOf(calls, "resize")) = Cardinality(CallsOf(left, "resize")) + 1
      /\ \A op : op # "resize" => CallsOf(left, op) = CallsOf(calls, op)
  BY <1>1, Answering DEF left
<1>4. /\ IsFiniteSet(left \cup {d})
      /\ Cardinality(CallsOf(left \cup {d}, "resize")) <= Cardinality(CallsOf(left, "resize")) + 1
  BY <1>3, Calling
<1>5. ASSUME NEW op, op # "resize" PROVE CallsOf(left \cup {d}, op) = CallsOf(left, op)
  BY <1>2, <1>5 DEF CallsOf
<1>6. Cardinality(CallsOf(left, "resize")) \in Nat
  BY <1>3, FewCalls
<1>7. CASE calls' = left
  BY <1>3, <1>6, <1>7
<1>8. CASE calls' = left \cup {d}
  <2>1. \A op : op # "resize" => CallsOf(calls', op) = CallsOf(calls, op)
    BY <1>3, <1>5, <1>8
  <2>2. Cardinality(CallsOf(calls', "resize")) <= Cardinality(CallsOf(left, "resize")) + 1
    BY <1>4, <1>8
  <2> QED BY <1>3, <1>4, <1>8, <2>1, <2>2
<1> QED BY <1>1, <1>7, <1>8

(* ------- the frames *)

(* Every step keeps the account of what frames are due to.                  *)
LEMMA FramesStep ==
    ASSUME TypeOK, SendsWhatWasRead, PhasesApart, CreditIsOne, FramesCounted, ChunksCounted,
           [Next]_vars
    PROVE  FramesCounted'
<1> DEFINE next == gate.next
           dirty == IF screen.full \/ screen.drawn # screen.base THEN 1 ELSE 0
           coming == Count(chan, "resize")
           asked == Cardinality(CallsOf(calls, "resize"))
           drawn == screen.drawn
           wanted == page.wanted
           extra == IF page.attach /\ page.phase \in {"live", "closed", "gone"} THEN 1 ELSE 0
<1>1. IsFiniteSet(calls) /\ calls \subseteq Called /\ chan \in Seq(Commanded)
  BY DEF TypeOK, FramesCounted
<1>2. /\ next \in Nat /\ dirty \in Nat /\ coming \in Nat /\ asked \in Nat /\ drawn \in Nat
      /\ wanted \in Nat /\ extra \in Nat
  <2>1. next \in Nat /\ drawn \in Nat /\ wanted \in Nat /\ dirty \in Nat /\ extra \in Nat
    BY BoundsAreNat DEF TypeOK, Seqs, Sizes
  <2> QED BY <1>1, <2>1, CountIsNat, FewCalls
<1>3. next + dirty + coming + asked <= 1 + drawn + wanted + extra
  BY DEF FramesCounted
<1>4. ASSUME IsFiniteSet(calls'),
             next' + dirty' + coming' + asked' <= 1 + drawn' + wanted' + extra'
      PROVE  FramesCounted'
  BY <1>4 DEF FramesCounted
<1>5. ASSUME UNCHANGED <<gate, screen>>, IsFiniteSet(calls'),
             NEW c \in Nat, c = coming', NEW a \in Nat, a = asked',
             NEW w \in Nat, w = wanted', NEW e \in Nat, e = extra',
             c + a + wanted + extra <= coming + asked + w + e
      PROVE  FramesCounted'
  <2>1. next' = next /\ dirty' = dirty /\ drawn' = drawn
    BY <1>5
  <2> HIDE DEF next, dirty, coming, asked, drawn, wanted, extra
  <2>2. /\ c \in Nat /\ a \in Nat /\ w \in Nat /\ e \in Nat
        /\ c + a + wanted + extra <= coming + asked + w + e
    BY <1>5
  <2>3. next + dirty + c + a <= 1 + drawn + w + e
    BY <1>2, <1>3, <2>2
  <2>4. next' + dirty' + coming' + asked' <= 1 + drawn' + wanted' + extra'
    BY <1>5, <2>1, <2>3
  <2> QED BY <1>4, <1>5, <2>4
<1>6. CASE Indoors
  <2>1. UNCHANGED <<gate, screen, calls, page>>
    BY <1>6 DEF Indoors, front
  <2>2. coming' = coming \/ coming' = 0
    BY <1>6, Emptied DEF Indoors
  <2>3. asked' = asked /\ wanted' = wanted /\ extra' = extra
    BY <2>1
  <2>4. PICK c \in Nat : c = coming' /\ c <= coming
    BY <1>2, <2>2
  <2> HIDE DEF next, dirty, drawn, coming, asked, wanted, extra
  <2>5. c <= coming
    BY <2>4
  <2>6. c + asked + wanted + extra <= coming + asked + wanted + extra
    BY <1>2, <2>5
  <2> QED BY <1>1, <1>2, <1>5, <2>1, <2>3, <2>4, <2>6
<1>7. CASE VtFeeds \/ VtResizes \/ VtAcks
  <2>1. UNCHANGED <<calls, page>> /\ chan # <<>> /\ chan' = Tail(chan)
    BY <1>7, VtReceived DEF front
  <2>2. Tail(chan) \in Seq(Commanded)
    BY <1>1, <2>1, Received
  <2>3. PICK c \in Nat : c = Count(Tail(chan), "resize")
    BY <2>2, CountIsNat
  <2>4. coming = c + (IF VtResizes THEN 1 ELSE 0) /\ coming' = c
    BY <1>1, <1>7, <2>1, <2>3, Received, VtReceived
  <2>5. asked' = asked /\ wanted' = wanted /\ extra' = extra /\ IsFiniteSet(calls')
    BY <1>1, <2>1
  <2>6. PICK d \in 0..MaxChunks, z \in Sizes, f \in BOOLEAN, w \in BOOLEAN :
              /\ Draws(d, z, f, w) /\ NewFrame(d, z, f) \in Frames
              /\ VtFeeds => /\ d = screen.drawn + 1 /\ z = screen.size /\ f = screen.full
                            /\ w = gate.awaiting
              /\ VtResizes => d = screen.drawn /\ f = TRUE /\ w = gate.awaiting
              /\ VtAcks => /\ d = screen.drawn /\ z = screen.size /\ f = screen.full
                           /\ w <=> gate.awaiting /\ ~(gate.next > 0 /\ Head(chan).seq >= gate.next - 1)
    BY <1>7, VtFrames
  <2>7. d \in Nat /\ drawn' = d
    BY <2>6, DrawnIs, BoundsAreNat
  <2> DEFINE changed == IF f \/ d # screen.base THEN 1 ELSE 0
  <2>8. \E n \in Nat, e \in Nat : n = next' /\ e = dirty' /\ n + e <= next + changed
    <3>1. CASE Quiet(d, z, f, w)
      <4>1. screen'.drawn = d /\ screen'.base = screen.base /\ screen'.full = f /\ gate'.next = gate.next
        BY <3>1 DEF Quiet
      <4>2. next' = next /\ dirty' = changed
        BY <4>1
      <4> HIDE DEF next, dirty
      <4> QED BY <1>2, <4>2
    <3>2. CASE Emits(d, z, f, w)
      <4>1. /\ screen'.drawn = d /\ screen'.base = d /\ screen'.full = FALSE
            /\ gate'.next = gate.next + 1 /\ (f \/ d # screen.base)
        BY <3>2 DEF Emits
      <4>2. next' = next + 1 /\ dirty' = 0 /\ changed = 1
        BY <4>1
      <4> HIDE DEF next, dirty, changed
      <4> QED BY <1>2, <4>2
    <3> QED BY <2>6, <3>1, <3>2 DEF Draws
  <2>9. PICK n \in Nat, e \in Nat : n = next' /\ e = dirty' /\ n + e <= next + changed
    BY <2>8
  <2>10. changed + drawn + c <= dirty + d + coming /\ changed \in Nat
    <3>1. changed \in {0, 1} /\ dirty \in {0, 1}
      OBVIOUS
    <3>2. CASE VtFeeds
      <4>1. d = drawn + 1 /\ coming = c
        BY <1>7, <2>3, <2>4, <2>6, <3>2, VtReceived
      <4> HIDE DEF drawn, coming, changed, dirty
      <4> QED BY <1>2, <2>3, <3>1, <4>1
    <3>3. CASE VtResizes
      <4>1. d = drawn /\ coming = c + 1
        BY <2>4, <2>6, <3>3
      <4> HIDE DEF drawn, coming, changed, dirty
      <4> QED BY <1>2, <2>3, <3>1, <4>1
    <3>4. CASE VtAcks
      <4>1. changed = dirty /\ d = drawn /\ coming = c
        BY <1>7, <2>3, <2>4, <2>6, <3>4, VtReceived
      <4> HIDE DEF drawn, coming, changed, dirty
      <4> QED BY <1>2, <2>3, <3>1, <4>1
    <3> QED BY <1>7, <3>2, <3>3, <3>4
  <2> HIDE DEF changed, next, dirty, coming, asked, drawn, wanted, extra
  <2>11. c \in Nat /\ d \in Nat /\ n + e <= next + changed
    BY <2>3, <2>7, <2>9
  <2>12. n + e + c + asked <= 1 + d + wanted + extra
    BY <1>2, <1>3, <2>10, <2>11
  <2> QED BY <1>4, <2>4, <2>5, <2>7, <2>9, <2>12
<1>8. ASSUME UNCHANGED <<gate, screen, chan>>, IsFiniteSet(calls'),
             NEW a \in Nat, a = asked', NEW w \in Nat, w = wanted',
             NEW e \in Nat, e = extra',
             (a <= asked /\ w = wanted /\ extra <= e) \/ (a <= asked + 1 /\ w = wanted + 1 /\ e = extra)
               \/ (a <= asked + 1 /\ w = wanted /\ e = extra + 1)
      PROVE  FramesCounted'
  <2>1. coming' = coming
    BY <1>8
  <2> HIDE DEF next, dirty, drawn, coming, asked, wanted, extra
  <2>2. /\ a \in Nat /\ w \in Nat /\ e \in Nat
        /\ (a <= asked /\ w = wanted /\ extra <= e) \/ (a <= asked + 1 /\ w = wanted + 1 /\ e = extra)
             \/ (a <= asked + 1 /\ w = wanted /\ e = extra + 1)
    BY <1>8
  <2>3. coming + a + wanted + extra <= coming + asked + w + e
    BY <1>2, <2>2
  <2> QED BY <1>2, <1>5, <1>8, <2>1, <2>3
<1>9. ASSUME NEW c \in calls, AckArrives(c) PROVE FramesCounted'
  <2>1. c \in Called /\ c.op = "ack"
    BY <1>1, <1>9 DEF AckArrives
  <2>2. c.seq \in Seqs \cup {HighWater}
    BY <2>1 DEF Called, KillCall
  <2>3. UNCHANGED chan \/ Send(Ack(c.seq))
    BY <1>9 DEF AckArrives
  <2>4. coming' = coming
    BY <1>1, <1>2, <2>2, <2>3, CommandsAreCommanded, Sent
  <2>5. IsFiniteSet(calls') /\ asked' = asked
    BY <1>1, <1>9, <2>1, Answering DEF AckArrives
  <2>6. page'.wanted = page.wanted /\ page'.attach = page.attach
        /\ (page'.phase = page.phase \/ page.phase \in {"acking", "abandoned"})
    BY <1>9, AckedPage
  <2>7. PICK e \in Nat : e = extra' /\ extra <= e
    BY <2>6
  <2>8. UNCHANGED <<gate, screen>>
    BY <1>9 DEF AckArrives, native
  <2> HIDE DEF next, dirty, drawn, coming, asked, extra
  <2>9. coming + asked + wanted + extra <= coming + asked + wanted + e
    <3>1. extra <= e
      BY <2>7
    <3> HIDE DEF wanted
    <3> QED BY <1>2, <3>1
  <2> QED BY <1>2, <1>5, <2>4, <2>5, <2>6, <2>7, <2>8, <2>9
<1>10. ASSUME NEW c \in calls, ResizePty(c) PROVE FramesCounted'
  <2>1. IsFiniteSet(calls') /\ asked' <= asked
    BY <1>1, <1>10, ResizedPty
  <2>2. UNCHANGED <<gate, screen, chan, page>>
    BY <1>10 DEF ResizePty, native, front
  <2>3. PICK a \in Nat : a = asked' /\ a <= asked
    BY <2>1, FewCalls
  <2>4. wanted' = wanted /\ extra' = extra
    BY <2>2
  <2>5. extra <= extra
    BY <1>2
  <2> HIDE DEF next, dirty, drawn, coming, asked, wanted, extra
  <2> QED BY <1>2, <1>8, <2>1, <2>2, <2>3, <2>4, <2>5
<1>11. ASSUME NEW c \in calls, ResizeVt(c) PROVE FramesCounted'
  <2>1. c \in Called /\ c.op = "resize"
    BY <1>1, <1>11 DEF ResizeVt
  <2>2. c.size \in Sizes
    BY <2>1 DEF Called, KillCall
  <2>3. Send(Resize(c.size)) /\ calls' = calls \ {c} /\ UNCHANGED <<gate, screen, page>>
    BY <1>11 DEF ResizeVt, native, front
  <2>4. coming' = coming \/ coming' = coming + 1
    BY <1>1, <1>2, <2>2, <2>3, CommandsAreCommanded, Sent
  <2>5. IsFiniteSet(calls') /\ asked = asked' + 1
    BY <1>1, <2>1, <2>3, Answering
  <2>6. wanted' = wanted /\ extra' = extra
    BY <2>3
  <2>7. PICK a \in Nat : a = asked'
    BY <2>5, FewCalls
  <2>8. PICK b \in Nat : b = coming' /\ (b = coming \/ b = coming + 1)
    BY <1>2, <2>4
  <2> HIDE DEF next, dirty, drawn, coming, asked, wanted, extra
  <2>9. asked = a + 1 /\ (b = coming \/ b = coming + 1)
    BY <2>5, <2>7, <2>8
  <2>10. b + a + wanted + extra <= coming + asked + wanted + extra
    BY <1>2, <2>9
  <2> QED BY <1>2, <1>5, <2>3, <2>5, <2>6, <2>7, <2>8, <2>10
<1>12. ASSUME UNCHANGED <<gate, screen, chan>>, page'.wanted = page.wanted, page'.attach = page.attach,
              page'.phase = page.phase \/ page.phase \notin {"live", "closed", "gone"}
                 \/ page'.phase \in {"live", "closed", "gone"} \/ ~page.attach,
              NEW c, c.op # "resize", calls' \in {calls, calls \cup {c}}
                 \/ (c \in calls /\ calls' = calls \ {c})
       PROVE  FramesCounted'
  <2>1. IsFiniteSet(calls') /\ asked' = asked
    <3>1. CASE calls' = calls
      BY <1>1, <3>1
    <3>2. CASE calls' = calls \cup {c}
      BY <1>1, <1>12, <3>2, Calling
    <3>3. CASE c \in calls /\ calls' = calls \ {c}
      BY <1>1, <1>12, <3>3, Answering
    <3> QED BY <1>12, <3>1, <3>2, <3>3
  <2>2. PICK e \in Nat : e = extra' /\ extra <= e
    BY <1>12
  <2>3. wanted' = wanted
    BY <1>12
  <2>4. asked <= asked /\ wanted = wanted
    BY <1>2
  <2> HIDE DEF next, dirty, drawn, coming, asked, wanted, extra
  <2> QED BY <1>2, <1>8, <1>12, <2>1, <2>2, <2>3, <2>4
<1>13. CASE KillArrives
  BY <1>12, <1>13, CallsAreCalled DEF KillArrives, native, front
<1>14. CASE WindowDestroyed \/ Leaves
  <2>1. page'.wanted = page.wanted /\ page'.attach = page.attach /\ page'.phase \in {"closed", "gone"}
    BY <1>14, PageMoves DEF Paged
  <2>2. UNCHANGED <<gate, screen, chan>> /\ calls' \in {calls, calls \cup {KillCall}}
    BY <1>14 DEF WindowDestroyed, Leaves, native
  <2> QED BY <1>12, <2>1, <2>2, CallsAreCalled
<1>15. CASE Registers \/ Attaches
  <2>1. page'.wanted = page.wanted /\ page'.attach = page.attach
    BY <1>15, PageMoves DEF Paged
  <2>2. page'.phase = page.phase \/ page.phase = "unaware"
    BY <1>15, PageMoves DEF Paged, Attaches
  <2>3. UNCHANGED <<gate, screen, chan>> /\ calls' \in {calls, calls \cup {AckCall(HighWater)}}
    BY <1>15 DEF Registers, Attaches, native
  <2> QED BY <1>12, <2>1, <2>2, <2>3, CallsAreCalled
<1>16. CASE Attached
  <2>1. page'.wanted = page.wanted /\ page'.attach = page.attach /\ page'.phase = "live"
    BY <1>16, PageMoves DEF Paged
  <2>2. UNCHANGED <<gate, screen, chan>> /\ calls' = calls \cup {ResizeCall(0)} /\ page.phase = "acked"
    BY <1>16 DEF Attached, native
  <2>3. page.attach
    BY <2>2 DEF PhasesApart
  <2>4. wanted' = wanted /\ extra' = 1 /\ extra = 0
    BY <2>1, <2>2, <2>3
  <2>5. IsFiniteSet(calls') /\ asked' <= asked + 1
    BY <1>1, <2>2, Calling
  <2>6. PICK a \in Nat : a = asked' /\ a <= asked + 1
    BY <2>5, FewCalls
  <2>7. extra' = extra + 1 /\ extra + 1 \in Nat
    BY <2>4
  <2> HIDE DEF next, dirty, drawn, coming, asked, wanted, extra
  <2> QED BY <1>2, <1>8, <2>2, <2>4, <2>5, <2>6, <2>7
<1>17. CASE Layouts
  <2>1. page'.wanted = page.wanted + 1 /\ page'.attach = page.attach /\ page'.phase = page.phase
    BY <1>17, PageMoves DEF Paged
  <2>2. UNCHANGED <<gate, screen, chan>> /\ calls' \in {calls, calls \cup {ResizeCall(page.wanted + 1)}}
    BY <1>17 DEF Layouts, native
  <2>3. wanted' = wanted + 1 /\ extra' = extra
    BY <2>1
  <2>4. IsFiniteSet(calls') /\ asked' <= asked + 1
    <3>1. CASE calls' = calls
      BY <1>1, <1>2, <3>1
    <3>2. CASE calls' = calls \cup {ResizeCall(page.wanted + 1)}
      BY <1>1, <3>2, Calling
    <3> QED BY <2>2, <3>1, <3>2
  <2>5. PICK a \in Nat : a = asked' /\ a <= asked + 1
    BY <2>4, FewCalls
  <2>6. wanted + 1 \in Nat
    BY <1>2
  <2> HIDE DEF next, dirty, drawn, coming, asked, wanted, extra
  <2> QED BY <1>2, <1>8, <2>2, <2>3, <2>4, <2>5, <2>6
<1>18. CASE Paints
  <2>1. UNCHANGED <<gate, screen, chan, page>> /\ calls' \in {calls, calls \cup {AckCall(unpainted)}}
    BY <1>18 DEF Paints, native
  <2> QED BY <1>12, <2>1, CallsAreCalled
<1>19. CASE Disposes
  <2>1. page'.wanted = page.wanted /\ page'.attach = page.attach
    BY <1>19, PageMoves DEF Paged
  <2>2. page.phase \in {"starting", "acked", "acking"} \/ page'.phase = "closed"
    BY <1>19, PageMoves DEF Paged, Disposes
  <2>3. UNCHANGED <<gate, screen, chan>> /\ calls' \in {calls, calls \cup {KillCall}}
    BY <1>19 DEF Disposes, native
  <2> QED BY <1>12, <2>1, <2>2, <2>3, CallsAreCalled
<1>20. CASE Dispatches
  <2>1. UNCHANGED <<gate, screen, chan, calls>>
    BY <1>20, DispatchCases DEF native
  <2>2. page'.wanted = page.wanted /\ page'.attach = page.attach /\ page'.phase = page.phase
    <3>1. CASE Loses \/ Stands(page)
      BY <3>1 DEF Loses, Stands, front
    <3>2. CASE Holds \/ Applied(Head(wire), page)
      BY <3>2, PageMoves DEF Paged
    <3> QED BY <1>20, <3>1, <3>2, DispatchCases DEF ShowsNow, ShowsOn
  <2> QED BY <1>12, <2>1, <2>2, CallsAreCalled
<1>21. CASE StartReturns
  <2>1. UNCHANGED <<gate, screen, chan, calls>> /\ ~page.attach
    BY <1>21, StartCases DEF native
  <2>2. page'.wanted = page.wanted /\ page'.attach = page.attach
    BY <1>21, StartCases, PageMoves DEF Paged, ShowsOn, Stands
  <2> QED BY <1>12, <2>1, <2>2, CallsAreCalled
<1> QED
  BY <1>6, <1>7, <1>9, <1>10, <1>11, <1>13, <1>14, <1>15, <1>16, <1>17, <1>18, <1>19, <1>20, <1>21,
     OutdoorSteps

-----------------------------------------------------------------------------
(* The credit of the gate *)

(* A pane that shows its session stays listed, after every step.            *)
LEMMA ListedStep ==
    ASSUME TypeOK, SendsWhatWasRead, PhasesApart, CreditIsOne, FramesCounted, ShownIsListed,
           [Next]_vars
    PROVE  ShownIsListed'
<1> USE DEF ShownIsListed, Showing
<1>1. \A q : AckCall(q) # KillCall /\ ResizeCall(q) # KillCall
  BY CallsAreCalled
<1>2. ASSUME listed' = listed, \A c \in calls' : c \in calls \/ c # KillCall,
             page'.attach = page.attach, page'.phase = page.phase
      PROVE  ShownIsListed'
  BY <1>2
<1>3. ASSUME page'.phase \in {"gone", "closed", "leaving", "abandoned"} \/ page'.attach
      PROVE  ShownIsListed'
  BY <1>3
<1>4. CASE Indoors
  BY <1>2, <1>4 DEF Indoors, front
<1>5. CASE VtFeeds \/ VtResizes \/ VtAcks
  BY <1>2, <1>5, VtReceived DEF front
<1>6. ASSUME NEW c \in calls, AckArrives(c) PROVE ShownIsListed'
  <2>1. page'.attach = page.attach /\ (page'.phase = page.phase \/ page.attach)
    BY <1>6, AckedPage DEF PhasesApart
  <2> QED BY <1>2, <1>3, <1>6, <2>1 DEF AckArrives
<1>7. ASSUME NEW c \in calls, ResizePty(c) PROVE ShownIsListed'
  <2>1. c \in [op : {"resize"}, size : Sizes, done : BOOLEAN]
    BY <1>7 DEF ResizePty, TypeOK, Called, KillCall
  <2>2. [c EXCEPT !.done = TRUE].op = "resize"
    BY <2>1
  <2>3. [c EXCEPT !.done = TRUE] # KillCall
    BY <2>2 DEF KillCall
  <2> QED BY <1>2, <1>7, <2>3 DEF ResizePty, front
<1>8. ASSUME NEW c \in calls, ResizeVt(c) PROVE ShownIsListed'
  BY <1>2, <1>8 DEF ResizeVt, front
<1>9. CASE KillArrives
  BY <1>9 DEF KillArrives, front
<1>10. CASE WindowDestroyed \/ Leaves \/ Disposes
  <2>1. page'.phase \in {"gone", "closed", "leaving", "abandoned"}
    BY <1>10, PageMoves DEF Paged
  <2> QED BY <1>3, <2>1
<1>11. CASE Attaches \/ Attached
  <2>1. page'.attach
    <3>1. page.attach
      BY <1>11 DEF Attaches, Attached, PhasesApart
    <3> QED BY <1>11, <3>1, PageMoves DEF Paged
  <2> QED BY <1>3, <2>1
<1>12. CASE Registers \/ Layouts \/ Paints
  <2>1. page'.attach = page.attach /\ page'.phase = page.phase
    BY <1>12, PageMoves DEF Paged, Paints
  <2>2. listed' = listed /\ \A c \in calls' : c \in calls \/ c # KillCall
    BY <1>1, <1>12 DEF Registers, Layouts, Paints
  <2> QED BY <1>2, <2>1, <2>2
<1>13. CASE Dispatches
  <2>1. page'.attach = page.attach /\ page'.phase = page.phase
    <3>1. CASE Loses \/ Stands(page)
      BY <3>1 DEF Loses, Stands, front
    <3>2. CASE Holds \/ Applied(Head(wire), page)
      BY <3>2, PageMoves DEF Paged
    <3> QED BY <1>13, <3>1, <3>2, DispatchCases DEF ShowsNow, ShowsOn
  <2> QED BY <1>2, <1>13, <2>1, DispatchCases
<1>14. CASE StartReturns
  <2>1. page'.attach = page.attach
    BY <1>14, StartCases, PageMoves DEF Paged, ShowsOn, Stands
  <2> QED BY <1>14, <2>1, StartCases
<1> QED
  BY <1>4, <1>5, <1>6, <1>7, <1>8, <1>9, <1>10, <1>11, <1>12, <1>13, <1>14, OutdoorSteps

(* What is to be painted is on the screen of a live pane, after every step. *)
LEMMA PaintStep ==
    ASSUME TypeOK, SendsWhatWasRead, PhasesApart, CreditIsOne, FramesCounted, PaintIsLive,
           [Next]_vars
    PROVE  PaintIsLive'
<1> USE DEF PaintIsLive
<1>1. ASSUME unpainted' = unpainted \/ unpainted' = None,
             page'.attach = page.attach, page'.phase = page.phase
      PROVE  PaintIsLive'
  BY <1>1
<1>2. CASE Indoors
  BY <1>1, <1>2 DEF Indoors, front
<1>3. CASE VtFeeds \/ VtResizes \/ VtAcks
  BY <1>1, <1>3, VtReceived DEF front
<1>4. ASSUME NEW c \in calls, AckArrives(c) PROVE PaintIsLive'
  <2>1. page'.attach = page.attach /\ (page'.phase = page.phase \/ page.attach)
    BY <1>4, AckedPage DEF PhasesApart
  <2>2. unpainted' = unpainted
    BY <1>4 DEF AckArrives
  <2> QED BY <1>1, <2>1, <2>2
<1>5. CASE (\E c \in calls : ResizePty(c) \/ ResizeVt(c)) \/ KillArrives
  BY <1>1, <1>5 DEF ResizePty, ResizeVt, KillArrives, front
<1>6. CASE WindowDestroyed \/ Disposes \/ Paints
  BY <1>6 DEF WindowDestroyed, Disposes, Paints
<1>7. CASE Registers \/ Layouts
  <2>1. page'.attach = page.attach /\ page'.phase = page.phase
    BY <1>7, PageMoves DEF Paged
  <2> QED BY <1>1, <1>7, <2>1 DEF Registers, Layouts
<1>8. CASE Attaches \/ Attached \/ Leaves
  <2>1. page.attach \/ (page.phase = "leaving" /\ unpainted' = unpainted)
    BY <1>8 DEF Attaches, Attached, Leaves, PhasesApart
  <2>2. page'.attach = page.attach
    BY <1>8, PageMoves DEF Paged
  <2> QED BY <2>1, <2>2
<1>9. CASE Dispatches
  <2>1. CASE Loses \/ Stands(page)
    BY <1>1, <2>1 DEF Loses, Stands, front
  <2>2. CASE Holds
    <3>1. page'.attach = page.attach /\ page'.phase = page.phase
      BY <2>2, PageMoves DEF Paged
    <3> QED BY <1>1, <2>2, <3>1 DEF Holds
  <2>3. CASE ShowsNow /\ Applied(Head(wire), page)
    <3>1. page'.attach = page.attach /\ page'.phase = page.phase
      BY <2>3, PageMoves DEF Paged
    <3>2. page.attach \/ page.phase = "live"
      BY <2>3 DEF ShowsNow, PhasesApart
    <3> QED BY <3>1, <3>2
  <2> QED BY <1>9, <2>1, <2>2, <2>3, DispatchCases DEF ShowsNow, ShowsOn
<1>10. CASE StartReturns
  <2>1. page'.phase = "live"
    BY <1>10, StartCases, PageMoves DEF Paged, ShowsOn, Stands
  <2> QED BY <2>1
<1> QED BY <1>2, <1>3, <1>4, <1>5, <1>6, <1>7, <1>8, <1>9, <1>10, OutdoorSteps

-----------------------------------------------------------------------------
(* The types *)

(* The child, the commands and the teardown.                                *)
LEMMA OutsideTypes ==
    ASSUME TypeOK, [Next]_vars
    PROVE  /\ child' \in {"running", "exited", "reaped"}
           /\ ptySize' \in Sizes /\ listed' \in BOOLEAN
           /\ teardown' \in [pc : {"none", "removed", "killed", "cancelled", "joining", "over"},
                             join : BOOLEAN]
           /\ keys' \in 0..MaxKeys
<1>1. /\ child \in {"running", "exited", "reaped"} /\ ptySize \in Sizes /\ listed \in BOOLEAN
      /\ teardown \in [pc : {"none", "removed", "killed", "cancelled", "joining", "over"},
                       join : BOOLEAN]
      /\ keys \in 0..MaxKeys
  BY DEF TypeOK
<1>2. (\E n \in ChunkSizes : ChildWrites(n)) \/ UNCHANGED vars
        => UNCHANGED <<child, ptySize, listed, teardown, keys>>
  BY DEF ChildWrites, vars, counts
<1>3. Reader \/ Vt => UNCHANGED <<child, ptySize, listed, teardown, keys>>
  BY VtEnded, VtReceived DEF Reader, Vt, ReaderClears, ReaderReads, ReaderSeesEof, ReaderSends,
     VtStarts, counts
<1>4. Page => UNCHANGED <<child, ptySize, listed, teardown, keys>>
  BY DEF Page, Registers, Dispatches, StartReturns, Attaches, Attached, Paints, Leaves, counts
<1>5. ChildExits \/ WaiterReports => /\ child' \in {"exited", "reaped"}
                                     /\ UNCHANGED <<ptySize, listed, teardown, keys>>
  BY DEF ChildExits, WaiterReports, counts
<1>6. ASSUME NEW c \in calls, AckArrives(c) \/ ResizePty(c) \/ ResizeVt(c)
      PROVE  UNCHANGED <<child, listed, teardown, keys>> /\ ptySize' \in Sizes
  <2>1. c.op = "resize" => c.size \in Sizes
    BY DEF TypeOK, Called, KillCall
  <2>2. UNCHANGED <<child, listed, teardown, keys>>
    BY <1>6 DEF AckArrives, ResizePty, ResizeVt, counts
  <2>3. ptySize' = ptySize \/ (c.op = "resize" /\ ptySize' = c.size)
    BY <1>6 DEF AckArrives, ResizePty, ResizeVt
  <2> QED BY <1>1, <2>1, <2>2, <2>3
<1>7. ASSUME KillArrives \/ WindowDestroyed
      PROVE  /\ UNCHANGED <<child, ptySize, keys>> /\ listed' = FALSE
             /\ teardown' \in [pc : {"none", "removed", "killed", "cancelled", "joining", "over"},
                               join : BOOLEAN]
  <2>1. UNCHANGED <<child, ptySize, keys>> /\ listed' = FALSE
    BY <1>7 DEF KillArrives, WindowDestroyed, counts
  <2>2. \/ teardown' = teardown \/ teardown' = [pc |-> "removed", join |-> FALSE]
        \/ teardown' = [pc |-> "removed", join |-> TRUE]
    BY <1>7 DEF KillArrives, WindowDestroyed
  <2>3. ASSUME NEW join \in BOOLEAN
        PROVE  [pc |-> "removed", join |-> join]
                 \in [pc : {"none", "removed", "killed", "cancelled", "joining", "over"},
                      join : BOOLEAN]
    BY <2>3
  <2> QED BY <1>1, <2>1, <2>2, <2>3
<1>8. ASSUME Teardown
      PROVE  /\ UNCHANGED <<child, ptySize, listed, keys>>
             /\ teardown' \in [pc : {"none", "removed", "killed", "cancelled", "joining", "over"},
                               join : BOOLEAN]
  <2>1. UNCHANGED <<child, ptySize, listed, keys>>
    BY <1>8 DEF Teardown, Kills, Cancels, SendsShutdown, Joins, counts
  <2>2. \E pc \in {"killed", "cancelled", "joining", "over"} : teardown' = [teardown EXCEPT !.pc = pc]
    BY <1>8 DEF Teardown, Kills, Cancels, SendsShutdown, Joins
  <2> QED BY <1>1, <2>1, <2>2
<1>9. Layouts \/ Disposes => UNCHANGED <<child, ptySize, listed, teardown, keys>>
  BY DEF Layouts, Disposes, counts
<1>10. KeyPressed => UNCHANGED <<child, ptySize, listed, teardown>> /\ keys' \in 0..MaxKeys
  BY <1>1, BoundsAreNat DEF KeyPressed
<1>11. CASE UNCHANGED <<child, ptySize, listed, teardown, keys>>
  BY <1>1, <1>11
<1> QED
  BY <1>1, <1>2, <1>3, <1>4, <1>5, <1>6, <1>7, <1>8, <1>9, <1>10, <1>11 DEF Next, Commands, User

(* The reader, the byte gate, the channel and the vt thread.                *)
NativeTyped ==
    /\ pty \in Seq(ChunkSizes)
    /\ reader \in [pc : {"waiting", "reading", "sending", "done"}, bytes : ChunkSizes \cup {0}]
    /\ flow \in [unacked : Nat, paused : BOOLEAN, cancelled : BOOLEAN]
    /\ chan \in Seq(Commanded) /\ vt \in {"starting", "running", "gone"}
    /\ key \in {"idle", "waiting"} /\ written \in 0..MaxChunks

(* Every step keeps their types.                                            *)
LEMMA NativeTypes ==
    ASSUME TypeOK, SendsWhatWasRead, [Next]_vars
    PROVE  NativeTyped'
<1>1. NativeTyped
  BY DEF TypeOK, NativeTyped
<1> USE DEF NativeTyped
<1>2. CASE UNCHANGED <<pty, native, chan, key, written>>
  BY <1>1, <1>2 DEF native
<1>3. ASSUME NEW n \in ChunkSizes, ChildWrites(n) PROVE NativeTyped'
  <2>1. /\ pty' = Append(pty, n) /\ written' = written + 1 /\ written < MaxChunks
        /\ UNCHANGED <<reader, flow, chan, vt, key>>
    BY <1>3 DEF ChildWrites, native
  <2>2. pty' \in Seq(ChunkSizes)
    BY <1>1, <2>1, AppendProperties
  <2>3. written' \in 0..MaxChunks
    BY <1>1, <2>1, BoundsAreNat
  <2> QED BY <1>1, <2>1, <2>2, <2>3
<1>4. CASE ReaderClears \/ ReaderSeesEof
  <2>1. UNCHANGED <<pty, flow, chan, vt, key, written>>
    BY <1>4 DEF ReaderClears, ReaderSeesEof, counts
  <2>2. \E pc \in {"done", "reading"} : reader' = [reader EXCEPT !.pc = pc]
    BY <1>4 DEF ReaderClears, ReaderSeesEof
  <2> QED BY <1>1, <2>1, <2>2
<1>5. CASE ReaderReads
  <2>1. /\ pty # <<>> /\ pty' = Tail(pty) /\ flow' = Recorded(Head(pty))
        /\ reader' = [pc |-> "sending", bytes |-> Head(pty)]
        /\ UNCHANGED <<chan, vt, key, written>>
    BY <1>5 DEF ReaderReads, counts
  <2>2. pty' \in Seq(ChunkSizes) /\ Head(pty) \in ChunkSizes
    BY <1>1, <2>1, HeadTailProperties
  <2>3. Head(pty) \in Nat /\ High \in Nat
    BY <2>2, ChunksArePositive, MarksAreOrdered
  <2>4. PICK total \in Nat : total = flow.unacked + Head(pty)
    BY <1>1, <2>3
  <2>5. flow' = [flow EXCEPT !.unacked = total, !.paused = @ \/ total >= High]
    BY <2>1, <2>4 DEF Recorded
  <2>6. flow' \in [unacked : Nat, paused : BOOLEAN, cancelled : BOOLEAN]
    BY <1>1, <2>5
  <2> QED BY <1>1, <2>1, <2>2, <2>6
<1>6. CASE ReaderSends
  <2>1. chan' \in Seq(Commanded)
    BY <1>1, <1>6, ReaderSent, Sent
  <2>2. reader' \in [pc : {"done", "waiting"}, bytes : {0}]
    BY <1>6, ReaderSent
  <2>3. UNCHANGED <<pty, flow, vt, key, written>>
    BY <1>6, ReaderSent
  <2> QED BY <1>1, <2>1, <2>2, <2>3
<1>7. CASE VtStarts
  BY <1>1, <1>7 DEF VtStarts, counts
<1>8. CASE VtFails \/ VtShutsDown
  <2>1. chan' \in Seq(Commanded)
    BY <1>8, VtEnded, EmptySeq
  <2> QED BY <1>1, <1>8, <2>1, VtEnded
<1>9. CASE VtFeeds \/ VtResizes \/ VtAcks \/ VtAnswers
  <2>1. chan' \in Seq(Commanded) /\ Head(chan) \in Commanded
    BY <1>1, <1>9, VtReceived, Received
  <2>2. UNCHANGED <<pty, reader, vt, written>> /\ key' \in {"idle", key}
    BY <1>9, VtReceived DEF VtFeeds, VtResizes, VtAcks, VtAnswers, counts
  <2>3. CASE VtFeeds
    <3>1. flow' = Acknowledged(Head(chan).bytes) /\ Head(chan).bytes \in Nat
      BY <2>1, <2>3, VtReceived, FedHasSize DEF VtFeeds
    <3>2. PICK total \in Nat : flow' = [flow EXCEPT !.unacked = total, !.paused = @ /\ total > Low]
      BY <1>1, <3>1, AcknowledgedCount
    <3>3. flow' \in [unacked : Nat, paused : BOOLEAN, cancelled : BOOLEAN]
      BY <1>1, <3>2
    <3> QED BY <1>1, <2>1, <2>2, <3>3
  <2>4. CASE VtResizes \/ VtAcks \/ VtAnswers
    BY <1>1, <2>1, <2>2, <2>4 DEF VtResizes, VtAcks, VtAnswers
  <2> QED BY <1>9, <2>3, <2>4
<1>10. CASE (\E c \in calls : AckArrives(c) \/ ResizeVt(c)) \/ KeyPressed \/ SendsShutdown
  <2>1. UNCHANGED <<pty, reader, flow, vt, written>>
    BY <1>10, OthersSend
  <2>2. chan' \in Seq(Commanded)
    BY <1>1, <1>10, OthersSend, Sent DEF OtherCommands
  <2>3. key' \in {"idle", "waiting"}
    BY <1>1, <1>10 DEF AckArrives, ResizeVt, KeyPressed, SendsShutdown
  <2> QED BY <1>1, <2>1, <2>2, <2>3
<1>11. CASE Cancels
  <2>1. flow' = [flow EXCEPT !.cancelled = TRUE]
    BY <1>11 DEF Cancels
  <2>2. flow' \in [unacked : Nat, paused : BOOLEAN, cancelled : BOOLEAN]
    BY <1>1, <2>1
  <2> QED BY <1>1, <1>11, <2>2 DEF Cancels, counts
<1> QED
  BY <1>2, <1>3, <1>4, <1>5, <1>6, <1>7, <1>8, <1>9, <1>10, <1>11, NativeSteps DEF Reader, Vt

(* The page, but for the bound of the number it expects.                    *)
FreePages == [attach : BOOLEAN, phase : Phases, listening : BOOLEAN, held : Seq(Frames),
              expected : Nat, wanted : Sizes]

FrontTyped ==
    /\ wire \in Seq(Frames) /\ page \in FreePages
    /\ grid \in [version : 0..MaxChunks, size : Sizes \cup {None}, whole : BOOLEAN]
    /\ unpainted \in Seqs \cup {None}

(* A page put together of such fields is such a page.                       *)
LEMMA PagesOf ==
    ASSUME page \in FreePages, NEW ph \in Phases, NEW li \in BOOLEAN, NEW he \in Seq(Frames),
           NEW ex \in Nat, NEW wa \in Sizes
    PROVE  Paged(ph, li, he, ex, wa) \in FreePages
<1>1. page.attach \in BOOLEAN
  BY DEF FreePages
<1> QED BY <1>1 DEF FreePages, Paged

(* What is shown is a frame's, or the blank grid's.                         *)
LEMMA ShownTyped ==
    ASSUME grid \in [version : 0..MaxChunks, size : Sizes \cup {None}, whole : BOOLEAN],
           NEW f \in Frames
    PROVE  Shown(grid, f) \in [version : 0..MaxChunks, size : Sizes \cup {None}, whole : BOOLEAN]
<1>1. f.upto \in 0..MaxChunks /\ f.size \in Sizes \cup {None} /\ f.full \in BOOLEAN
  BY DEF Frames
<1>2. (f.full \/ (grid.whole /\ f.size = grid.size /\ f.base = grid.version)) \in BOOLEAN
  OBVIOUS
<1> DEFINE w == f.full \/ (grid.whole /\ f.size = grid.size /\ f.base = grid.version)
<1>3. w \in BOOLEAN
  BY <1>2
<1>4. Shown(grid, f) = [version |-> f.upto, size |-> f.size, whole |-> w]
  BY DEF Shown
<1> HIDE DEF w
<1> QED BY <1>1, <1>3, <1>4

(* Every step keeps the types of the page's variables.                      *)
LEMMA FrontTypes ==
    ASSUME TypeOK, SendsWhatWasRead, PhasesApart, CreditIsOne, FramesCounted, ChunksCounted,
           [Next]_vars
    PROVE  FrontTyped'
<1>1. /\ wire \in Seq(Frames) /\ page \in FreePages
      /\ grid \in [version : 0..MaxChunks, size : Sizes \cup {None}, whole : BOOLEAN]
      /\ unpainted \in Seqs \cup {None}
  <2>1. page \in FreePages
    <3>1. \A q \in Seqs : q \in Nat
      BY DEF Seqs
    <3> QED BY <3>1 DEF TypeOK, FreePages
  <2> QED BY <2>1 DEF TypeOK
<1>2. /\ page.phase \in Phases /\ page.listening \in BOOLEAN /\ page.held \in Seq(Frames)
      /\ page.expected \in Nat /\ page.wanted \in Sizes
  BY <1>1 DEF FreePages
<1> USE DEF FrontTyped
<1>3. Started \in FreePages
  <2>1. Started = Paged("live", page.listening, <<>>, page.expected, page.wanted)
    BY PageMoves
  <2>2. <<>> \in Seq(Frames) /\ "live" \in Phases
    BY EmptySeq DEF Phases
  <2> QED BY <1>1, <1>2, <2>1, <2>2, PagesOf
<1>4. CASE UNCHANGED <<wire, front>>
  BY <1>1, <1>4 DEF front
<1>5. CASE VtFeeds \/ VtResizes \/ VtAcks
  <2>1. PICK d \in 0..MaxChunks, z \in Sizes, f \in BOOLEAN, w \in BOOLEAN :
              Draws(d, z, f, w) /\ NewFrame(d, z, f) \in Frames
    BY <1>5, VtFrames
  <2>2. wire' = wire \/ wire' = Append(wire, NewFrame(d, z, f))
    BY <2>1 DEF Draws, Quiet, Emits
  <2>3. wire' \in Seq(Frames)
    BY <1>1, <2>1, <2>2, AppendProperties
  <2>4. UNCHANGED front
    BY <1>5, VtReceived
  <2> QED BY <1>1, <2>3, <2>4 DEF front
<1>6. ASSUME NEW c \in calls, AckArrives(c) PROVE FrontTyped'
  <2>1. page' \in [attach : {page.attach}, phase : Phases, listening : BOOLEAN,
                   held : {page.held}, expected : {page.expected}, wanted : {page.wanted}]
    BY <1>6, AckedPage
  <2>2. page' \in FreePages
    BY <1>1, <2>1 DEF FreePages
  <2> QED BY <1>1, <1>6, <2>2 DEF AckArrives
<1>7. CASE (\E c \in calls : ResizePty(c) \/ ResizeVt(c)) \/ KillArrives
  BY <1>4, <1>7 DEF ResizePty, ResizeVt, KillArrives
<1>8. CASE WindowDestroyed \/ Leaves
  <2>1. /\ <<>> \in Seq(Frames) /\ wire' \in {wire, <<>>}
        /\ unpainted' \in {unpainted, None} /\ grid' = grid
    BY <1>8, EmptySeq DEF WindowDestroyed, Leaves
  <2>2. page' \in {Paged("gone", FALSE, <<>>, page.expected, page.wanted),
                   Paged("closed", FALSE, <<>>, page.expected, page.wanted)}
    BY <1>8, PageMoves
  <2>3. PICK ph \in {"gone", "closed"} : page' = Paged(ph, FALSE, <<>>, page.expected, page.wanted)
    BY <2>2
  <2>4. ph \in Phases
    BY DEF Phases
  <2>5. page' \in FreePages
    BY <1>1, <1>2, <2>1, <2>3, <2>4, PagesOf
  <2> QED BY <1>1, <2>1, <2>5
<1>9. CASE Registers \/ Attaches \/ Attached \/ Layouts
  <2>1. UNCHANGED <<wire, grid, unpainted>>
    BY <1>9 DEF Registers, Attaches, Attached, Layouts
  <2>2. Layouts => page.wanted + 1 \in Sizes
    BY <1>2, BoundsAreNat DEF Layouts, Sizes
  <2>3. \E ph \in Phases, li \in BOOLEAN, wa \in Sizes :
           page' = Paged(ph, li, page.held, page.expected, wa)
    BY <1>2, <1>9, <2>2, PageMoves, ModesAreBoolean DEF Phases
  <2>4. page' \in FreePages
    BY <1>1, <1>2, <2>3, PagesOf
  <2> QED BY <1>1, <2>1, <2>4
<1>10. CASE Paints
  BY <1>1, <1>10 DEF Paints
<1>11. CASE Disposes
  <2>1. UNCHANGED <<wire, grid>> /\ unpainted' = None
    BY <1>11 DEF Disposes
  <2>2. \E ph \in Phases, li \in BOOLEAN :
           page' = Paged(ph, li, page.held, page.expected, page.wanted)
    <3>1. "leaving" \in Phases /\ "abandoned" \in Phases /\ "closed" \in Phases
      BY DEF Phases
    <3> QED BY <1>2, <1>11, <3>1, PageMoves
  <2>3. PICK ph \in Phases, li \in BOOLEAN :
           page' = Paged(ph, li, page.held, page.expected, page.wanted)
    BY <2>2
  <2>4. page' \in FreePages
    BY <1>1, <1>2, <2>3, PagesOf
  <2> QED BY <1>1, <2>1, <2>4
<1>12. ASSUME NEW f \in Frames, NEW p, p \in {page, Started}, ShowsOn(f, p)
       PROVE  /\ page' \in FreePages
              /\ grid' \in [version : 0..MaxChunks, size : Sizes \cup {None}, whole : BOOLEAN]
              /\ unpainted' \in Seqs \cup {None}
  <2>1. f.seq \in Seqs /\ f.seq \in Nat /\ f.seq + 1 \in Nat
    BY DEF Frames, Seqs
  <2>2. <<>> \in Seq(Frames) /\ "live" \in Phases
    BY EmptySeq DEF Phases
  <2>3. Started \in FreePages
    BY <1>3
  <2>4. CASE Applied(f, p)
    <3>1. grid' = Shown(grid, f) /\ unpainted' = f.seq
      BY <2>4 DEF Applied
    <3>2. \E ph \in Phases, he \in Seq(Frames) :
             page' = Paged(ph, page.listening, he, f.seq + 1, page.wanted)
      BY <1>2, <1>12, <2>2, <2>4, PageMoves
    <3>3. page' \in FreePages
      BY <1>1, <1>2, <2>1, <3>2, PagesOf
    <3> QED BY <1>1, <2>1, <3>1, <3>3, ShownTyped
  <2>5. CASE Stands(p)
    BY <1>1, <1>12, <2>3, <2>5 DEF Stands
  <2> QED BY <1>12, <2>4, <2>5 DEF ShowsOn
<1>13. CASE Dispatches
  <2>1. wire' \in Seq(Frames)
    BY <1>1, <1>13, DispatchCases, Popped
  <2>2. CASE Loses
    BY <1>1, <2>1, <2>2 DEF Loses, front
  <2>3. CASE Holds
    <3>1. Append(page.held, Head(wire)) \in Seq(Frames)
      BY <1>2, <1>13, DispatchCases, AppendProperties
    <3>2. page' = Paged(page.phase, page.listening, Append(page.held, Head(wire)),
                         page.expected, page.wanted)
      BY <2>3, PageMoves
    <3>3. page' \in FreePages
      BY <1>1, <1>2, <3>1, <3>2, PagesOf
    <3> QED BY <1>1, <2>1, <2>3, <3>3 DEF Holds
  <2>4. CASE ShowsNow
    <3>1. Head(wire) \in Frames /\ ShowsOn(Head(wire), page)
      BY <1>13, <2>4, DispatchCases DEF ShowsNow
    <3> QED BY <1>12, <2>1, <3>1
  <2> QED BY <1>13, <2>2, <2>3, <2>4, DispatchCases
<1>14. CASE StartReturns
  <2>1. wire' = wire
    BY <1>14, StartCases
  <2>2. CASE Stands(Started)
    BY <1>1, <1>3, <2>1, <2>2 DEF Stands
  <2>3. CASE page.held[1] \in Frames /\ ShowsOn(page.held[1], Started)
    BY <1>1, <1>12, <2>1, <2>3
  <2> QED BY <1>14, <2>2, <2>3, StartCases
<1>15. CASE Indoors
  BY <1>4, <1>15 DEF Indoors
<1> QED
  BY <1>5, <1>6, <1>7, <1>8, <1>9, <1>10, <1>11, <1>13, <1>14, <1>15, OutdoorSteps

(* What a page sends is a command that exists.                              *)
LEMMA CallTypes ==
    ASSUME TypeOK, SendsWhatWasRead, [Next]_vars
    PROVE  calls' \subseteq Called
<1>1. calls \subseteq Called /\ unpainted \in Seqs \cup {None} /\ page.wanted \in Nat
  BY BoundsAreNat DEF TypeOK, Sizes
<1>2. /\ \A q \in Seqs \cup {HighWater} : AckCall(q) \in Called
      /\ \A s \in Sizes : ResizeCall(s) \in Called
      /\ KillCall \in Called
  <2>1. \A q \in Seqs \cup {HighWater} : AckCall(q) \in Called
    BY DEF AckCall, Called
  <2>2. \A s \in Sizes : ResizeCall(s) \in Called
    BY DEF ResizeCall, Called
  <2>3. KillCall \in Called
    BY DEF Called
  <2> QED BY <2>1, <2>2, <2>3
<1>3. ASSUME calls' \subseteq calls PROVE calls' \subseteq Called
  BY <1>1, <1>3
<1>4. ASSUME NEW c \in Called, calls' \in {calls, calls \cup {c}} PROVE calls' \subseteq Called
  BY <1>1, <1>4
<1>5. CASE Indoors \/ VtFeeds \/ VtResizes \/ VtAcks
  BY <1>3, <1>5, VtReceived DEF Indoors
<1>6. ASSUME NEW c \in calls, AckArrives(c) \/ ResizeVt(c) PROVE calls' \subseteq Called
  BY <1>3, <1>6 DEF AckArrives, ResizeVt
<1>7. ASSUME NEW c \in calls, ResizePty(c) PROVE calls' \subseteq Called
  <2>1. c \in [op : {"resize"}, size : Sizes, done : BOOLEAN]
    BY <1>1, <1>7 DEF ResizePty, Called, KillCall
  <2>2. [c EXCEPT !.done = TRUE] \in [op : {"resize"}, size : Sizes, done : BOOLEAN]
    BY <2>1
  <2>3. [c EXCEPT !.done = TRUE] \in Called
    BY <2>2 DEF Called
  <2> QED BY <1>1, <1>7, <2>3 DEF ResizePty
<1>8. CASE KillArrives \/ WindowDestroyed \/ Registers \/ Dispatches \/ StartReturns
  BY <1>3, <1>8 DEF KillArrives, WindowDestroyed, Registers, Dispatches, StartReturns
<1>9. CASE Attaches
  BY <1>2, <1>4, <1>9 DEF Attaches
<1>10. CASE Attached
  <2>1. 0 \in Sizes
    BY BoundsAreNat DEF Sizes
  <2> QED BY <1>2, <1>4, <1>10, <2>1 DEF Attached
<1>11. CASE Layouts
  <2>1. page.wanted + 1 \in Sizes
    BY <1>1, <1>11, BoundsAreNat DEF Layouts, Sizes
  <2>2. calls' \in {calls, calls \cup {ResizeCall(page.wanted + 1)}}
    BY <1>11 DEF Layouts
  <2> QED BY <1>2, <1>4, <2>1, <2>2
<1>12. CASE Paints
  <2>1. unpainted \in Seqs
    BY <1>1, <1>12 DEF Paints
  <2>2. calls' \in {calls, calls \cup {AckCall(unpainted)}}
    BY <1>12 DEF Paints
  <2> QED BY <1>2, <1>4, <2>1, <2>2
<1>13. CASE Disposes \/ Leaves
  <2>1. calls' \in {calls, calls \cup {KillCall}}
    BY <1>13 DEF Disposes, Leaves
  <2> QED BY <1>2, <1>4, <2>1
<1> QED
  BY <1>5, <1>6, <1>7, <1>8, <1>9, <1>10, <1>11, <1>12, <1>13, OutdoorSteps

(* The mirror, and the gate but for the bound of its number.                *)
LEMMA ScreenTypes ==
    ASSUME TypeOK, SendsWhatWasRead, ChunksCounted, [Next]_vars
    PROVE  /\ screen' \in [drawn : 0..MaxChunks, base : 0..MaxChunks, full : BOOLEAN, size : Sizes]
           /\ gate' \in [next : {gate.next, gate.next + 1}, awaiting : BOOLEAN]
<1>1. /\ screen \in [drawn : 0..MaxChunks, base : 0..MaxChunks, full : BOOLEAN, size : Sizes]
      /\ gate \in [next : Seqs, awaiting : BOOLEAN]
      /\ screen.base \in 0..MaxChunks
  BY DEF TypeOK
<1>2. CASE UNCHANGED <<screen, gate>>
  BY <1>1, <1>2
<1>3. CASE VtFeeds \/ VtResizes \/ VtAcks
  <2>1. PICK d \in 0..MaxChunks, z \in Sizes, f \in BOOLEAN, w \in BOOLEAN : Draws(d, z, f, w)
    BY <1>3, VtFrames
  <2>2. screen' \in [drawn : {d}, base : {d, screen.base}, full : BOOLEAN, size : {z}]
    BY <2>1 DEF Draws
  <2>3. gate' \in [next : {gate.next, gate.next + 1}, awaiting : BOOLEAN]
    BY <2>1 DEF Draws
  <2> QED BY <1>1, <2>2, <2>3
<1>4. Indoors => UNCHANGED <<screen, gate>>
  BY DEF Indoors
<1>5. ASSUME NEW c \in calls, AckArrives(c) \/ ResizePty(c) \/ ResizeVt(c)
      PROVE  UNCHANGED <<screen, gate>>
  BY <1>5 DEF AckArrives, ResizePty, ResizeVt, native
<1>6. KillArrives \/ WindowDestroyed => UNCHANGED <<screen, gate>>
  BY DEF KillArrives, WindowDestroyed, native
<1>7. Registers \/ Dispatches \/ StartReturns \/ Attaches \/ Attached => UNCHANGED <<screen, gate>>
  BY DEF Registers, Dispatches, StartReturns, Attaches, Attached, native
<1>8. Layouts \/ Paints \/ Disposes \/ Leaves => UNCHANGED <<screen, gate>>
  BY DEF Layouts, Paints, Disposes, Leaves, native
<1> QED
  BY <1>2, <1>3, <1>4, <1>5, <1>6, <1>7, <1>8, OutdoorSteps

(* No more frames are numbered than there are reasons for one.              *)
LEMMA NumbersFit ==
    ASSUME FramesCounted', chan' \in Seq(Commanded), gate'.next \in Nat,
           screen'.drawn \in 0..MaxChunks, page'.wanted \in Sizes
    PROVE  gate'.next \in Seqs
<1> DEFINE next == gate'.next
           dirty == IF screen'.full \/ screen'.drawn # screen'.base THEN 1 ELSE 0
           coming == Count(chan', "resize")
           asked == Cardinality(CallsOf(calls', "resize"))
           extra == IF page'.attach /\ page'.phase \in {"live", "closed", "gone"} THEN 1 ELSE 0
           drawn == screen'.drawn
           wanted == page'.wanted
<1>1. next + dirty + coming + asked <= 1 + drawn + wanted + extra
  BY DEF FramesCounted
<1>2. next \in Nat /\ dirty \in Nat /\ coming \in Nat /\ asked \in Nat /\ extra \in {0, 1}
  <2>1. next \in Nat /\ dirty \in Nat /\ extra \in {0, 1}
    OBVIOUS
  <2> QED BY <2>1, CountIsNat, FewCalls DEF FramesCounted
<1>3. drawn \in 0..MaxChunks /\ wanted \in 0..MaxLayouts
  BY DEF Sizes
<1> HIDE DEF next, dirty, coming, asked, extra, drawn, wanted
<1>4. next <= MaxChunks + MaxLayouts + 2
  BY <1>1, <1>2, <1>3, BoundsAreNat
<1>5. next \in 0..(MaxChunks + MaxLayouts + 2)
  BY <1>2, <1>4, BoundsAreNat
<1> QED BY <1>5 DEF next, Seqs

(* Every step keeps the types.                                              *)
LEMMA TypeStep ==
    ASSUME TypeOK, SendsWhatWasRead, PhasesApart, SeqsArePast, CreditIsOne, FramesCounted,
           ChunksCounted, [Next]_vars
    PROVE  TypeOK'
<1>1. gate'.next \in Seqs
  <2>1. gate.next \in Nat
    BY DEF TypeOK, Seqs
  <2>2. gate'.next \in Nat
    BY <2>1, ScreenTypes
  <2>3. page'.wanted \in Sizes
    BY FrontTypes DEF FrontTyped, FreePages
  <2>4. screen'.drawn \in 0..MaxChunks
    BY ScreenTypes
  <2>5. chan' \in Seq(Commanded) /\ FramesCounted'
    BY NativeTypes, FramesStep DEF NativeTyped
  <2> QED BY <2>2, <2>3, <2>4, <2>5, NumbersFit
<1>2. gate' \in [next : Seqs, awaiting : BOOLEAN]
  BY <1>1, ScreenTypes
<1>3. page' \in [attach : BOOLEAN, phase : Phases, listening : BOOLEAN, held : Seq(Frames),
                 expected : Seqs, wanted : Sizes]
  <2>1. page' \in FreePages
    BY FrontTypes DEF FrontTyped
  <2>2. page'.expected \in Nat /\ page'.expected <= gate'.next
    BY <2>1, SeqsStep DEF FreePages, SeqsArePast
  <2>3. page'.expected \in Seqs
    BY <1>1, <2>2, BoundsAreNat DEF Seqs
  <2> QED BY <2>1, <2>3 DEF FreePages
<1>4. /\ child' \in {"running", "exited", "reaped"} /\ ptySize' \in Sizes /\ listed' \in BOOLEAN
      /\ teardown' \in [pc : {"none", "removed", "killed", "cancelled", "joining", "over"},
                        join : BOOLEAN]
      /\ keys' \in 0..MaxKeys
  BY OutsideTypes
<1>5. NativeTyped' /\ FrontTyped' /\ calls' \subseteq Called
  BY NativeTypes, FrontTypes, CallTypes
<1>6. screen' \in [drawn : 0..MaxChunks, base : 0..MaxChunks, full : BOOLEAN, size : Sizes]
  BY ScreenTypes
<1> QED BY <1>2, <1>3, <1>4, <1>5, <1>6 DEF TypeOK, NativeTyped, FrontTyped

-----------------------------------------------------------------------------
(* Where the credit is *)

(* The count is the sum of five numbers.                                    *)
LEMMA TotalIs ==
    ASSUME NEW wi \in Seq(Frames), NEW he \in Seq(Frames), NEW un, NEW ca, IsFiniteSet(ca),
           NEW ch \in Seq(Commanded)
    PROVE  /\ Len(wi) \in Nat /\ Len(he) \in Nat /\ Due(un) \in Nat /\ AckCalls(ca) \in Nat
           /\ Count(ch, "ack") \in Nat
           /\ Len(wi) = 0 <=> wi = <<>>
           /\ Len(he) = 0 <=> he = <<>>
           /\ Due(un) \in {0, 1} /\ (Due(un) = 0 <=> un = None)
           /\ AckCalls(ca) = 0 <=> CallsOf(ca, "ack") = {}
           /\ Count(ch, "ack") = 0 => AckSeqs(ch) = {}
<1>1. Len(wi) \in Nat /\ Len(he) \in Nat /\ (Len(wi) = 0 <=> wi = <<>>) /\ (Len(he) = 0 <=> he = <<>>)
  BY LenProperties, EmptySeq
<1>2. IsFiniteSet(CallsOf(ca, "ack")) /\ AckCalls(ca) \in Nat
  BY FewCalls DEF AckCalls
<1>3. AckCalls(ca) = 0 <=> CallsOf(ca, "ack") = {}
  BY <1>2, FS_EmptySet DEF AckCalls
<1>4. IsFiniteSet(Indexes(ch, "ack")) /\ Count(ch, "ack") \in Nat
  BY CountIsNat
<1>5. Count(ch, "ack") = 0 => Indexes(ch, "ack") = {}
  BY <1>4, FS_EmptySet DEF Count
<1>6. Count(ch, "ack") = 0 => AckSeqs(ch) = {}
  BY <1>5 DEF AckSeqs
<1>7. Due(un) \in {0, 1} /\ (Due(un) = 0 <=> un = None)
  BY DEF Due
<1> QED BY <1>1, <1>2, <1>3, <1>4, <1>6, <1>7

(* With none there is nothing to see.                                       *)
LEMMA NoneSeen ==
    ASSUME NEW wi \in Seq(Frames), NEW he \in Seq(Frames), NEW un, NEW ca, IsFiniteSet(ca),
           NEW ch \in Seq(Commanded),
           Total(wi, he, un, ca, ch) = 0
    PROVE  /\ wi = <<>> /\ he = <<>> /\ un = None
           /\ CallsOf(ca, "ack") = {} /\ AckSeqs(ch) = {}
           /\ Seen(wi, he, un, ca, ch) = {}
<1> DEFINE w == Len(wi)  h == Len(he)  u == Due(un)  a == AckCalls(ca)  c == Count(ch, "ack")
<1>1. w \in Nat /\ h \in Nat /\ u \in Nat /\ a \in Nat /\ c \in Nat
  BY TotalIs
<1>2. w + h + u + a + c = 0
  BY DEF Total
<1>3. w = 0 /\ h = 0 /\ u = 0 /\ a = 0 /\ c = 0
  <2> HIDE DEF w, h, u, a, c
  <2> QED BY <1>1, <1>2
<1>4. wi = <<>> /\ he = <<>> /\ un = None /\ CallsOf(ca, "ack") = {} /\ AckSeqs(ch) = {}
  <2>1. /\ w = 0 <=> wi = <<>>
        /\ h = 0 <=> he = <<>>
        /\ u = 0 <=> un = None
    BY TotalIs
  <2>2. a = 0 <=> CallsOf(ca, "ack") = {}
    BY TotalIs
  <2>3. c = 0 => AckSeqs(ch) = {}
    BY TotalIs
  <2> HIDE DEF w, h, u, a, c
  <2> QED BY <1>3, <2>1, <2>2, <2>3
<1> QED BY <1>4 DEF Seen, SeqsOf

(* The frames of a sequence, as it grows and shrinks.                       *)
LEMMA SeqsMove ==
    ASSUME NEW s \in Seq(Frames)
    PROVE  /\ \A f \in Frames : SeqsOf(Append(s, f)) = SeqsOf(s) \cup {f.seq}
           /\ s # <<>> => SeqsOf(Tail(s)) \subseteq SeqsOf(s) /\ Head(s).seq \in SeqsOf(s)
           /\ SeqsOf(<<>>) = {}
<1>1. ASSUME NEW f \in Frames PROVE SeqsOf(Append(s, f)) = SeqsOf(s) \cup {f.seq}
  <2>1. /\ DOMAIN Append(s, f) = DOMAIN s \cup {Len(s) + 1}
        /\ \A i \in DOMAIN s : Append(s, f)[i] = s[i]
        /\ Append(s, f)[Len(s) + 1] = f
        /\ Len(s) + 1 \notin DOMAIN s
    BY Pushed
  <2> QED BY <2>1 DEF SeqsOf
<1>2. ASSUME s # <<>> PROVE SeqsOf(Tail(s)) \subseteq SeqsOf(s) /\ Head(s).seq \in SeqsOf(s)
  BY <1>2, Popped DEF SeqsOf
<1>3. SeqsOf(<<>>) = {}
  BY DEF SeqsOf
<1> QED BY <1>1, <1>2, <1>3

(* One step, seen from the credit: it stays, it is lost with the pane or    *)
(* the vt thread, it is spent on a frame, or it is given back.              *)
SameGate == gate'.next = gate.next /\ gate'.awaiting = gate.awaiting

Kept == /\ Tokens' = Tokens /\ Credits' \subseteq Credits /\ SameGate
        /\ vt' = vt \/ (vt = "starting" /\ vt' = "running")
        /\ Showing' => Showing

Dropped == /\ Tokens' <= Tokens /\ Credits' \subseteq Credits /\ SameGate
           /\ ~Showing' \/ vt' = "gone"
           /\ vt' = "starting" => vt = "starting"

Spent == /\ vt = "running" /\ vt' = "running" /\ Tokens' = 1
         /\ Credits' \subseteq {gate.next} /\ gate'.next = gate.next + 1 /\ gate'.awaiting = TRUE

GivenBack == /\ vt = "running" /\ vt' = "running" /\ Tokens' = 0 /\ Credits' = {}
             /\ gate'.next = gate.next /\ gate'.awaiting = FALSE

(* A frame is only emitted when none is in flight, nor the ack of one.      *)
LEMMA VtCredit ==
    ASSUME IInv, ~page.attach, VtFeeds \/ VtResizes \/ VtAcks, TypeOK', FramesCounted'
    PROVE  \/ ~VtAcks /\ Kept /\ wire' = wire
           \/ GivenBack /\ wire' = wire
           \/ Spent /\ wire = <<>> /\ page.held = <<>> /\ unpainted = None
<1>1. /\ wire \in Seq(Frames) /\ page.held \in Seq(Frames) /\ chan \in Seq(Commanded)
      /\ IsFiniteSet(calls) /\ gate.next \in Nat /\ gate.awaiting \in BOOLEAN
  BY DEF IInv, TypeOK, FramesCounted, Seqs
<1>2. /\ vt = "running" /\ vt' = "running" /\ chan # <<>> /\ chan' = Tail(chan)
      /\ UNCHANGED <<page, unpainted, calls>>
  BY VtReceived DEF front, IInv
<1>3. chan' \in Seq(Commanded)
  BY <1>1, <1>2, Popped
<1>4. AckSeqs(chan') \subseteq AckSeqs(chan)
  BY <1>1, <1>2, AcksMove
<1>5. /\ Len(wire) \in Nat /\ Len(page.held) \in Nat /\ Due(unpainted) \in Nat
      /\ AckCalls(calls) \in Nat /\ Count(chan, "ack") \in Nat
  BY <1>1, TotalIs
<1> DEFINE w == Len(wire)  h == Len(page.held)  u == Due(unpainted)  a == AckCalls(calls)
           c == Count(chan, "ack")  k == Count(chan', "ack")
<1>6. w \in Nat /\ h \in Nat /\ u \in Nat /\ a \in Nat /\ c \in Nat /\ k \in Nat
  BY <1>3, <1>5, CountIsNat
<1>7. Tokens = w + h + u + a + c /\ Tokens \in Nat /\ Tokens <= 1
  <2>1. Tokens = w + h + u + a + c
    BY DEF Tokens, Total
  <2>2. Tokens <= 1
    BY DEF IInv, CreditIsOne
  <2> HIDE DEF w, h, u, a, c
  <2> QED BY <1>6, <2>1, <2>2
<1>8. c = k + (IF VtAcks THEN 1 ELSE 0)
  <2>1. Count(chan, "ack") = Count(chan', "ack") + (IF Head(chan).op = "ack" THEN 1 ELSE 0)
    BY <1>1, <1>2, Received
  <2>2. VtAcks <=> Head(chan).op = "ack"
    BY VtReceived DEF IInv
  <2> QED BY <1>6, <2>1, <2>2
<1>9. ASSUME NEW t \in Seq(Frames), wire' = t
      PROVE  /\ Tokens' = Total(t, page.held, unpainted, calls, chan')
             /\ Credits' = Seen(t, page.held, unpainted, calls, chan')
  BY <1>2, <1>9 DEF Tokens, Credits
<1>10. PICK d \in 0..MaxChunks, z \in Sizes, f \in BOOLEAN, g \in BOOLEAN :
              /\ Draws(d, z, f, g) /\ NewFrame(d, z, f) \in Frames
              /\ VtFeeds => /\ d = screen.drawn + 1 /\ z = screen.size /\ f = screen.full
                            /\ g = gate.awaiting
              /\ VtResizes => d = screen.drawn /\ f = TRUE /\ g = gate.awaiting
              /\ VtAcks => /\ d = screen.drawn /\ z = screen.size /\ f = screen.full
                           /\ g <=> gate.awaiting /\ ~(gate.next > 0 /\ Head(chan).seq >= gate.next - 1)
  <2>1. TypeOK /\ ChunksCounted
    BY DEF IInv
  <2> QED BY <2>1, VtFrames
<1>11. CASE VtAcks
  <2>1. Head(chan).op = "ack" /\ Head(chan).seq \in AckSeqs(chan)
    <3>1. Head(chan).op = "ack"
      BY <1>11, VtReceived DEF IInv
    <3>2. Head(chan) = chan[1] /\ 1 \in DOMAIN chan
      BY <1>1, <1>2, Popped
    <3> QED BY <3>1, <3>2 DEF AckSeqs, Indexes
  <2>2. Head(chan).seq = gate.next - 1
    BY <2>1 DEF IInv, CreditIsNewest, Credits, Seen, Newest
  <2>3. Tokens = 1 /\ w = 0 /\ h = 0 /\ u = 0 /\ a = 0 /\ k = 0
    <3>1. c = k + 1
      BY <1>8, <1>11
    <3> HIDE DEF w, h, u, a, c, k
    <3> QED BY <1>6, <1>7, <3>1
  <2>4. gate.awaiting /\ gate.next > 0
    BY <2>3 DEF IInv, CreditIsOne
  <2>5. g = FALSE
    BY <1>1, <1>10, <1>11, <2>2, <2>4
  <2>6. wire = <<>> /\ page.held = <<>> /\ unpainted = None
    <3>1. /\ Len(wire) = 0 <=> wire = <<>>
          /\ Len(page.held) = 0 <=> page.held = <<>>
          /\ Due(unpainted) = 0 <=> unpainted = None
      BY <1>1, TotalIs
    <3> QED BY <2>3, <3>1
  <2>7. Total(wire, page.held, unpainted, calls, chan') = 0
    BY <2>3 DEF Total
  <2>8. CASE Quiet(d, z, f, g)
    <3>1. wire' = wire /\ gate'.next = gate.next /\ gate'.awaiting = FALSE
      BY <2>5, <2>8 DEF Quiet
    <3>2. Credits' = {} /\ Tokens' = 0
      BY <1>1, <1>3, <1>9, <2>7, <3>1, NoneSeen
    <3> QED BY <1>2, <3>1, <3>2 DEF GivenBack
  <2>9. CASE Emits(d, z, f, g)
    <3>1. /\ wire' = Append(wire, NewFrame(d, z, f)) /\ gate'.next = gate.next + 1
          /\ gate'.awaiting = TRUE /\ NewFrame(d, z, f).seq = gate.next
      BY <2>9 DEF Emits, NewFrame
    <3>2. wire' \in Seq(Frames) /\ Len(wire') = 1
      BY <1>1, <1>5, <1>10, <2>3, <3>1, AppendProperties
    <3>3. Tokens' = 1
      <4>1. Tokens' = 1 + h + u + a + k
        BY <1>9, <3>2 DEF Total
      <4> QED BY <2>3, <4>1
    <3>4. Seen(wire, page.held, unpainted, calls, chan') = {}
      BY <1>1, <1>3, <2>7, NoneSeen
    <3>5. Credits' \subseteq {gate.next}
      <4>1. SeqsOf(wire') = SeqsOf(wire) \cup {gate.next}
        BY <1>1, <1>10, <3>1, SeqsMove
      <4>2. Credits' = Seen(wire', page.held, unpainted, calls, chan')
        BY <1>9, <3>2
      <4> QED BY <3>4, <4>1, <4>2 DEF Seen
    <3> QED BY <1>2, <2>6, <3>1, <3>3, <3>5 DEF Spent
  <2> QED BY <1>10, <2>8, <2>9 DEF Draws
<1>12. CASE ~VtAcks
  <2>1. g = gate.awaiting /\ k = c
    <3>1. VtFeeds \/ VtResizes
      BY <1>12
    <3>2. g = gate.awaiting
      BY <1>10, <3>1
    <3>3. c = k + 0
      BY <1>8, <1>12
    <3> HIDE DEF c, k
    <3> QED BY <1>6, <3>2, <3>3
  <2>2. CASE Quiet(d, z, f, g)
    <3>1. wire' = wire /\ gate'.next = gate.next /\ gate'.awaiting = gate.awaiting
      BY <2>1, <2>2 DEF Quiet
    <3>2. Tokens' = Tokens
      BY <1>1, <1>9, <2>1, <3>1 DEF Tokens, Total
    <3>3. Credits' \subseteq Credits
      BY <1>1, <1>4, <1>9, <3>1 DEF Credits, Seen
    <3> QED BY <1>2, <1>12, <3>1, <3>2, <3>3 DEF Kept, SameGate, Showing
  <2>3. CASE Emits(d, z, f, g)
    <3>1. /\ wire' = Append(wire, NewFrame(d, z, f)) /\ gate'.next = gate.next + 1
          /\ gate'.awaiting = TRUE /\ NewFrame(d, z, f).seq = gate.next /\ ~gate.awaiting
      BY <2>1, <2>3 DEF Emits, NewFrame
    <3>2. Tokens # 1
      BY <3>1 DEF IInv, CreditIsOne
    <3>3. Tokens = 0 /\ w = 0 /\ h = 0 /\ u = 0 /\ a = 0 /\ k = 0
      <4> HIDE DEF w, h, u, a, c, k
      <4> QED BY <1>6, <1>7, <2>1, <3>2
    <3>4. /\ wire = <<>> /\ page.held = <<>> /\ unpainted = None
          /\ Seen(wire, page.held, unpainted, calls, chan) = {}
      <4>1. Total(wire, page.held, unpainted, calls, chan) = 0
        BY <3>3 DEF Tokens
      <4>2. Seen(wire, page.held, unpainted, calls, chan) = {}
        BY <1>1, <4>1, NoneSeen
      <4>3. /\ Len(wire) = 0 <=> wire = <<>>
            /\ Len(page.held) = 0 <=> page.held = <<>>
            /\ Due(unpainted) = 0 <=> unpainted = None
        BY <1>1, TotalIs
      <4> QED BY <3>3, <4>2, <4>3
    <3>5. wire' \in Seq(Frames) /\ Len(wire') = 1
      BY <1>1, <1>5, <1>10, <3>1, <3>3, AppendProperties
    <3>6. Tokens' = 1
      <4>1. Tokens' = 1 + h + u + a + k
        BY <1>9, <3>5 DEF Total
      <4> QED BY <3>3, <4>1
    <3>7. Credits' \subseteq {gate.next}
      <4>1. SeqsOf(wire') = SeqsOf(wire) \cup {gate.next}
        BY <1>1, <1>10, <3>1, SeqsMove
      <4>2. Credits' = Seen(wire', page.held, unpainted, calls, chan')
        BY <1>9, <3>5
      <4> QED BY <1>4, <3>4, <4>1, <4>2 DEF Seen
    <3> QED BY <1>2, <3>1, <3>4, <3>6, <3>7 DEF Spent
  <2> QED BY <1>10, <2>2, <2>3 DEF Draws
<1> QED BY <1>11, <1>12

(* A step that leaves every place alone leaves the credit where it is.      *)
LEMMA SamePlaces ==
    ASSUME UNCHANGED <<wire, unpainted>>, page'.held = page.held,
           CallsOf(calls', "ack") = CallsOf(calls, "ack"),
           Count(chan', "ack") = Count(chan, "ack"), AckSeqs(chan') \subseteq AckSeqs(chan)
    PROVE  Tokens' = Tokens /\ Credits' \subseteq Credits
<1>1. AckCalls(calls') = AckCalls(calls)
  BY DEF AckCalls
<1>2. Tokens' = Tokens
  BY <1>1 DEF Tokens, Total
<1>3. Credits' \subseteq Credits
  BY DEF Credits, Seen
<1> QED BY <1>2, <1>3

(* The commands carry it, or lose it with the session.                      *)
LEMMA CommandCredit ==
    ASSUME IInv, ~page.attach,
           \/ \E c \in calls : AckArrives(c) \/ ResizePty(c) \/ ResizeVt(c)
           \/ KillArrives \/ Indoors
    PROVE  Kept \/ Dropped
<1>1. /\ TypeOK /\ wire \in Seq(Frames) /\ page.held \in Seq(Frames) /\ chan \in Seq(Commanded)
      /\ IsFiniteSet(calls) /\ calls \subseteq Called
  BY DEF IInv, TypeOK, FramesCounted
<1> DEFINE w == Len(wire)  h == Len(page.held)  u == Due(unpainted)  a == AckCalls(calls)
           c == Count(chan, "ack")
<1>2. w \in Nat /\ h \in Nat /\ u \in Nat /\ a \in Nat /\ c \in Nat /\ Tokens = w + h + u + a + c
  BY <1>1, TotalIs DEF Tokens, Total
<1>3. ASSUME NEW d \in calls, AckArrives(d) PROVE Kept \/ Dropped
  <2>1. d \in Called /\ d.op = "ack" /\ calls' = calls \ {d} /\ d.seq \in Credits
    BY <1>1, <1>3 DEF AckArrives, Credits, Seen, CallsOf
  <2>2. UNCHANGED <<wire, unpainted, gate, vt, page>>
    <3>1. page' = page
      BY <1>1, <1>3, AckedPage DEF IInv, PhasesApart
    <3> QED BY <1>3, <3>1 DEF AckArrives, native
  <2>3. SameGate /\ vt' = vt /\ (Showing' <=> Showing)
    BY <2>2 DEF SameGate, Showing
  <2>4. AckCalls(calls) = AckCalls(calls') + 1 /\ AckCalls(calls') \in Nat
    <3>1. IsFiniteSet(calls \ {d})
      BY <1>1, Answering
    <3>2. Cardinality(CallsOf(calls \ {d}, "ack")) \in Nat
      BY <3>1, FewCalls
    <3>3. d.op = "ack" =>
            Cardinality(CallsOf(calls, "ack")) = Cardinality(CallsOf(calls \ {d}, "ack")) + 1
      <4>1. IsFiniteSet(calls)
        BY <1>1
      <4> QED BY <4>1, Answering
    <3> QED BY <2>1, <3>2, <3>3 DEF AckCalls
  <2>5. CallsOf(calls', "ack") \subseteq CallsOf(calls, "ack")
    BY <2>1 DEF CallsOf
  <2>6. PICK b \in Nat : b = AckCalls(calls') /\ a = b + 1
    BY <2>4
  <2>7. PICK e \in Nat : e = Count(chan', "ack")
    BY <1>1, <1>3, <2>1, OthersSend, Sent, CountIsNat DEF OtherCommands
  <2>8. Tokens' = w + h + u + b + e
    BY <2>2, <2>6, <2>7 DEF Tokens, Total
  <2>9. CASE listed /\ vt # "gone"
    <3>1. Send(Ack(d.seq)) /\ d.seq \in Seqs \cup {HighWater}
      BY <1>3, <2>1, <2>9 DEF AckArrives, Called, KillCall
    <3>2. e = c + 1
      BY <1>1, <1>2, <2>7, <2>9, <3>1, Sent, CommandsAreCommanded
    <3>3. AckSeqs(chan') \subseteq AckSeqs(chan) \cup {d.seq}
      BY <1>1, <3>1, AcksMove, CommandsAreCommanded
    <3>4. Tokens' = Tokens
      <4> HIDE DEF w, h, u, a, c
      <4> QED BY <1>2, <2>6, <2>8, <3>2
    <3>5. Credits' \subseteq Credits
      BY <2>1, <2>2, <2>5, <3>3 DEF Credits, Seen
    <3> QED BY <2>3, <3>4, <3>5 DEF Kept
  <2>10. CASE ~listed \/ vt = "gone"
    <3>1. chan' = chan
      BY <1>3, <2>10 DEF AckArrives, Send
    <3>2. e = c
      BY <2>7, <3>1
    <3>3. Tokens' <= Tokens
      <4> HIDE DEF w, h, u, a, c
      <4> QED BY <1>2, <2>6, <2>8, <3>2
    <3>4. Credits' \subseteq Credits
      BY <2>2, <2>5, <3>1 DEF Credits, Seen
    <3>5. ~Showing' \/ vt' = "gone"
      BY <2>3, <2>10 DEF IInv, ShownIsListed
    <3> QED BY <2>3, <3>3, <3>4, <3>5 DEF Dropped
  <2> QED BY <2>9, <2>10
<1>4. ASSUME NEW d \in calls, ResizePty(d) PROVE Kept \/ Dropped
  <2>1. UNCHANGED <<wire, unpainted, gate, vt, page, chan>>
    BY <1>4 DEF ResizePty, native, front
  <2>2. CallsOf(calls', "ack") = CallsOf(calls, "ack")
    BY <1>1, <1>4, ResizedPty
  <2>3. Tokens' = Tokens /\ Credits' \subseteq Credits
    BY <2>1, <2>2, SamePlaces
  <2> QED BY <2>1, <2>3 DEF Kept, SameGate, Showing
<1>5. ASSUME NEW d \in calls, ResizeVt(d) PROVE Kept \/ Dropped
  <2>1. UNCHANGED <<wire, unpainted, gate, vt, page>> /\ d.op = "resize" /\ calls' = calls \ {d}
    BY <1>5 DEF ResizeVt, native, front
  <2>2. d.size \in Sizes /\ Send(Resize(d.size))
    BY <1>1, <1>5 DEF ResizeVt, Called, KillCall
  <2>3. CallsOf(calls', "ack") = CallsOf(calls, "ack")
    BY <1>1, <2>1, Answering
  <2>4. Count(chan', "ack") = Count(chan, "ack") /\ AckSeqs(chan') \subseteq AckSeqs(chan)
    <3>1. Resize(d.size) \in Commanded /\ Resize(d.size).op = "resize"
      BY <2>2, CommandsAreCommanded
    <3>2. Count(chan', "ack") = Count(chan, "ack")
      BY <1>1, <1>2, <2>2, <3>1, Sent
    <3>3. AckSeqs(chan') \subseteq AckSeqs(chan)
      BY <1>1, <2>2, <3>1, AcksMove
    <3> QED BY <3>2, <3>3
  <2>5. Tokens' = Tokens /\ Credits' \subseteq Credits
    BY <2>1, <2>3, <2>4, SamePlaces
  <2> QED BY <2>1, <2>5 DEF Kept, SameGate, Showing
<1>6. CASE KillArrives
  <2>1. UNCHANGED <<wire, unpainted, gate, vt, page, chan>>
    BY <1>6 DEF KillArrives, native, front
  <2>2. CallsOf(calls', "ack") = CallsOf(calls, "ack")
    BY <1>1, <1>6, Answering, CallsAreCalled DEF KillArrives
  <2>3. Tokens' = Tokens /\ Credits' \subseteq Credits
    BY <2>1, <2>2, SamePlaces
  <2> QED BY <2>1, <2>3 DEF Kept, SameGate, Showing
<1>7. CASE Indoors
  <2>1. UNCHANGED <<wire, unpainted, gate, page, calls>>
    BY <1>7 DEF Indoors, front
  <2>2. SameGate /\ (Showing' <=> Showing)
    BY <2>1 DEF SameGate, Showing
  <2>3. CASE vt' = "gone" /\ chan' = <<>>
    <3>1. Count(chan', "ack") = 0 /\ AckSeqs(chan') = {}
      BY <1>1, <2>3, Emptied, AcksMove
    <3>2. Tokens' = w + h + u + a + 0
      BY <2>1, <3>1 DEF Tokens, Total
    <3>3. Tokens' <= Tokens
      <4> HIDE DEF w, h, u, a, c
      <4> QED BY <1>2, <3>2
    <3>4. Credits' \subseteq Credits
      BY <2>1, <3>1 DEF Credits, Seen
    <3> QED BY <2>2, <2>3, <3>3, <3>4 DEF Dropped
  <2>4. CASE /\ vt' = vt \/ (vt = "starting" /\ vt' = "running")
             /\ Count(chan', "ack") = Count(chan, "ack")
             /\ AckSeqs(chan') \subseteq AckSeqs(chan)
    <3>1. Tokens' = Tokens /\ Credits' \subseteq Credits
      BY <2>1, <2>4, SamePlaces
    <3> QED BY <2>2, <2>4, <3>1 DEF Kept
  <2> QED BY <1>7, <2>3, <2>4 DEF Indoors
<1> QED BY <1>3, <1>4, <1>5, <1>6, <1>7

(* The page passes it on, from the event to the paint, or drops it.         *)
LEMMA PageCredit ==
    ASSUME IInv, ~page.attach,
           \/ WindowDestroyed \/ Registers \/ Dispatches \/ StartReturns \/ Layouts \/ Paints
           \/ Disposes \/ Leaves
    PROVE  Kept \/ Dropped
<1>1. /\ TypeOK /\ PhasesApart /\ CreditIsOne /\ FramesCounted
      /\ wire \in Seq(Frames) /\ page.held \in Seq(Frames) /\ chan \in Seq(Commanded)
      /\ IsFiniteSet(calls)
  BY DEF IInv, TypeOK, FramesCounted
<1> DEFINE w == Len(wire)  h == Len(page.held)  u == Due(unpainted)  a == AckCalls(calls)
           c == Count(chan, "ack")
<1>2. w \in Nat /\ h \in Nat /\ u \in {0, 1} /\ a \in Nat /\ c \in Nat /\ Tokens = w + h + u + a + c
  BY <1>1, TotalIs DEF Tokens, Total
<1>3. Tokens <= 1
  BY <1>1 DEF CreditIsOne
<1>4. UNCHANGED <<gate, vt, chan>>
  <2>1. WindowDestroyed \/ Registers \/ Layouts \/ Paints \/ Disposes \/ Leaves
          => UNCHANGED <<gate, vt, chan>>
    BY DEF WindowDestroyed, Registers, Layouts, Paints, Disposes, Leaves, native
  <2>2. Dispatches \/ StartReturns => UNCHANGED <<gate, vt, chan>>
    BY <1>1, DispatchCases, StartCases DEF native
  <2> QED BY <2>1, <2>2
<1>5. ASSUME Tokens' = Tokens, Credits' \subseteq Credits, Showing' => Showing
      PROVE  Kept \/ Dropped
  BY <1>4, <1>5 DEF Kept, SameGate
<1>6. ASSUME Tokens' <= Tokens, Credits' \subseteq Credits, ~Showing' PROVE Kept \/ Dropped
  BY <1>4, <1>6 DEF Dropped, SameGate
<1>7. CASE Registers \/ Layouts
  <2>1. UNCHANGED <<wire, unpainted>> /\ calls' \in {calls, calls \cup {ResizeCall(page.wanted + 1)}}
    BY <1>7 DEF Registers, Layouts
  <2>2. page'.held = page.held /\ page'.phase = page.phase
    BY <1>1, <1>7, PageMoves DEF Paged
  <2>3. CallsOf(calls', "ack") = CallsOf(calls, "ack")
    <3>1. IsFiniteSet(calls) /\ ResizeCall(page.wanted + 1).op # "ack"
      BY <1>1, CallsAreCalled
    <3>2. CallsOf(calls \cup {ResizeCall(page.wanted + 1)}, "ack") = CallsOf(calls, "ack")
      BY <3>1, Calling
    <3> QED BY <2>1, <3>2
  <2>4. Tokens' = Tokens /\ Credits' \subseteq Credits
    BY <1>4, <2>1, <2>2, <2>3, SamePlaces
  <2> QED BY <1>5, <2>2, <2>4 DEF Showing
<1>8. CASE WindowDestroyed \/ Disposes \/ Leaves
  <2>1. /\ wire' \in {wire, <<>>} /\ unpainted' \in {unpainted, None}
        /\ calls' \in {calls, calls \cup {KillCall}}
    BY <1>8 DEF WindowDestroyed, Disposes, Leaves
  <2>2. page'.held \in {page.held, <<>>} /\ page'.phase \in {"gone", "leaving", "abandoned", "closed"}
    BY <1>1, <1>8, PageMoves DEF Paged
  <2>3. CallsOf(calls', "ack") = CallsOf(calls, "ack")
    <3>1. IsFiniteSet(calls) /\ KillCall.op # "ack"
      BY <1>1, CallsAreCalled
    <3>2. CallsOf(calls \cup {KillCall}, "ack") = CallsOf(calls, "ack")
      BY <3>1 DEF CallsOf
    <3> QED BY <2>1, <3>2
  <2>4. Credits' \subseteq Credits
    BY <1>4, <2>1, <2>2, <2>3 DEF Credits, Seen, SeqsOf
  <2>5. AckCalls(calls') = a /\ Count(chan', "ack") = c
    BY <1>4, <2>3 DEF AckCalls
  <2>6. Len(<<>>) = 0 /\ Due(None) = 0
    BY DEF Due
  <2>7. PICK n \in {w, 0}, m \in {h, 0}, v \in {u, 0} :
           n = Len(wire') /\ m = Len(page'.held) /\ v = Due(unpainted')
    BY <2>1, <2>2, <2>6
  <2>8. Tokens' = n + m + v + a + c
    BY <2>5, <2>7 DEF Tokens, Total
  <2>9. Tokens' <= Tokens
    <3> HIDE DEF w, h, u, a, c
    <3>1. n \in {w, 0} /\ m \in {h, 0} /\ v \in {u, 0}
      OBVIOUS
    <3> QED BY <1>2, <2>8, <3>1
  <2>10. ~Showing'
    BY <2>2 DEF Showing
  <2> QED BY <1>6, <2>4, <2>9, <2>10
<1>9. CASE Paints
  <2>1. UNCHANGED <<wire, page>> /\ unpainted # None /\ unpainted' = None
    BY <1>9 DEF Paints
  <2>2. calls' = calls \cup {AckCall(unpainted)}
    BY <1>9, <2>1 DEF Paints, IInv, PaintIsLive
  <2>3. u = 1 /\ Due(unpainted') = 0
    BY <2>1 DEF Due
  <2>4. a = 0
    <3>1. w + h + u + a + c <= 1
      BY <1>2, <1>3
    <3> HIDE DEF w, h, u, a, c
    <3> QED BY <1>2, <2>3, <3>1
  <2>5. CallsOf(calls, "ack") = {}
    BY <1>1, <2>4, TotalIs
  <2>6. CallsOf(calls', "ack") = {AckCall(unpainted)}
    BY <2>2, <2>5, CallsAreCalled DEF CallsOf
  <2>7. AckCalls(calls') = 1
    BY <2>6, FS_Singleton DEF AckCalls
  <2>8. Tokens' = w + h + 0 + 1 + c
    BY <1>4, <2>1, <2>3, <2>7 DEF Tokens, Total
  <2>9. Tokens' = Tokens
    <3> HIDE DEF w, h, u, a, c
    <3> QED BY <1>2, <2>3, <2>4, <2>8
  <2>10. Credits' \subseteq Credits
    BY <1>4, <2>1, <2>6, CallsAreCalled DEF Credits, Seen
  <2> QED BY <1>5, <2>1, <2>9, <2>10 DEF Showing
<1>10. ASSUME NEW f \in Frames, f.seq \in Credits, NEW p, p \in {page, Started}, Applied(f, p),
             u = 0, UNCHANGED calls,
             \/ wire # <<>> /\ wire' = Tail(wire) /\ p = page
             \/ wire' = wire /\ h = 1 /\ p = Started
      PROVE  Tokens' = Tokens /\ Credits' \subseteq Credits
  <2>1. unpainted' = f.seq /\ f.seq # None
    BY <1>10, BoundsAreNat DEF Applied, Frames, Seqs, None, HighWater
  <2>2. Due(unpainted') = 1
    BY <2>1 DEF Due
  <2>3. CASE wire # <<>> /\ wire' = Tail(wire) /\ p = page
    <3>1. page'.held = page.held
      BY <1>1, <1>10, <2>3, PageMoves DEF Paged
    <3>2. w \in Nat \ {0} /\ Len(wire') = w - 1 /\ SeqsOf(wire') \subseteq SeqsOf(wire)
      BY <1>1, <2>3, Popped, SeqsMove
    <3>3. Tokens' = (w - 1) + h + 1 + a + c
      BY <1>4, <1>10, <2>2, <3>1, <3>2 DEF Tokens, Total
    <3>4. Tokens' = Tokens
      <4>1. u = 0
        BY <1>10
      <4> HIDE DEF w, h, u, a, c
      <4> QED BY <1>2, <3>2, <3>3, <4>1
    <3>5. Credits' \subseteq Credits
      BY <1>4, <1>10, <2>1, <3>1, <3>2 DEF Credits, Seen
    <3> QED BY <3>4, <3>5
  <2>4. CASE wire' = wire /\ h = 1 /\ p = Started
    <3>1. page'.held = <<>>
      BY <1>1, <1>10, <2>4, PageMoves DEF Paged
    <3>2. Tokens' = w + 0 + 1 + a + c
      BY <1>4, <1>10, <2>2, <2>4, <3>1 DEF Tokens, Total
    <3>3. Tokens' = Tokens
      <4>1. u = 0 /\ h = 1
        BY <1>10, <2>4
      <4> HIDE DEF w, h, u, a, c
      <4> QED BY <1>2, <3>2, <4>1
    <3>4. Credits' \subseteq Credits
      BY <1>4, <1>10, <2>1, <2>4, <3>1 DEF Credits, Seen, SeqsOf
    <3> QED BY <3>3, <3>4
  <2> QED BY <1>10, <2>3, <2>4
<1>11. CASE Dispatches
  <2>1. /\ wire # <<>> /\ wire' = Tail(wire) /\ Head(wire) \in Frames /\ Head(wire) = wire[1]
        /\ 1 \in DOMAIN wire /\ UNCHANGED calls /\ (Loses \/ Holds \/ ShowsNow)
    BY <1>1, <1>11, DispatchCases
  <2>2. w \in Nat \ {0} /\ Len(wire') = w - 1 /\ SeqsOf(wire') \subseteq SeqsOf(wire)
        /\ Head(wire).seq \in SeqsOf(wire)
    BY <1>1, <2>1, Popped, SeqsMove
  <2>3. u = 0
    <3>1. w + h + u + a + c <= 1
      BY <1>2, <1>3
    <3> HIDE DEF w, h, u, a, c
    <3> QED BY <1>2, <2>2, <3>1
  <2>4. CASE Loses
    <3>1. UNCHANGED <<page, unpainted>>
      BY <2>4 DEF Loses, front
    <3>2. ~Showing'
      BY <1>1, <2>4, <3>1 DEF Loses, Showing, PhasesApart
    <3>3. Tokens' = (w - 1) + h + u + a + c
      BY <1>4, <2>1, <2>2, <3>1 DEF Tokens, Total
    <3>4. Tokens' <= Tokens
      <4> HIDE DEF w, h, u, a, c
      <4> QED BY <1>2, <2>2, <3>3
    <3>5. Credits' \subseteq Credits
      BY <1>4, <2>1, <2>2, <3>1 DEF Credits, Seen
    <3> QED BY <1>6, <3>2, <3>4, <3>5
  <2>5. CASE Holds
    <3>1. page'.held = Append(page.held, Head(wire)) /\ page'.phase = page.phase
      BY <1>1, <2>5, PageMoves DEF Paged
    <3>2. Len(page'.held) = h + 1
      BY <1>1, <2>1, <3>1, Pushed
    <3>3. SeqsOf(page'.held) = SeqsOf(page.held) \cup {Head(wire).seq}
      BY <1>1, <2>1, <3>1, SeqsMove
    <3>4. unpainted' = unpainted
      BY <2>5 DEF Holds
    <3>5. Tokens' = (w - 1) + (h + 1) + u + a + c
      BY <1>4, <2>1, <2>2, <3>2, <3>4 DEF Tokens, Total
    <3>6. Tokens' = Tokens
      <4> HIDE DEF w, h, u, a, c
      <4> QED BY <1>2, <2>2, <3>5
    <3>7. Credits' \subseteq Credits
      BY <1>4, <2>1, <2>2, <3>3, <3>4 DEF Credits, Seen
    <3> QED BY <1>5, <3>1, <3>6, <3>7 DEF Showing
  <2>6. CASE ShowsNow
    <3>1. page.phase = "live" /\ Showing
      BY <1>1, <2>6 DEF ShowsNow, Showing, PhasesApart
    <3>2. Fits(wire[1])
      BY <2>1, <3>1 DEF IInv, FramesFit
    <3>3. Applied(Head(wire), page)
      <4>1. wire[1].seq >= page.expected /\ wire[1].seq \in Nat /\ page.expected \in Nat
        BY <1>1, <2>1, <3>2 DEF Fits, Frames, TypeOK, Seqs
      <4>2. ~(wire[1].seq < page.expected)
        BY <4>1
      <4> QED BY <2>1, <2>6, <4>2 DEF ShowsNow, ShowsOn
    <3>4. Head(wire).seq \in Credits
      BY <2>2 DEF Credits, Seen
    <3>5. Tokens' = Tokens /\ Credits' \subseteq Credits
      BY <1>10, <2>1, <2>3, <3>3, <3>4
    <3> QED BY <1>5, <3>1, <3>5
  <2> QED BY <2>1, <2>4, <2>5, <2>6
<1>12. CASE StartReturns
  <2>1. /\ page.phase = "starting" /\ UNCHANGED <<calls, wire>>
        /\ \/ page.held = <<>> /\ Stands(Started)
           \/ /\ page.held = <<page.held[1]>> /\ page.held[1] \in Frames
              /\ ShowsOn(page.held[1], Started)
    BY <1>1, <1>12, StartCases
  <2>2. Showing
    BY <2>1 DEF Showing
  <2>3. Started = Paged("live", page.listening, <<>>, page.expected, page.wanted)
    BY <1>1, PageMoves
  <2>4. CASE page.held = <<>> /\ Stands(Started)
    <3>1. page'.held = page.held /\ unpainted' = unpainted
      BY <2>3, <2>4 DEF Stands, Paged
    <3>2. Tokens' = Tokens /\ Credits' \subseteq Credits
      BY <1>4, <2>1, <3>1, SamePlaces
    <3> QED BY <1>5, <2>2, <3>2
  <2>5. CASE page.held = <<page.held[1]>> /\ page.held[1] \in Frames /\ ShowsOn(page.held[1], Started)
    <3>1. h = 1 /\ 1 \in DOMAIN page.held
      <4>1. Len(<<page.held[1]>>) = 1
        OBVIOUS
      <4>2. h = 1
        BY <2>5, <4>1
      <4> QED BY <1>1, <4>2, LenProperties
    <3>2. Fits(page.held[1])
      BY <2>2, <3>1 DEF IInv, FramesFit
    <3>3. Applied(page.held[1], Started)
      <4>1. /\ page.held[1].seq >= page.expected
            /\ page.held[1].seq \in Nat /\ page.expected \in Nat /\ Started.expected = page.expected
        BY <1>1, <2>3, <2>5, <3>2 DEF Fits, Frames, TypeOK, Seqs, Paged
      <4>2. ~(page.held[1].seq < Started.expected)
        BY <4>1
      <4> QED BY <2>5, <4>2 DEF ShowsOn
    <3>4. u = 0
      <4>1. w + h + u + a + c <= 1
        BY <1>2, <1>3
      <4> HIDE DEF w, h, u, a, c
      <4> QED BY <1>2, <3>1, <4>1
    <3>5. page.held[1].seq \in Credits
      BY <3>1 DEF Credits, Seen, SeqsOf
    <3>6. Tokens' = Tokens /\ Credits' \subseteq Credits
      BY <1>10, <2>1, <2>5, <3>1, <3>3, <3>4, <3>5
    <3> QED BY <1>5, <2>2, <3>6
  <2> QED BY <2>1, <2>4, <2>5
<1> QED BY <1>7, <1>8, <1>9, <1>11, <1>12

(* A pane stays of its kind.                                                *)
LEMMA AttachStays ==
    ASSUME TypeOK, SendsWhatWasRead, PhasesApart, CreditIsOne, FramesCounted, [Next]_vars
    PROVE  page'.attach = page.attach
<1>1. Indoors \/ VtFeeds \/ VtResizes \/ VtAcks => page'.attach = page.attach
  BY VtReceived DEF Indoors, front
<1>2. (\E c \in calls : ResizePty(c) \/ ResizeVt(c)) \/ KillArrives \/ Paints
        => page'.attach = page.attach
  BY DEF ResizePty, ResizeVt, KillArrives, Paints, front
<1>3. (\E c \in calls : AckArrives(c)) => page'.attach = page.attach
  BY AckedPage
<1>4. WindowDestroyed \/ Leaves \/ Registers \/ Attaches \/ Attached \/ Layouts \/ Disposes
        => page'.attach = page.attach
  BY PageMoves DEF Paged
<1>5. ASSUME Dispatches PROVE page'.attach = page.attach
  <2>1. Loses \/ Stands(page) => page'.attach = page.attach
    BY DEF Loses, Stands, front
  <2>2. Holds \/ Applied(Head(wire), page) => page'.attach = page.attach
    BY PageMoves DEF Paged
  <2> QED BY <1>5, <2>1, <2>2, DispatchCases DEF ShowsNow, ShowsOn
<1>6. StartReturns => page'.attach = page.attach
  BY StartCases, PageMoves DEF Paged, ShowsOn, Stands
<1> QED BY <1>1, <1>2, <1>3, <1>4, <1>5, <1>6, OutdoorSteps

(* Every step keeps the credit one, and of the newest frame.                *)
LEMMA CreditStep ==
    ASSUME IInv, TypeOK', FramesCounted', [Next]_vars
    PROVE  CreditIsOne' /\ CreditIsNewest'
<1>1. /\ TypeOK /\ SendsWhatWasRead /\ PhasesApart /\ CreditIsOne /\ FramesCounted /\ CreditIsNewest
      /\ gate.next \in Nat /\ gate.awaiting \in BOOLEAN
  BY DEF IInv, TypeOK, Seqs
<1>2. page'.attach = page.attach
  BY <1>1, AttachStays
<1>3. CASE page.attach
  BY <1>2, <1>3 DEF CreditIsOne, CreditIsNewest
<1>4. CASE ~page.attach
  <2>1. Kept \/ Dropped \/ Spent \/ GivenBack
    <3>1. Attaches \/ Attached => page.attach
      BY <1>1 DEF Attaches, Attached, PhasesApart
    <3> QED BY <1>1, <1>4, <3>1, OutdoorSteps, VtCredit, CommandCredit, PageCredit
  <2>2. Tokens \in Nat /\ Tokens' \in Nat
    <3>1. /\ wire \in Seq(Frames) /\ page.held \in Seq(Frames) /\ chan \in Seq(Commanded)
          /\ IsFiniteSet(calls)
      BY <1>1 DEF TypeOK, FramesCounted
    <3>2. /\ wire' \in Seq(Frames) /\ page'.held \in Seq(Frames) /\ chan' \in Seq(Commanded)
          /\ IsFiniteSet(calls')
      BY DEF TypeOK, FramesCounted
    <3>3. Tokens \in Nat
      BY <3>1, TotalIs DEF Tokens, Total
    <3>4. Tokens' \in Nat
      BY <3>2, TotalIs DEF Tokens, Total
    <3> QED BY <3>3, <3>4
  <2>3. /\ Tokens <= 1
        /\ Tokens = 1 => gate.awaiting
        /\ vt = "running" /\ gate.awaiting /\ Showing => Tokens = 1
        /\ vt = "starting" => ~gate.awaiting
        /\ gate.awaiting => gate.next > 0
        /\ Credits \subseteq {gate.next - 1}
    BY <1>1, <1>4 DEF CreditIsOne, CreditIsNewest, Newest
  <2>4. ASSUME /\ Tokens' <= 1
               /\ Tokens' = 1 => gate'.awaiting
               /\ vt' = "running" /\ gate'.awaiting /\ Showing' => Tokens' = 1
               /\ vt' = "starting" => ~gate'.awaiting
               /\ gate'.awaiting => gate'.next > 0,
               Credits' \subseteq {gate'.next - 1}
        PROVE  CreditIsOne' /\ CreditIsNewest'
    BY <2>4 DEF CreditIsOne, CreditIsNewest, Newest
  <2>5. CASE Kept
    BY <2>3, <2>4, <2>5 DEF Kept, SameGate
  <2>6. CASE Dropped
    <3>1. Tokens' <= 1 /\ (Tokens' = 1 => Tokens = 1)
      <4>1. Tokens' <= Tokens
        BY <2>6 DEF Dropped
      <4> QED BY <2>2, <2>3, <4>1
    <3> QED BY <2>3, <2>4, <2>6, <3>1 DEF Dropped, SameGate
  <2>7. CASE Spent
    <3>1. gate'.next - 1 = gate.next /\ gate'.next > 0 /\ Tokens' <= 1
      BY <1>1, <2>7 DEF Spent
    <3> QED BY <2>4, <2>7, <3>1 DEF Spent
  <2>8. CASE GivenBack
    BY <2>4, <2>8 DEF GivenBack
  <2> QED BY <2>1, <2>5, <2>6, <2>7, <2>8
<1> QED BY <1>3, <1>4

-----------------------------------------------------------------------------
(* What the frames are applied to *)

(* A frame in flight is alone.                                              *)
LEMMA InFlightAlone ==
    ASSUME IInv, ~page.attach
    PROVE  /\ wire # <<>> => Len(wire) = 1 /\ page.held = <<>>
           /\ page.held # <<>> => Len(page.held) = 1 /\ wire = <<>>
<1>1. wire \in Seq(Frames) /\ page.held \in Seq(Frames) /\ chan \in Seq(Commanded) /\ IsFiniteSet(calls)
  BY DEF IInv, TypeOK, FramesCounted
<1> DEFINE w == Len(wire)  h == Len(page.held)  u == Due(unpainted)  a == AckCalls(calls)
           c == Count(chan, "ack")
<1>2. w \in Nat /\ h \in Nat /\ u \in Nat /\ a \in Nat /\ c \in Nat
  BY <1>1, TotalIs
<1>3. w + h + u + a + c <= 1
  BY DEF IInv, CreditIsOne, Tokens, Total
<1>4. (w = 0 <=> wire = <<>>) /\ (h = 0 <=> page.held = <<>>)
  BY <1>1, TotalIs
<1>5. (w # 0 => w = 1 /\ h = 0) /\ (h # 0 => h = 1 /\ w = 0)
  <2> HIDE DEF w, h, u, a, c
  <2> QED BY <1>2, <1>3
<1> HIDE DEF w, h, u, a, c
<1>6. (wire # <<>> => w = 1 /\ page.held = <<>>) /\ (page.held # <<>> => h = 1 /\ wire = <<>>)
  BY <1>4, <1>5
<1> QED BY <1>6 DEF w, h

(* Every step keeps the frames fit for the grid, and the grid whole.        *)
LEMMA FitStep ==
    ASSUME IInv, [Next]_vars
    PROVE  FramesFit' /\ ScreenIsWhole'
<1>1. /\ TypeOK /\ SendsWhatWasRead /\ PhasesApart /\ CreditIsOne /\ FramesCounted /\ SeqsArePast
      /\ ChunksCounted
      /\ wire \in Seq(Frames) /\ page.held \in Seq(Frames) /\ gate.next \in Nat /\ page.expected \in Nat
      /\ page \in Pages /\ screen.full \in BOOLEAN
  BY DEF IInv, TypeOK, Seqs, Pages
<1>2. page'.attach = page.attach
  BY <1>1, AttachStays
<1>3. CASE page.attach
  BY <1>2, <1>3 DEF FramesFit, ScreenIsWhole
<1>4. ASSUME ~page.attach PROVE FramesFit' /\ ScreenIsWhole'
  <2> DEFINE Fitting == /\ gate.next = 0 => screen.full
                        /\ \A i \in DOMAIN wire : Fits(wire[i])
                        /\ \A i \in DOMAIN page.held : Fits(page.held[i])
                        /\ wire = <<>> /\ page.held = <<>> /\ gate.next > 0
                             => /\ grid.version = screen.base
                                /\ ~screen.full => grid.size = screen.size
  <2>1. grid.whole /\ (Showing => Fitting)
    BY <1>4 DEF IInv, FramesFit, ScreenIsWhole
  <2>2. ASSUME grid'.whole, Showing' => Fitting' PROVE FramesFit' /\ ScreenIsWhole'
    BY <2>2 DEF FramesFit, ScreenIsWhole
  <2>3. ASSUME UNCHANGED <<grid, screen, gate, wire>>, page'.held = page.held,
               page'.expected = page.expected, Showing' => Showing
        PROVE  FramesFit' /\ ScreenIsWhole'
    BY <2>1, <2>2, <2>3 DEF Fits
  <2>4. ASSUME grid' = grid, ~Showing' PROVE FramesFit' /\ ScreenIsWhole'
    BY <2>1, <2>2, <2>4
  <2>5. CASE Indoors \/ KillArrives \/ (\E c \in calls : ResizePty(c) \/ ResizeVt(c)) \/ Paints
    <3>1. UNCHANGED <<grid, screen, gate, wire, page>>
      BY <2>5 DEF Indoors, KillArrives, ResizePty, ResizeVt, Paints, native, front
    <3> QED BY <2>3, <3>1 DEF Showing
  <2>6. ASSUME NEW c \in calls, AckArrives(c) PROVE FramesFit' /\ ScreenIsWhole'
    <3>1. page' = page
      BY <1>1, <1>4, <2>6, AckedPage DEF PhasesApart
    <3> QED BY <2>3, <2>6, <3>1 DEF AckArrives, native, Showing
  <2>7. CASE Registers \/ Layouts
    <3>1. page'.held = page.held /\ page'.expected = page.expected /\ page'.phase = page.phase
      BY <1>1, <2>7, PageMoves DEF Paged
    <3> QED BY <2>3, <2>7, <3>1 DEF Registers, Layouts, native, Showing
  <2>8. CASE WindowDestroyed \/ Disposes \/ Leaves
    <3>1. page'.phase \in {"gone", "leaving", "abandoned", "closed"}
      BY <1>1, <2>8, PageMoves DEF Paged
    <3> QED BY <2>4, <2>8, <3>1 DEF WindowDestroyed, Disposes, Leaves, Showing
  <2>9. CASE VtFeeds \/ VtResizes \/ VtAcks
    <3>1. PICK d \in 0..MaxChunks, z \in Sizes, f \in BOOLEAN, g \in BOOLEAN :
              /\ Draws(d, z, f, g) /\ NewFrame(d, z, f) \in Frames
              /\ VtFeeds => /\ d = screen.drawn + 1 /\ z = screen.size /\ f = screen.full
                            /\ g = gate.awaiting
              /\ VtResizes => d = screen.drawn /\ f = TRUE /\ g = gate.awaiting
              /\ VtAcks => /\ d = screen.drawn /\ z = screen.size /\ f = screen.full
                           /\ g <=> gate.awaiting /\ ~(gate.next > 0 /\ Head(chan).seq >= gate.next - 1)
      BY <1>1, <2>9, VtFrames
    <3>2. f = TRUE \/ (f = screen.full /\ z = screen.size)
      BY <2>9, <3>1
    <3>3. UNCHANGED <<page, grid, unpainted>>
      BY <1>1, <2>9, VtReceived DEF front
    <3>4. CASE Quiet(d, z, f, g)
      <4>1. /\ screen'.base = screen.base /\ screen'.full = f /\ screen'.size = z
            /\ gate'.next = gate.next /\ wire' = wire
        BY <3>4 DEF Quiet
      <4>2. Fitting => Fitting'
        BY <3>2, <3>3, <4>1 DEF Fits
      <4> QED BY <2>1, <2>2, <3>3, <4>2 DEF Showing
    <3>5. CASE Emits(d, z, f, g)
      <4>1. PICK t \in Frames : t = NewFrame(d, z, f)
        BY <3>1
      <4>2. /\ screen'.base = d /\ screen'.full = FALSE /\ screen'.size = z
            /\ gate'.next = gate.next + 1 /\ wire' = Append(wire, t)
        BY <3>5, <4>1 DEF Emits
      <4>3. t.seq = gate.next /\ t.full = f /\ t.base = screen.base /\ t.upto = d /\ t.size = z
        BY <4>1 DEF NewFrame
      <4>4. wire = <<>> /\ page.held = <<>>
        <5>1. TypeOK' /\ FramesCounted'
          BY <1>1, TypeStep, FramesStep
        <5>2. Len(wire') = Len(wire) + 1 /\ Len(wire) \in Nat
          BY <1>1, <4>2, AppendProperties
        <5>3. wire' # wire
          BY <5>2
        <5> QED BY <1>4, <2>9, <5>1, <5>3, VtCredit
      <4>5. gate'.next > 0 /\ gate'.next # 0
        BY <1>1, <4>2
      <4>6. DOMAIN wire' = {1} /\ wire'[1] = t
        <5>1. wire' = <<t>>
          BY <4>2, <4>4
        <5> QED BY <5>1
      <4>7. ASSUME Fitting PROVE Fits(t)'
        <5>1. t.upto = screen'.base /\ t.size = screen'.size
          BY <4>2, <4>3
        <5>2. t.seq >= page'.expected
          BY <1>1, <3>3, <4>3 DEF SeqsArePast
        <5>3. t.full \/ (t.base = grid'.version /\ t.size = grid'.size)
          <6>1. ~f => screen.full = FALSE /\ z = screen.size
            BY <1>1, <3>2
          <6>2. ~f => gate.next > 0
            BY <1>1, <4>7, <6>1
          <6> QED BY <3>3, <4>3, <4>4, <4>7, <6>1, <6>2
        <5> QED BY <5>1, <5>2, <5>3 DEF Fits
      <4>8. Fitting => Fitting'
        <5>1. page'.held = <<>> /\ DOMAIN <<>> = {} /\ wire' # <<>>
          BY <3>3, <4>4, <4>6
        <5> QED BY <4>5, <4>6, <4>7, <5>1
      <4> QED BY <2>1, <2>2, <3>3, <4>8 DEF Showing
    <3> QED BY <3>1, <3>4, <3>5 DEF Draws
  <2>10. ASSUME NEW f \in Frames, NEW p, Applied(f, p), Fits(f), Fitting, wire' = <<>>,
                page'.held = <<>>, UNCHANGED <<screen, gate>>
         PROVE  FramesFit' /\ ScreenIsWhole'
    <3>1. grid' = Shown(grid, f)
      BY <2>10 DEF Applied
    <3>2. /\ grid'.version = f.upto /\ grid'.size = f.size
          /\ grid'.whole <=> f.full \/ (grid.whole /\ f.size = grid.size /\ f.base = grid.version)
      BY <3>1 DEF Shown
    <3>3. grid'.whole /\ grid'.version = screen.base /\ (~screen.full => grid'.size = screen.size)
      BY <2>1, <2>10, <3>2 DEF Fits
    <3>4. Fitting'
      BY <2>10, <3>3
    <3> QED BY <2>2, <3>3, <3>4
  <2>11. CASE Dispatches
    <3>1. /\ wire # <<>> /\ wire' = Tail(wire) /\ Head(wire) \in Frames /\ Head(wire) = wire[1]
          /\ 1 \in DOMAIN wire /\ UNCHANGED <<screen, gate>> /\ (Loses \/ Holds \/ ShowsNow)
      BY <1>1, <2>11, DispatchCases DEF native
    <3>2. wire' = <<>> /\ page.held = <<>>
      <4>1. Len(wire) = 1 /\ page.held = <<>>
        BY <1>4, <3>1, InFlightAlone
      <4>2. wire' \in Seq(Frames) /\ Len(wire') = 0
        BY <1>1, <3>1, <4>1, Popped
      <4> QED BY <4>1, <4>2, EmptySeq
    <3>3. CASE Loses
      <4>1. UNCHANGED <<page, grid>>
        BY <3>3 DEF Loses, front
      <4>2. ~Showing'
        BY <1>1, <1>4, <3>3, <4>1 DEF Loses, Showing, PhasesApart
      <4> QED BY <2>4, <4>1, <4>2
    <3>4. CASE Holds
      <4>1. /\ page'.held = Append(page.held, Head(wire)) /\ page'.phase = page.phase
            /\ page'.expected = page.expected
        BY <1>1, <3>4, PageMoves DEF Paged
      <4>2. grid' = grid
        BY <3>4 DEF Holds
      <4>3. page'.held = <<Head(wire)>>
        BY <3>2, <4>1
      <4>4. PICK t \in Frames : t = Head(wire)
        BY <3>1
      <4>5. DOMAIN page'.held = {1} /\ page'.held[1] = t /\ page'.held # <<>>
        BY <4>3, <4>4
      <4>6. ASSUME Fitting PROVE Fitting'
        <5>1. Fits(t)
          BY <3>1, <4>4, <4>6
        <5>2. Fits(t)'
          BY <3>1, <4>1, <4>2, <5>1 DEF Fits
        <5> QED BY <3>1, <3>2, <4>5, <4>6, <5>2
      <4> QED BY <2>1, <2>2, <4>1, <4>2, <4>6 DEF Showing
    <3>5. CASE ShowsNow
      <4>1. page.phase = "live" /\ Showing
        BY <1>1, <1>4, <3>5 DEF ShowsNow, Showing, PhasesApart
      <4>2. Fitting /\ Fits(Head(wire))
        BY <2>1, <3>1, <4>1
      <4>3. Applied(Head(wire), page)
        <5>1. Head(wire).seq >= page.expected /\ Head(wire).seq \in Nat
          BY <3>1, <4>2 DEF Fits, Frames, Seqs
        <5>2. ~(Head(wire).seq < page.expected)
          BY <1>1, <5>1
        <5> QED BY <3>5, <5>2 DEF ShowsNow, ShowsOn
      <4>4. page'.held = <<>>
        BY <1>1, <3>2, <4>3, PageMoves DEF Paged
      <4> QED BY <2>10, <3>1, <3>2, <4>2, <4>3, <4>4
    <3> QED BY <3>1, <3>3, <3>4, <3>5
  <2>12. CASE StartReturns
    <3>1. /\ page.phase = "starting" /\ UNCHANGED <<screen, gate, wire>>
          /\ \/ page.held = <<>> /\ Stands(Started)
             \/ /\ page.held = <<page.held[1]>> /\ page.held[1] \in Frames
                /\ ShowsOn(page.held[1], Started)
      BY <1>1, <2>12, StartCases DEF native
    <3>2. Fitting /\ Showing
      BY <2>1, <3>1 DEF Showing
    <3>3. Started = Paged("live", page.listening, <<>>, page.expected, page.wanted)
      BY <1>1, PageMoves
    <3>4. CASE page.held = <<>> /\ Stands(Started)
      <4>1. grid' = grid /\ page'.held = page.held /\ page'.expected = page.expected
        BY <3>3, <3>4 DEF Stands, Paged
      <4> QED BY <2>3, <3>1, <3>2, <4>1
    <3>5. CASE page.held = <<page.held[1]>> /\ page.held[1] \in Frames /\ ShowsOn(page.held[1], Started)
      <4>1. page.held # <<>> /\ 1 \in DOMAIN page.held
        <5>1. DOMAIN <<page.held[1]>> = {1}
          OBVIOUS
        <5> QED BY <3>5, <5>1
      <4>2. wire' = <<>>
        BY <1>4, <3>1, <4>1, InFlightAlone
      <4>3. Fits(page.held[1])
        BY <3>2, <4>1
      <4>4. Applied(page.held[1], Started)
        <5>1. /\ page.held[1].seq >= page.expected
              /\ page.held[1].seq \in Nat /\ Started.expected = page.expected
          BY <3>3, <3>5, <4>3 DEF Fits, Frames, Seqs, Paged
        <5>2. ~(page.held[1].seq < Started.expected)
          BY <1>1, <5>1
        <5> QED BY <3>5, <5>2 DEF ShowsOn
      <4>5. page'.held = <<>>
        BY <1>1, <4>4, PageMoves DEF Paged
      <4> QED BY <2>10, <3>1, <3>2, <3>5, <4>2, <4>3, <4>4, <4>5
    <3> QED BY <3>1, <3>4, <3>5
  <2>13. Attaches \/ Attached => page.attach
    BY <1>1 DEF Attaches, Attached, PhasesApart
  <2> QED
    BY <1>1, <1>4, <2>5, <2>6, <2>7, <2>8, <2>9, <2>11, <2>12, <2>13, OutdoorSteps
<1> QED BY <1>3, <1>4

-----------------------------------------------------------------------------
(* The theorems *)

(* A session that begins has nothing read, sent, drawn or in flight.        *)
LEMMA InitInv == Init => IInv
<1> SUFFICES ASSUME Init PROVE IInv
  OBVIOUS
<1>1. /\ <<>> \in Seq(ChunkSizes) /\ <<>> \in Seq(Commanded) /\ <<>> \in Seq(Frames)
      /\ DOMAIN <<>> = {} /\ Len(<<>>) = 0
  BY EmptySeq
<1>2. PICK attach \in Attachments :
         page = [attach |-> attach, phase |-> IF attach THEN "unaware" ELSE "starting",
                 listening |-> ~attach, held |-> <<>>, expected |-> 0, wanted |-> 0]
  BY DEF Init
<1>3. /\ page.attach \in BOOLEAN /\ page.listening \in BOOLEAN
      /\ page.held = <<>> /\ page.expected = 0 /\ page.wanted = 0
      /\ page.phase = IF page.attach THEN "unaware" ELSE "starting"
      /\ page.listening = ~page.attach
      /\ page = [attach |-> page.attach, phase |-> page.phase, listening |-> page.listening,
                 held |-> <<>>, expected |-> 0, wanted |-> 0]
  <2>1. attach \in BOOLEAN /\ (~attach) \in BOOLEAN
    BY ModesAreBoolean
  <2>2. page.attach = attach /\ page.listening = ~attach
    BY <1>2
  <2>3. page.held = <<>> /\ page.expected = 0 /\ page.wanted = 0
    BY <1>2
  <2>4. page.phase = IF attach THEN "unaware" ELSE "starting"
    BY <1>2
  <2> QED BY <1>2, <2>1, <2>2, <2>3, <2>4
<1>4. /\ 0 \in Seqs /\ 0 \in Sizes /\ 0 \in 0..MaxChunks /\ 0 \in 0..MaxKeys
  BY BoundsAreNat DEF Seqs, Sizes
<1>5. TypeOK
  <2>1. page.phase \in Phases
    BY <1>3 DEF Phases
  <2>2. page \in [attach : BOOLEAN, phase : Phases, listening : BOOLEAN, held : Seq(Frames),
                  expected : Seqs, wanted : Sizes]
    BY <1>1, <1>3, <1>4, <2>1
  <2>3. /\ pty \in Seq(ChunkSizes) /\ chan \in Seq(Commanded) /\ wire \in Seq(Frames)
        /\ calls \subseteq Called
    BY <1>1 DEF Init
  <2>4. /\ reader \in [pc : {"waiting", "reading", "sending", "done"}, bytes : ChunkSizes \cup {0}]
        /\ flow \in [unacked : Nat, paused : BOOLEAN, cancelled : BOOLEAN]
    BY DEF Init
  <2>5. /\ screen \in [drawn : 0..MaxChunks, base : 0..MaxChunks, full : BOOLEAN, size : Sizes]
        /\ gate \in [next : Seqs, awaiting : BOOLEAN]
    BY <1>4 DEF Init
  <2>6. teardown \in [pc : {"none", "removed", "killed", "cancelled", "joining", "over"},
                      join : BOOLEAN]
    BY DEF Init
  <2>7. grid \in [version : 0..MaxChunks, size : Sizes \cup {None}, whole : BOOLEAN]
    BY <1>4 DEF Init
  <2>8. /\ child \in {"running", "exited", "reaped"} /\ vt \in {"starting", "running", "gone"}
        /\ ptySize \in Sizes /\ listed \in BOOLEAN /\ unpainted \in Seqs \cup {None}
        /\ key \in {"idle", "waiting"} /\ written \in 0..MaxChunks /\ keys \in 0..MaxKeys
    BY <1>4 DEF Init
  <2> QED BY <2>2, <2>3, <2>4, <2>5, <2>6, <2>7, <2>8 DEF TypeOK
<1>6. PhasesApart
  BY <1>3 DEF PhasesApart
<1>7. SendsWhatWasRead /\ KeyIsAnswered /\ PaintIsLive /\ ShownIsListed /\ ScreenIsWhole
  BY DEF Init, SendsWhatWasRead, KeyIsAnswered, PaintIsLive, ShownIsListed, ScreenIsWhole
<1>8. SeqsArePast
  BY <1>1, <1>3 DEF Init, SeqsArePast
<1>9. IsFiniteSet(calls) /\ CallsOf(calls, "resize") = {} /\ CallsOf(calls, "ack") = {}
      /\ Cardinality({}) = 0
  BY FS_EmptySet DEF Init, CallsOf
<1>10. /\ Count(chan, "feed") = 0 /\ Count(chan, "resize") = 0 /\ Count(chan, "ack") = 0
       /\ Cardinality(Bytes(chan)) = 0 /\ AckSeqs(chan) = {}
  BY <1>1, Emptied DEF Init, AckSeqs, Indexes
<1>11. ChunksCounted
  BY <1>1, <1>10 DEF Init, ChunksCounted
<1>12. FramesCounted
  <2>1. /\ gate.next = 0 /\ screen.full = TRUE /\ screen.drawn = 0 /\ page.wanted = 0
        /\ ~(page.attach /\ page.phase \in {"live", "closed", "gone"})
    BY <1>3 DEF Init
  <2> QED BY <1>9, <1>10, <2>1 DEF FramesCounted
<1>13. FlowConserved
  BY <1>10 DEF Init, FlowConserved, Queued
<1>14. Tokens = 0
  <2>1. wire = <<>> /\ unpainted = None
    BY DEF Init
  <2>2. Len(wire) = 0 /\ Len(page.held) = 0
    BY <1>1, <1>3, <2>1
  <2>3. Due(unpainted) = 0
    BY <2>1 DEF Due
  <2>4. AckCalls(calls) = 0
    BY <1>9 DEF AckCalls
  <2> QED BY <1>10, <2>2, <2>3, <2>4 DEF Tokens, Total
<1>15. Credits = {}
  BY <1>3, <1>9, <1>10 DEF Init, Credits, Seen, SeqsOf
<1>16. CreditIsOne /\ CreditIsNewest
  BY <1>14, <1>15 DEF Init, CreditIsOne, CreditIsNewest
<1>17. FramesFit
  BY <1>1, <1>3 DEF Init, FramesFit
<1> QED
  BY <1>5, <1>6, <1>7, <1>8, <1>11, <1>12, <1>13, <1>16, <1>17 DEF IInv

(* Every step keeps the invariant.                                          *)
LEMMA StepInv == IInv /\ [Next]_vars => IInv'
<1> SUFFICES ASSUME IInv, [Next]_vars PROVE IInv'
  OBVIOUS
<1>1. /\ TypeOK /\ SendsWhatWasRead /\ PhasesApart /\ SeqsArePast /\ ChunksCounted /\ FramesCounted
      /\ FlowConserved /\ KeyIsAnswered /\ CreditIsOne /\ PaintIsLive /\ ShownIsListed
  BY DEF IInv
<1>2. TypeOK' /\ SendsWhatWasRead' /\ PhasesApart' /\ SeqsArePast' /\ ChunksCounted' /\ FramesCounted'
  BY <1>1, TypeStep, ReadStep, PhasesStep, SeqsStep, ChunksStep, FramesStep
<1>3. FlowConserved' /\ KeyIsAnswered'
  BY <1>1, FlowStep, KeyStep
<1>4. CreditIsOne' /\ CreditIsNewest'
  BY <1>2, CreditStep
<1>5. PaintIsLive' /\ ShownIsListed'
  BY <1>1, PaintStep, ListedStep
<1>6. FramesFit' /\ ScreenIsWhole'
  BY FitStep
<1> QED BY <1>2, <1>3, <1>4, <1>5, <1>6 DEF IInv

(* So it always holds.                                                      *)
LEMMA AlwaysInv == Spec => []IInv
BY InitInv, StepInv, PTL DEF Spec

(* The invariant puts the credit where the property looks for it.           *)
LEMMA CreditIsThere == IInv => CreditAccounted
<1> SUFFICES ASSUME IInv, ~page.attach PROVE CreditOnItsWay /\ OneFrameInFlight
  BY DEF CreditAccounted
<1>1. /\ wire \in Seq(Frames) /\ page.held \in Seq(Frames) /\ chan \in Seq(Commanded)
      /\ IsFiniteSet(calls) /\ gate.next \in Nat
      /\ calls \subseteq Called
  BY DEF IInv, TypeOK, FramesCounted, Seqs
<1> DEFINE w == Len(wire)  h == Len(page.held)  u == Due(unpainted)  a == AckCalls(calls)
           c == Count(chan, "ack")
<1>2. w \in Nat /\ h \in Nat /\ u \in Nat /\ a \in Nat /\ c \in Nat
  BY <1>1, TotalIs
<1>3. Tokens = w + h + u + a + c /\ w + h + u + a + c <= 1
  BY DEF IInv, CreditIsOne, Tokens, Total
<1>4. OneFrameInFlight
  <2>1. w + h + u <= 1
    <3> HIDE DEF w, h, u, a, c
    <3> QED BY <1>2, <1>3
  <2> QED BY <2>1 DEF OneFrameInFlight, Due
<1>5. ASSUME vt = "running", gate.awaiting, Showing
      PROVE  \/ \E i \in DOMAIN wire : wire[i].seq = Newest
             \/ \E i \in DOMAIN page.held : page.held[i].seq = Newest
             \/ unpainted = Newest
             \/ \E d \in calls : d.op = "ack" /\ d.seq >= Newest
             \/ \E i \in DOMAIN chan : chan[i].op = "ack" /\ chan[i].seq >= Newest
  <2>1. Credits \subseteq {Newest}
    BY DEF IInv, CreditIsNewest
  <2>2. Tokens = 1
    BY <1>5 DEF IInv, CreditIsOne
  <2>3. w # 0 \/ h # 0 \/ u # 0 \/ a # 0 \/ c # 0
    <3> HIDE DEF w, h, u, a, c
    <3> QED BY <1>2, <1>3, <2>2
  <2>4. Newest >= Newest
    BY <1>1 DEF Newest
  <2>5. CASE w # 0
    <3>1. 1 \in DOMAIN wire
      BY <1>1, <2>5, LenProperties
    <3> QED BY <2>1, <3>1 DEF Credits, Seen, SeqsOf
  <2>6. CASE h # 0
    <3>1. 1 \in DOMAIN page.held
      BY <1>1, <2>6, LenProperties
    <3> QED BY <2>1, <3>1 DEF Credits, Seen, SeqsOf
  <2>7. CASE u # 0
    <3>1. unpainted # None
      BY <2>7 DEF Due
    <3> QED BY <2>1, <3>1 DEF Credits, Seen
  <2>8. CASE a # 0
    <3>1. CallsOf(calls, "ack") # {}
      BY <1>1, <2>8, TotalIs
    <3>2. PICK d \in calls : d.op = "ack"
      BY <3>1 DEF CallsOf
    <3>3. d.seq = Newest
      BY <2>1, <3>2 DEF Credits, Seen, CallsOf
    <3> QED BY <2>4, <3>2, <3>3
  <2>9. CASE c # 0
    <3>1. Indexes(chan, "ack") # {}
      BY <2>9, FS_EmptySet DEF Count
    <3>2. PICK i \in DOMAIN chan : chan[i].op = "ack"
      BY <3>1 DEF Indexes
    <3>3. chan[i].seq = Newest
      BY <2>1, <3>2 DEF Credits, Seen, AckSeqs, Indexes
    <3> QED BY <2>4, <3>2, <3>3
  <2> QED BY <2>3, <2>5, <2>6, <2>7, <2>8, <2>9
<1> QED BY <1>4, <1>5 DEF CreditOnItsWay

(* Every variable of a session keeps its type: the channels hold only       *)
(* commands that exist, and a sequence number stays within the frames there *)
(* is a reason for.                                                         *)
THEOREM TypeCorrect == Spec => []TypeOK
<1>1. IInv => TypeOK
  BY DEF IInv
<1> QED BY <1>1, AlwaysInv, PTL

(* FlowControl counts exactly the bytes between the reader and the vt       *)
(* thread, whatever the sizes and the marks, and a paused reader always has *)
(* more than the low mark ahead of it, whose feeding wakes it.              *)
THEOREM FlowIsConserved == Spec => []FlowConserved
<1>1. IInv => FlowConserved
  BY DEF IInv
<1> QED BY <1>1, AlwaysInv, PTL

(* A key press that waits for the modes has its request before a vt thread  *)
(* that runs; one that ends answers it by dropping its channel.             *)
THEOREM KeysAreAnswered == Spec => []KeyIsAnswered
<1>1. IInv => KeyIsAnswered
  BY DEF IInv
<1> QED BY <1>1, AlwaysInv, PTL

(* The one credit of FrameEmitGate is in exactly one place on its way       *)
(* through the event, the held frames, the paint, the command and the       *)
(* channel: no ack is lost that would freeze a pane, and no second frame is *)
(* emitted before the first is painted.                                     *)
THEOREM CreditIsAccounted == Spec => []CreditAccounted
<1> QED BY AlwaysInv, CreditIsThere, PTL

(* A pane that opened its session applies a partial frame only to the       *)
(* screen and size it was computed from, whatever is coalesced or held.     *)
THEOREM ScreenStaysWhole == Spec => []ScreenIsWhole
<1>1. IInv => ScreenIsWhole
  BY DEF IInv
<1> QED BY <1>1, AlwaysInv, PTL
=============================================================================
