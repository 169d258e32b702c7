---------------------------- MODULE RspLinkProofs ----------------------------
(***************************************************************************)
(* The link between GDB and the packet handlers, for queues and buffers of *)
(* any size, any letters, and any number of commands and of faults.        *)
(***************************************************************************)
EXTENDS RspLink, SequenceTheorems, TLAPS

---------------------------------------------------------------------------
(* Bytes on their way to the reader.                                       *)

Char == 0 .. 255

Free(s)   == \A i \in 1 .. Len(s) : s[i] # Dollar
Single(s) == \A i, j \in 1 .. Len(s) : s[i] = Dollar /\ s[j] = Dollar => i = j

LEMMA TailStart ==
    ASSUME NEW s \in Seq(Char), s # <<>>
    PROVE  /\ Head(s) = s[1] /\ Head(s) \in Char /\ Tail(s) \in Seq(Char)
           /\ Len(s) > 0 /\ Len(Tail(s)) = Len(s) - 1
           /\ Free(s) => Free(Tail(s)) /\ Head(s) # Dollar
           /\ Single(s) => Single(Tail(s))
           /\ Single(s) /\ Head(s) = Dollar => Free(Tail(s))
<1>1. /\ Len(s) \in Nat /\ Len(s) > 0 /\ Head(s) = s[1] /\ Head(s) \in Char /\ Tail(s) \in Seq(Char)
      /\ Len(Tail(s)) = Len(s) - 1
      /\ \A i \in 1 .. Len(s) - 1 : Tail(s)[i] = s[i + 1]
  OBVIOUS
<1> DEFINE t == Tail(s)
<1> HIDE DEF t
<1>2. \A i \in 1 .. Len(t) : i + 1 \in 1 .. Len(s) /\ t[i] = s[i + 1]
  BY <1>1 DEF t
<1>3. Free(s) => Free(t) /\ s[1] # Dollar
  BY <1>1, <1>2 DEF Free
<1>4. Single(s) => Single(t)
  <2> SUFFICES ASSUME Single(s), NEW i \in 1 .. Len(t), NEW k \in 1 .. Len(t),
                      t[i] = Dollar, t[k] = Dollar
               PROVE  i = k
    BY DEF Single
  <2>1. s[i + 1] = Dollar /\ s[k + 1] = Dollar /\ i + 1 \in 1 .. Len(s) /\ k + 1 \in 1 .. Len(s)
    BY <1>2
  <2>2. i + 1 = k + 1
    BY <2>1 DEF Single
  <2> QED
    BY <2>2
<1>5. Single(s) /\ s[1] = Dollar => Free(t)
  BY <1>1, <1>2 DEF Single, Free
<1> QED
  BY <1>1, <1>3, <1>4, <1>5 DEF t

LEMMA AppendStart ==
    ASSUME NEW s \in Seq(Char), NEW b \in Char
    PROVE  /\ Append(s, b) \in Seq(Char) /\ Len(Append(s, b)) = Len(s) + 1
           /\ s = <<>> => Append(s, b)[1] = b
           /\ s # <<>> => Append(s, b)[1] = s[1]
           /\ Free(s) => Single(Append(s, b))
           /\ Free(s) /\ b # Dollar => Free(Append(s, b))
           /\ Single(s) /\ b # Dollar => Single(Append(s, b))
<1> DEFINE t == Append(s, b)
<1>1. /\ t \in Seq(Char) /\ Len(t) = Len(s) + 1 /\ Len(s) \in Nat
      /\ \A i \in 1 .. Len(s) : t[i] = s[i]
      /\ t[Len(s) + 1] = b
  BY AppendProperties
<1> HIDE DEF t
<1>2. (s = <<>> => t[1] = b) /\ (s # <<>> => t[1] = s[1])
  <2>1. s # <<>> => 1 \in 1 .. Len(s)
    BY <1>1
  <2> QED
    BY <1>1, <2>1
<1>3. \A i \in 1 .. Len(t) : i \in 1 .. Len(s) \/ i = Len(s) + 1
  BY <1>1
<1>4. Free(s) => Single(t)
  BY <1>1, <1>3 DEF Free, Single
<1>5. Free(s) /\ b # Dollar => Free(t)
  BY <1>1, <1>3 DEF Free
<1>6. Single(s) /\ b # Dollar => Single(t)
  BY <1>1, <1>3 DEF Single
<1> QED
  BY <1>1, <1>2, <1>4, <1>5, <1>6 DEF t

\* A queue is cut in two.
LEMMA CutStart ==
    ASSUME NEW s \in Seq(Char), s # <<>>, NEW n \in 1 .. Len(s)
    PROVE  LET a == SubSeq(s, 1, n)
               z == SubSeq(s, n + 1, Len(s))
           IN  /\ a \in Seq(Char) /\ z \in Seq(Char) /\ a # <<>> /\ a[1] = s[1]
               /\ Len(a) = n /\ Len(z) = Len(s) - n
               /\ Free(s) => Free(a) /\ Free(z)
               /\ Single(s) => Single(a) /\ Single(z) /\ (Free(a) \/ Free(z))
<1> DEFINE a == SubSeq(s, 1, n)
           z == SubSeq(s, n + 1, Len(s))
<1>1. Len(s) \in Nat /\ n \in 1 .. Len(s)
  OBVIOUS
<1>2. a \in Seq(Char) /\ Len(a) = n /\ \A i \in 1 .. Len(a) : i \in 1 .. Len(s) /\ a[i] = s[i]
  BY <1>1, SubSeqProperties
<1>3. /\ z \in Seq(Char) /\ Len(z) = Len(s) - n
      /\ \A i \in 1 .. Len(z) : n + i \in 1 .. Len(s) /\ z[i] = s[n + i]
  <2>1. n + 1 \in 1 .. Len(s) + 1 /\ Len(s) \in n .. Len(s)
    BY <1>1
  <2> QED
    BY <1>1, <2>1, SubSeqProperties
<1> HIDE DEF a, z
<1>4. a # <<>> /\ a[1] = s[1]
  BY <1>1, <1>2
<1>5. Free(s) => Free(a) /\ Free(z)
  BY <1>2, <1>3 DEF Free
<1>6. Single(s) => Single(a) /\ Single(z)
  <2>1. Single(s) => Single(a)
    BY <1>2 DEF Single
  <2>2. SUFFICES ASSUME Single(s), NEW i \in 1 .. Len(z), NEW k \in 1 .. Len(z),
                        z[i] = Dollar, z[k] = Dollar
                 PROVE  i = k
    BY <2>1 DEF Single
  <2>3. s[n + i] = Dollar /\ s[n + k] = Dollar /\ n + i \in 1 .. Len(s) /\ n + k \in 1 .. Len(s)
    BY <1>3, <2>2
  <2>4. n + i = n + k
    BY <2>2, <2>3 DEF Single
  <2> QED
    BY <1>1, <2>4
<1>7. Single(s) => Free(a) \/ Free(z)
  <2> SUFFICES ASSUME Single(s), NEW i \in 1 .. Len(a), a[i] = Dollar,
                      NEW k \in 1 .. Len(z), z[k] = Dollar
               PROVE  FALSE
    BY DEF Free
  <2>1. s[i] = Dollar /\ i \in 1 .. Len(s)
    BY <1>2
  <2>2. s[n + k] = Dollar /\ n + k \in 1 .. Len(s)
    BY <1>3
  <2>3. i = n + k
    BY <2>1, <2>2 DEF Single
  <2> QED
    BY <1>1, <1>2, <1>3, <2>3
<1> QED
  BY <1>2, <1>3, <1>4, <1>5, <1>6, <1>7 DEF a, z

---------------------------------------------------------------------------
(* Messages on the network.                                                *)

Messages == Seq(Seq(Char))

NetFree(n) == \A m \in 1 .. Len(n) : Free(n[m])
NetSingle(n) ==
    /\ \A m \in 1 .. Len(n) : Single(n[m])
    /\ \A m, k \in 1 .. Len(n) : Free(n[m]) \/ Free(n[k]) \/ m = k

LEMMA FreeSingle == \A s : Free(s) => Single(s)
  BY DEF Free, Single

LEMMA NetHead ==
    ASSUME NEW n \in Messages, n # <<>>
    PROVE  /\ Head(n) = n[1] /\ Head(n) \in Seq(Char) /\ Tail(n) \in Messages
           /\ NetFree(n) => Free(Head(n)) /\ NetFree(Tail(n))
           /\ NetSingle(n) => /\ Single(Head(n)) /\ NetSingle(Tail(n))
                              /\ Free(Head(n)) \/ NetFree(Tail(n))
<1> DEFINE t == Tail(n)
<1>1. /\ Len(n) \in Nat /\ Len(n) > 0 /\ Head(n) = n[1] /\ Head(n) \in Seq(Char)
      /\ t \in Messages /\ Len(t) = Len(n) - 1
      /\ \A i \in 1 .. Len(n) - 1 : t[i] = n[i + 1]
  BY HeadTailProperties DEF Messages
<1> HIDE DEF t
<1>2. \A i \in 1 .. Len(t) : i + 1 \in 1 .. Len(n) /\ i + 1 # 1 /\ t[i] = n[i + 1]
  BY <1>1
<1>3. NetFree(n) => Free(n[1]) /\ NetFree(t)
  BY <1>1, <1>2 DEF NetFree
<1>4. ASSUME NetSingle(n)
      PROVE  Single(n[1]) /\ NetSingle(t) /\ (Free(n[1]) \/ NetFree(t))
  <2>0. 1 \in 1 .. Len(n)
    BY <1>1
  <2>1. Single(n[1])
    BY <1>4, <2>0 DEF NetSingle
  <2>2. ASSUME NEW i \in 1 .. Len(t), NEW k \in 1 .. Len(t)
        PROVE  Single(t[i]) /\ (Free(t[i]) \/ Free(t[k]) \/ i = k)
    <3>1. i + 1 \in 1 .. Len(n) /\ k + 1 \in 1 .. Len(n) /\ t[i] = n[i + 1] /\ t[k] = n[k + 1]
      BY <1>2
    <3>2. Free(n[i + 1]) \/ Free(n[k + 1]) \/ i + 1 = k + 1
      BY <1>4, <3>1 DEF NetSingle
    <3>3. i + 1 = k + 1 => i = k
      OBVIOUS
    <3> QED
      BY <1>4, <3>1, <3>2, <3>3 DEF NetSingle
  <2>3. ASSUME NEW k \in 1 .. Len(t) PROVE Free(n[1]) \/ Free(t[k])
    <3>1. k + 1 \in 1 .. Len(n) /\ t[k] = n[k + 1] /\ k + 1 # 1
      BY <1>2
    <3> QED
      BY <1>4, <2>0, <3>1 DEF NetSingle
  <2> QED
    BY <2>1, <2>2, <2>3 DEF NetSingle, NetFree
<1> QED
  BY <1>1, <1>3, <1>4 DEF t

\* Messages s follow messages n.
LEMMA NetExtend ==
    ASSUME NEW n \in Messages, NEW s \in Messages
    PROVE  /\ n \o s \in Messages
           /\ n = <<>> /\ s # <<>> => (n \o s)[1] = s[1]
           /\ n = <<>> /\ s # <<>> => n \o s # <<>>
           /\ NetFree(n) /\ NetFree(s) => NetFree(n \o s)
           /\ NetFree(n) /\ NetSingle(s) => NetSingle(n \o s)
           /\ NetSingle(n) /\ NetFree(s) => NetSingle(n \o s)
<1> DEFINE t == n \o s
<1>1. /\ Len(n) \in Nat /\ Len(s) \in Nat
      /\ t \in Messages /\ Len(t) = Len(n) + Len(s)
      /\ \A i \in 1 .. Len(n) : t[i] = n[i]
      /\ \A i \in 1 .. Len(s) : t[Len(n) + i] = s[i]
  BY ConcatProperties DEF Messages
<1>2. n = <<>> /\ s # <<>> => t = s
  BY DEF Messages
<1> HIDE DEF t
<1>3. ASSUME NEW m \in 1 .. Len(t)
      PROVE  \/ m \in 1 .. Len(n) /\ t[m] = n[m]
             \/ \E i \in 1 .. Len(s) : m = Len(n) + i /\ t[m] = s[i]
  <2>1. CASE m <= Len(n)
    BY <1>1, <2>1
  <2>2. CASE m > Len(n)
    <3>1. m - Len(n) \in 1 .. Len(s) /\ m = Len(n) + (m - Len(n))
      BY <1>1, <2>2
    <3> QED
      BY <1>1, <3>1
  <2> QED
    BY <1>1, <2>1, <2>2
<1>4. NetFree(n) /\ NetFree(s) => NetFree(t)
  BY <1>3 DEF NetFree
<1>5. ASSUME (NetFree(n) /\ NetSingle(s)) \/ (NetSingle(n) /\ NetFree(s))
      PROVE  NetSingle(t)
  <2>1. ASSUME NEW m \in 1 .. Len(t) PROVE Single(t[m])
    BY <1>3, <1>5, FreeSingle DEF NetFree, NetSingle
  <2>2. ASSUME NEW m \in 1 .. Len(t), NEW k \in 1 .. Len(t), ~Free(t[m]), ~Free(t[k])
        PROVE  m = k
    <3>1. CASE NetFree(n) /\ NetSingle(s)
      <4>1. PICK i \in 1 .. Len(s) : m = Len(n) + i /\ t[m] = s[i]
        BY <1>3, <2>2, <3>1 DEF NetFree
      <4>2. PICK j \in 1 .. Len(s) : k = Len(n) + j /\ t[k] = s[j]
        BY <1>3, <2>2, <3>1 DEF NetFree
      <4>3. i = j
        BY <2>2, <3>1, <4>1, <4>2 DEF NetSingle
      <4> QED
        BY <4>1, <4>2, <4>3
    <3>2. CASE NetSingle(n) /\ NetFree(s)
      <4>1. m \in 1 .. Len(n) /\ t[m] = n[m]
        BY <1>3, <2>2, <3>2 DEF NetFree
      <4>2. k \in 1 .. Len(n) /\ t[k] = n[k]
        BY <1>3, <2>2, <3>2 DEF NetFree
      <4> QED
        BY <2>2, <3>2, <4>1, <4>2 DEF NetSingle
    <3> QED
      BY <1>5, <3>1, <3>2
  <2> QED
    BY <2>1, <2>2 DEF NetSingle
<1>6. n = <<>> /\ s # <<>> => t[1] = s[1] /\ t # <<>>
  BY <1>2
<1>7. t \in Messages
  BY <1>1
<1>8. (NetFree(n) /\ NetSingle(s) => NetSingle(t)) /\ (NetSingle(n) /\ NetFree(s) => NetSingle(t))
  BY <1>5
<1> QED
  BY <1>4, <1>6, <1>7, <1>8 DEF t

\* GDB's packets: one start, in front.
LEMMA FrameStart ==
    ASSUME NEW op \in Ops
    PROVE  LET F == Frame(op)
           IN  /\ F \in Seq(Char) /\ Len(F) = 5 /\ F[1] = Dollar
               /\ \A i \in 2 .. 5 : F[i] # Dollar
<1>1. op \in 97 .. 122
  BY LinkAssumption
<1>2. op \div 16 \in 6 .. 7 /\ op % 16 \in 0 .. 15
  BY <1>1
<1>3. /\ HexChar(op \div 16) \in Char /\ HexChar(op \div 16) # Dollar
      /\ HexChar(op % 16) \in Char /\ HexChar(op % 16) # Dollar
  BY <1>2 DEF HexChar, Char, Dollar
<1> DEFINE a == HexChar(op \div 16)
           b == HexChar(op % 16)
<1> HIDE DEF a, b
<1>4. Frame(op) = <<36, op, 35, a, b>>
  BY DEF Frame, Dollar, Hash, a, b
<1>5. a \in Char /\ a # 36 /\ b \in Char /\ b # 36 /\ op \in Char /\ op # 36
  BY <1>1, <1>3 DEF Char, Dollar, a, b
<1> QED
  BY <1>4, <1>5 DEF Char, Dollar

LEMMA TransmitStart ==
    ASSUME NEW op \in Ops, Transmit(op), net \in Messages
    PROVE  /\ net' \in Messages
           /\ NetFree(net) => NetSingle(net')
           /\ net = <<>> => net' # <<>> /\ net'[1] # <<>> /\ net'[1][1] = Dollar
<1> DEFINE F == Frame(op)
           a == SubSeq(F, 1, 2)
           z == SubSeq(F, 3, 5)
<1>1. F \in Seq(Char) /\ Len(F) = 5 /\ F[1] = Dollar /\ \A i \in 2 .. 5 : F[i] # Dollar
  BY FrameStart
<1> HIDE DEF F
<1>2. \A i \in 1 .. 5 : F[i] \in Char
  BY <1>1, ElementOfSeq
<1>3. a \in Seq(Char) /\ Len(a) = 2 /\ a[1] = F[1] /\ a[2] = F[2]
  <2>1. a \in Seq(Char) /\ Len(a) = 2 /\ \A i \in 1 .. 2 - 1 + 1 : a[i] = F[1 + i - 1]
    BY <1>2, SubSeqProperties
  <2> HIDE DEF a
  <2> QED
    BY <2>1
<1>4. z \in Seq(Char) /\ Len(z) = 3 /\ z[1] = F[3] /\ z[2] = F[4] /\ z[3] = F[5]
  <2>1. z \in Seq(Char) /\ Len(z) = 3 /\ \A i \in 1 .. 5 - 3 + 1 : z[i] = F[3 + i - 1]
    BY <1>2, SubSeqProperties
  <2> HIDE DEF z
  <2> QED
    BY <2>1
<1> HIDE DEF a, z
<1>5. Single(F) /\ Single(a) /\ Free(z) /\ F # <<>> /\ a # <<>>
  <2>1. Single(F)
    <3>1. \A i \in 1 .. Len(F) : i = 1 \/ i \in 2 .. 5
      BY <1>1
    <3> QED
      BY <1>1, <3>1 DEF Single
  <2>2. Single(a)
    <3>1. \A i \in 1 .. Len(a) : i = 1 \/ i = 2
      BY <1>3
    <3>2. a[2] # Dollar
      BY <1>1, <1>3
    <3> QED
      BY <3>1, <3>2 DEF Single
  <2>3. Free(z)
    <3>1. \A i \in 1 .. Len(z) : i = 1 \/ i = 2 \/ i = 3
      BY <1>4
    <3>2. z[1] # Dollar /\ z[2] # Dollar /\ z[3] # Dollar
      BY <1>1, <1>4
    <3> QED
      BY <3>1, <3>2 DEF Free
  <2>4. F # <<>> /\ a # <<>>
    <3>1. Len(F) # 0 /\ Len(a) # 0
      BY <1>1, <1>3
    <3> QED
      BY <3>1
  <2> QED
    BY <2>1, <2>2, <2>3, <2>4
<1>6. ASSUME NEW s \in Messages, net' = net \o s, NetSingle(s),
             s # <<>>, s[1] # <<>>, s[1][1] = Dollar
      PROVE  /\ net' \in Messages
             /\ NetFree(net) => NetSingle(net')
             /\ net = <<>> => net' # <<>> /\ net'[1] # <<>> /\ net'[1][1] = Dollar
  BY <1>6, NetExtend
<1>7. CASE net' = net \o <<F>>
  <2> DEFINE s == <<F>>
  <2>1. s \in Messages /\ s # <<>> /\ s[1] = F /\ Len(s) = 1
    BY <1>1 DEF Messages
  <2>2. net' = net \o s
    BY <1>7
  <2> HIDE DEF s
  <2>3. NetSingle(s)
    BY <1>5, <2>1 DEF NetSingle
  <2> QED
    BY <1>1, <1>5, <1>6, <2>1, <2>2, <2>3
<1>8. CASE net' = net \o <<a, z>>
  <2> DEFINE s == <<a, z>>
  <2>1. s \in Messages /\ s # <<>> /\ s[1] = a /\ s[2] = z /\ Len(s) = 2
    BY <1>3, <1>4 DEF Messages
  <2>2. net' = net \o s
    BY <1>8
  <2> HIDE DEF s
  <2>3. NetSingle(s)
    BY <1>5, <2>1, FreeSingle DEF NetSingle
  <2> QED
    BY <1>1, <1>3, <1>5, <1>6, <2>1, <2>2, <2>3
<1>9. net' = net \o <<F>> \/ net' = net \o <<a, z>>
  <2>1. \/ net' = net \o <<Frame(op)>>
        \/ net' = net \o <<SubSeq(Frame(op), 1, 2), SubSeq(Frame(op), 2 + 1, 5)>>
    BY DEF Transmit
  <2>2. 2 + 1 = 3
    OBVIOUS
  <2> QED
    BY <2>1, <2>2, Zenon DEF F, a, z
<1> QED
  BY <1>7, <1>8, <1>9

---------------------------------------------------------------------------
(* The way from the network to the reader.                                 *)

PipeTypes ==
    net \in Messages /\ incoming \in Seq(Char) /\ rx \in Seq(Char) /\ batch \in Seq(Char)

\* No packet begins in what the reader has not read.
Clear == Free(batch) /\ Free(rx) /\ Free(incoming) /\ NetFree(net)

\* One at most does.
OneStart ==
    /\ Single(batch) /\ Single(rx) /\ Single(incoming) /\ NetSingle(net)
    /\ Free(batch) \/ (Free(rx) /\ Free(incoming) /\ NetFree(net))
    /\ Free(rx) \/ (Free(incoming) /\ NetFree(net))
    /\ Free(incoming) \/ NetFree(net)

\* The next byte begins a packet.
First ==
    IF batch # <<>> THEN batch[1] = Dollar
    ELSE IF rx # <<>> THEN rx[1] = Dollar
    ELSE IF incoming # <<>> THEN incoming[1] = Dollar
    ELSE net # <<>> /\ net[1] # <<>> /\ net[1][1] = Dollar

Moved ==
    /\ PipeTypes' /\ OneStart'
    /\ Clear => Clear'
    /\ First => First' \/ Clear'

LEMMA EmptyFree == Free(<<>>) /\ Single(<<>>)
  BY DEF Free, Single

LEMMA NetEmptyFree == NetFree(<<>>) /\ NetSingle(<<>>)
  BY DEF NetFree, NetSingle

LEMMA MessageTaken ==
    ASSUME PipeTypes, OneStart, incoming = <<>>, net # <<>>,
           incoming' = <<>> \/ incoming' = Head(net), net' = Tail(net),
           UNCHANGED <<rx, batch>>
    PROVE  Moved
<1>1. /\ Head(net) = net[1] /\ Head(net) \in Seq(Char) /\ Tail(net) \in Messages
      /\ (NetFree(net) => Free(Head(net)) /\ NetFree(Tail(net)))
      /\ Single(Head(net)) /\ NetSingle(Tail(net))
      /\ (Free(Head(net)) \/ NetFree(Tail(net)))
  BY NetHead DEF PipeTypes, OneStart
<1> DEFINE h == Head(net)
<1>2. PipeTypes'
  BY <1>1 DEF PipeTypes
<1>3. OneStart'
  BY <1>1, EmptyFree DEF OneStart
<1>4. Clear => Clear'
  BY <1>1, EmptyFree DEF Clear
<1>5. First => First' \/ Clear'
  <2>1. CASE batch # <<>> \/ rx # <<>>
    BY <2>1 DEF First
  <2>2. CASE batch = <<>> /\ rx = <<>>
    <3> SUFFICES ASSUME First PROVE First' \/ Clear'
      OBVIOUS
    <3>1. h # <<>> /\ h[1] = Dollar
      BY <1>1, <2>2 DEF First
    <3>2. CASE incoming' = h
      BY <2>2, <3>1, <3>2 DEF First
    <3>3. CASE incoming' = <<>>
      <4>1. ~Free(h)
        <5> HIDE DEF h
        <5>1. h \in Seq(Char)
          BY <1>1 DEF h
        <5>2. 1 \in 1 .. Len(h)
          BY <3>1, <5>1
        <5> QED
          BY <3>1, <5>2 DEF Free
      <4> QED
        BY <1>1, <2>2, <3>3, <4>1, EmptyFree DEF Clear
    <3> QED
      BY <3>2, <3>3
  <2> QED
    BY <2>1, <2>2
<1> QED
  BY <1>2, <1>3, <1>4, <1>5 DEF Moved

LEMMA ByteQueued ==
    ASSUME PipeTypes, OneStart, incoming # <<>>, incoming' = Tail(incoming),
           rx' = Append(rx, Head(incoming)) \/ (rx' = rx /\ rx # <<>>),
           UNCHANGED <<net, batch>>
    PROVE  Moved
<1> DEFINE b == Head(incoming)
<1>1. /\ b = incoming[1] /\ b \in Char /\ Tail(incoming) \in Seq(Char)
      /\ (Free(incoming) => Free(Tail(incoming)) /\ b # Dollar)
      /\ Single(Tail(incoming))
      /\ (b = Dollar => Free(Tail(incoming)))
  BY TailStart DEF PipeTypes, OneStart
<1>2. /\ Append(rx, b) \in Seq(Char) /\ Append(rx, b) # <<>>
      /\ (rx = <<>> => Append(rx, b)[1] = b)
      /\ (rx # <<>> => Append(rx, b)[1] = rx[1])
      /\ (Free(rx) => Single(Append(rx, b)))
      /\ (Free(rx) /\ b # Dollar => Free(Append(rx, b)))
      /\ (Single(rx) /\ b # Dollar => Single(Append(rx, b)))
  <2>1. rx \in Seq(Char) /\ b \in Char
    BY <1>1 DEF PipeTypes
  <2> HIDE DEF b
  <2>2. Append(rx, b) # <<>>
    BY <2>1
  <2> QED
    BY <2>1, <2>2, AppendStart
<1> DEFINE q == Append(rx, b)
<1> HIDE DEF b, q
<1>3. rx' = q \/ (rx' = rx /\ rx # <<>>)
  BY DEF b, q
<1>4. PipeTypes'
  BY <1>1, <1>2, <1>3 DEF PipeTypes, q
<1>5. ~Free(incoming) => Free(rx) /\ Free(batch) /\ NetFree(net)
  BY DEF OneStart
<1>6. OneStart'
  <2>1. CASE b = Dollar
    <3>1. ~Free(incoming)
      BY <1>1, <2>1
    <3>2. Free(rx) /\ Free(batch) /\ NetFree(net) /\ Free(incoming') /\ Single(rx')
      BY <1>1, <1>2, <1>3, <1>5, <2>1, <3>1, FreeSingle DEF q
    <3> QED
      BY <1>1, <3>2 DEF OneStart
  <2>2. CASE b # Dollar
    <3>1. /\ Single(rx') /\ Single(incoming')
          /\ (Free(rx) => Free(rx')) /\ (Free(incoming) => Free(incoming'))
      BY <1>1, <1>2, <1>3, <2>2 DEF OneStart, q
    <3> QED
      BY <3>1 DEF OneStart
  <2> QED
    BY <2>1, <2>2
<1>7. Clear => Clear'
  BY <1>1, <1>2, <1>3 DEF Clear, q
<1>8. First => First'
  BY <1>1, <1>2, <1>3 DEF First, q
<1> QED
  BY <1>4, <1>6, <1>7, <1>8 DEF Moved

LEMMA BatchTaken ==
    ASSUME PipeTypes, OneStart, batch = <<>>, rx # <<>>, NEW n \in 1 .. Len(rx),
           batch' = SubSeq(rx, 1, n), rx' = SubSeq(rx, n + 1, Len(rx)),
           UNCHANGED <<net, incoming>>
    PROVE  Moved
<1>1. /\ batch' \in Seq(Char) /\ rx' \in Seq(Char) /\ batch' # <<>> /\ batch'[1] = rx[1]
      /\ (Free(rx) => Free(batch') /\ Free(rx'))
      /\ (Single(rx) => Single(batch') /\ Single(rx') /\ (Free(batch') \/ Free(rx')))
  BY CutStart DEF PipeTypes
<1>2. PipeTypes'
  BY <1>1 DEF PipeTypes
<1>3. OneStart'
  BY <1>1 DEF OneStart
<1>4. Clear => Clear'
  BY <1>1 DEF Clear
<1>5. First => First'
  BY <1>1 DEF First
<1> QED
  BY <1>2, <1>3, <1>4, <1>5 DEF Moved

LEMMA ByteRead ==
    ASSUME PipeTypes, OneStart, batch # <<>>, batch' = Tail(batch),
           UNCHANGED <<net, incoming, rx>>
    PROVE  /\ PipeTypes' /\ OneStart'
           /\ Byte \in Char
           /\ Byte = Dollar => Clear'
           /\ Clear => Clear' /\ Byte # Dollar
           /\ First => Byte = Dollar
<1>1. /\ Byte = batch[1] /\ Byte \in Char /\ Tail(batch) \in Seq(Char)
      /\ (Free(batch) => Free(Tail(batch)) /\ Byte # Dollar)
      /\ Single(Tail(batch))
      /\ (Byte = Dollar => Free(Tail(batch)))
  BY TailStart DEF PipeTypes, OneStart, Byte
<1>2. PipeTypes'
  BY <1>1 DEF PipeTypes
<1>3. OneStart'
  BY <1>1 DEF OneStart
<1>4. Clear => Clear'
  BY <1>1 DEF Clear
<1>5. Byte = Dollar => Clear'
  BY <1>1 DEF OneStart, Clear
<1>6. First => Byte = Dollar
  BY <1>1 DEF First
<1> QED
  BY <1>1, <1>2, <1>3, <1>4, <1>5, <1>6 DEF Clear

LEMMA PacketSent ==
    ASSUME PipeTypes, Clear, NEW op \in Ops, Transmit(op), UNCHANGED <<incoming, rx, batch>>
    PROVE  /\ PipeTypes' /\ OneStart'
           /\ net = <<>> /\ incoming = <<>> /\ rx = <<>> /\ batch = <<>> => First'
<1>1. /\ net' \in Messages
      /\ (NetFree(net) => NetSingle(net'))
      /\ (net = <<>> => net' # <<>> /\ net'[1] # <<>> /\ net'[1][1] = Dollar)
  BY TransmitStart DEF PipeTypes
<1>2. PipeTypes'
  BY <1>1 DEF PipeTypes
<1>3. OneStart'
  BY <1>1, FreeSingle DEF Clear, OneStart
<1>4. net = <<>> /\ incoming = <<>> /\ rx = <<>> /\ batch = <<>> => First'
  BY <1>1 DEF First
<1> QED
  BY <1>2, <1>3, <1>4

LEMMA InterruptSent ==
    ASSUME PipeTypes, Clear, net' = Append(net, <<Intr>>), UNCHANGED <<incoming, rx, batch>>
    PROVE  PipeTypes' /\ OneStart' /\ Clear'
<1> DEFINE s == <<<<Intr>>>>
<1>1. s \in Messages /\ NetFree(s) /\ net' = net \o s
  <2>1. Free(<<Intr>>)
    BY DEF Free, Intr, Dollar
  <2>2. s \in Messages
    BY DEF Messages, Char, Intr
  <2>3. NetFree(s)
    BY <2>1 DEF NetFree
  <2>4. net' = net \o s
    BY DEF PipeTypes, Messages
  <2> QED
    BY <2>2, <2>3, <2>4
<1> HIDE DEF s
<1>2. net' \in Messages /\ NetFree(net')
  BY <1>1, NetExtend DEF PipeTypes, Clear
<1>3. PipeTypes' /\ Clear'
  BY <1>2 DEF PipeTypes, Clear
<1>4. NetSingle(net')
  BY <1>2, FreeSingle DEF NetFree, NetSingle
<1>5. OneStart'
  BY <1>2, <1>4, FreeSingle DEF OneStart, Clear
<1> QED
  BY <1>3, <1>5

---------------------------------------------------------------------------
(* Types.                                                                  *)

Answers == [kind : {"$"}, op : Ops \cup {0, Intr}, n : 0 .. MaxCommands]
Replies == {Ack, Nack} \cup Answers

\* One acknowledgement, refusal or answer, or the first in front of the last.
ReplyMessages ==
    {s \in Seq(Replies) : /\ Len(s) \in 1 .. 2
                          /\ Len(s) = 2 => s[1] = Ack /\ s[2] \in Answers}

GdbRecords ==
    [mode : Modes, op : Ops \cup {0}, n : 0 .. MaxCommands, intr : BOOLEAN,
     asked : [Ops -> 0 .. MaxCount]]

GdbTypes ==
    /\ gdb \in GdbRecords
    /\ gdb.mode # "idle" => gdb.op \in Ops

ReaderTypes ==
    /\ state \in {"WAIT_START", "IN_PACKET", "IN_CHECKSUM"}
    /\ pkt \in Seq(Char) /\ Len(pkt) <= PktMax
    /\ cksum \in Seq(Char) /\ Len(cksum) <= 1

Handled == [op : Ops \cup {0, Intr}, n : 0 .. MaxCommands]

ServerTypes ==
    /\ handling \in {None} \cup Handled
    /\ tx \in Seq(ReplyMessages) /\ Len(tx) <= TxDepth
    /\ toGdb \in Seq(Replies)

QueueTypes == PipeTypes /\ Len(rx) <= RxDepth /\ Len(batch) <= BatchMax

LinkTypes == QueueTypes /\ GdbTypes /\ ReaderTypes /\ ServerTypes /\ faults \in 0 .. MaxFaults

LEMMA TypesInit == Init => LinkTypes
<1> SUFFICES ASSUME Init PROVE LinkTypes
  OBVIOUS
<1>1. /\ <<>> \in Messages /\ <<>> \in Seq(Char) /\ Len(<<>>) = 0
      /\ <<>> \in Seq(ReplyMessages) /\ <<>> \in Seq(Replies)
  BY DEF Messages
<1>2. /\ RxDepth \in Nat /\ BatchMax \in Nat /\ PktMax \in Nat /\ TxDepth \in Nat
      /\ MaxCommands \in Nat /\ MaxFaults \in Nat /\ MaxCount \in Nat
  BY LinkAssumption
<1>3. QueueTypes
  BY <1>1, <1>2 DEF Init, QueueTypes, PipeTypes
<1>4. GdbTypes
  BY <1>2 DEF Init, GdbTypes, GdbRecords, Modes
<1>5. ReaderTypes
  BY <1>1, <1>2 DEF Init, ReaderTypes
<1>6. ServerTypes
  BY <1>1, <1>2 DEF Init, ServerTypes
<1> QED
  BY <1>2, <1>3, <1>4, <1>5, <1>6 DEF LinkTypes, Init

LEMMA CountedType ==
    ASSUME NEW S, NEW count \in [S -> 0 .. MaxCount], NEW op \in S
    PROVE  Counted(count, op) \in [S -> 0 .. MaxCount]
<1>1. MaxCount \in Nat
  BY LinkAssumption
<1>2. (IF count[op] < MaxCount THEN count[op] + 1 ELSE count[op]) \in 0 .. MaxCount
  BY <1>1
<1> QED
  BY <1>2 DEF Counted

\* GDB's steps: a packet, the next reply.
LEMMA GdbStepTypes ==
    ASSUME LinkTypes, (\E op \in Ops : Send(op)) \/ TimeOut \/ Interrupt \/ Read
    PROVE  QueueTypes' /\ GdbTypes' /\ toGdb' \in Seq(Replies)
<1>1. /\ net \in Messages /\ toGdb \in Seq(Replies)
      /\ gdb \in GdbRecords
      /\ gdb.mode # "idle" => gdb.op \in Ops
  BY DEF LinkTypes, QueueTypes, PipeTypes, GdbTypes, ServerTypes
<1>2. UNCHANGED <<incoming, rx, batch>>
  BY DEF Send, TimeOut, Interrupt, Read
<1>3. net' \in Messages => QueueTypes'
  BY <1>2 DEF LinkTypes, QueueTypes, PipeTypes
<1>4. ASSUME NEW op \in Ops, Send(op)
      PROVE  net' \in Messages /\ GdbTypes' /\ toGdb' = toGdb
  <2>1. net' \in Messages
    BY <1>1, <1>4, TransmitStart DEF Send
  <2>2. /\ gdb' = [mode |-> "unacked", op |-> op, n |-> gdb.n + 1, intr |-> FALSE,
                   asked |-> Counted(gdb.asked, op)]
        /\ gdb.n < MaxCommands
    BY <1>4 DEF Send
  <2>3. gdb.n + 1 \in 0 .. MaxCommands
    BY <1>1, <2>2, LinkAssumption DEF GdbRecords
  <2>4. Counted(gdb.asked, op) \in [Ops -> 0 .. MaxCount]
    BY <1>1, CountedType DEF GdbRecords
  <2>5. GdbTypes'
    BY <1>4, <2>2, <2>3, <2>4 DEF GdbTypes, GdbRecords, Modes
  <2> QED
    BY <1>4, <2>1, <2>5 DEF Send
<1>5. ASSUME TimeOut PROVE net' \in Messages /\ gdb' = gdb /\ toGdb' = toGdb
  BY <1>1, <1>5, TransmitStart DEF TimeOut
<1>6. ASSUME Interrupt PROVE net' \in Messages /\ GdbTypes' /\ toGdb' = toGdb
  <2>1. net' = Append(net, <<Intr>>) /\ gdb' = [gdb EXCEPT !.intr = TRUE] /\ gdb.mode = "running"
    BY <1>6 DEF Interrupt
  <2>2. <<Intr>> \in Seq(Char)
    BY DEF Char, Intr
  <2>3. net' \in Messages
    <3> DEFINE m == <<Intr>>
    <3> HIDE DEF m
    <3> QED
      BY <1>1, <2>1, <2>2 DEF Messages, m
  <2>4. GdbTypes'
    BY <1>1, <2>1 DEF GdbTypes, GdbRecords
  <2> QED
    BY <1>6, <2>3, <2>4 DEF Interrupt
<1>7. ASSUME Read PROVE net' \in Messages /\ GdbTypes' /\ toGdb' \in Seq(Replies)
  <2>1. toGdb' \in Seq(Replies)
    BY <1>1, <1>7 DEF Read
  <2>2. /\ gdb' = gdb \/ \E m \in Modes : gdb' = [gdb EXCEPT !.mode = m]
        /\ net' = net \/ Transmit(gdb.op)
        /\ gdb.mode # "idle"
    BY <1>7 DEF Read, Modes
  <2>3. net' \in Messages
    BY <1>1, <2>2, TransmitStart
  <2>4. GdbTypes'
    BY <1>1, <2>2 DEF GdbTypes, GdbRecords
  <2> QED
    BY <2>1, <2>3, <2>4
<1>8. UNCHANGED gdb => GdbTypes'
  BY <1>1 DEF GdbTypes
<1> QED
  BY <1>1, <1>3, <1>4, <1>5, <1>6, <1>7, <1>8

LEMMA NetStepTypes ==
    ASSUME LinkTypes, Deliver \/ Enqueue \/ (\E b \in Strays : Stray(b))
    PROVE  QueueTypes' /\ faults' \in 0 .. MaxFaults
<1>1. /\ net \in Messages /\ incoming \in Seq(Char) /\ rx \in Seq(Char) /\ batch \in Seq(Char)
      /\ Len(rx) <= RxDepth /\ Len(batch) <= BatchMax
      /\ RxDepth \in Nat /\ MaxFaults \in Nat /\ faults \in 0 .. MaxFaults
  BY LinkAssumption DEF LinkTypes, QueueTypes, PipeTypes
<1>2. UNCHANGED batch /\ (faults' = faults \/ (faults < MaxFaults /\ faults' = faults + 1))
  BY DEF Deliver, Enqueue, Stray
<1>3. faults' \in 0 .. MaxFaults
  BY <1>1, <1>2
<1>4. ASSUME Deliver PROVE net' \in Messages /\ incoming' \in Seq(Char) /\ rx' = rx
  BY <1>1, <1>4, NetHead DEF Deliver
<1>5. ASSUME NEW b \in Strays, Stray(b)
      PROVE  net' = net /\ incoming' \in Seq(Char) /\ rx' = rx
  <2>1. b \in Char
    BY LinkAssumption DEF Char
  <2> QED
    BY <1>5, <2>1 DEF Stray
<1>6. ASSUME Enqueue
      PROVE  net' = net /\ incoming' \in Seq(Char) /\ rx' \in Seq(Char) /\ Len(rx') <= RxDepth
  <2>1. Head(incoming) \in Char /\ Tail(incoming) \in Seq(Char)
    BY <1>1, <1>6, TailStart DEF Enqueue
  <2>2. CASE Len(rx) < RxDepth
    <3>1. rx' = Append(rx, Head(incoming))
      BY <1>6, <2>2 DEF Enqueue
    <3>2. rx' \in Seq(Char) /\ Len(rx') = Len(rx) + 1
      BY <1>1, <2>1, <3>1, AppendStart
    <3> QED
      BY <1>1, <1>6, <2>1, <2>2, <3>2 DEF Enqueue
  <2>3. CASE ~(Len(rx) < RxDepth)
    BY <1>1, <1>6, <2>1, <2>3 DEF Enqueue
  <2> QED
    BY <2>2, <2>3
<1> QED
  BY <1>1, <1>2, <1>3, <1>4, <1>5, <1>6 DEF QueueTypes, PipeTypes

LEMMA ReceiveTypes == LinkTypes /\ Receive => QueueTypes'
<1> SUFFICES ASSUME LinkTypes, Receive PROVE QueueTypes'
  OBVIOUS
<1> DEFINE n == IF Len(rx) < BatchMax THEN Len(rx) ELSE BatchMax
<1>1. /\ rx # <<>> /\ rx \in Seq(Char) /\ Len(rx) <= RxDepth
      /\ RxDepth \in Nat /\ BatchMax \in Nat \ {0}
      /\ batch' = SubSeq(rx, 1, n) /\ rx' = SubSeq(rx, n + 1, Len(rx))
  BY LinkAssumption DEF LinkTypes, QueueTypes, PipeTypes, Receive
<1>2. n \in 1 .. Len(rx) /\ n <= BatchMax
  BY <1>1
<1> HIDE DEF n
<1>3. batch' \in Seq(Char) /\ rx' \in Seq(Char) /\ Len(batch') = n /\ Len(rx') = Len(rx) - n
  BY <1>1, <1>2, CutStart
<1>4. Len(batch') <= BatchMax /\ Len(rx') <= RxDepth
  BY <1>1, <1>2, <1>3
<1> QED
  BY <1>3, <1>4 DEF Receive, LinkTypes, QueueTypes, PipeTypes

LEMMA NextByteTypes == LinkTypes /\ NextByte => QueueTypes' /\ Byte \in Char
<1> SUFFICES ASSUME LinkTypes, NextByte PROVE QueueTypes' /\ Byte \in Char
  OBVIOUS
<1>1. batch # <<>> /\ batch \in Seq(Char) /\ batch' = Tail(batch)
  BY DEF NextByte, LinkTypes, QueueTypes, PipeTypes
<1>2. Tail(batch) \in Seq(Char) /\ Byte \in Char /\ Len(Tail(batch)) = Len(batch) - 1
  BY <1>1, TailStart DEF Byte
<1>3. Len(batch') <= BatchMax
  BY <1>1, <1>2, LinkAssumption DEF LinkTypes, QueueTypes
<1> QED
  BY <1>1, <1>2, <1>3 DEF NextByte, LinkTypes, QueueTypes, PipeTypes

LEMMA HandleType == \A op \in Ops \cup {0, Intr} : GdbTypes => Handle(op) \in Handled
  BY DEF GdbTypes, GdbRecords, Handle, Handled

LEMMA PairOfOnes == \A k, a : <<k>> \o <<a>> = <<k, a>>
<1> TAKE k, a
<1> DEFINE S == {k, a}
           t == <<k>> \o <<a>>
<1>1. <<k>> \in Seq(S) /\ <<a>> \in Seq(S) /\ Len(<<k>>) = 1 /\ Len(<<a>>) = 1
  OBVIOUS
<1>2. t \in Seq(S) /\ Len(t) = 2 /\ t[1] = k /\ t[2] = a
  BY <1>1, ConcatProperties
<1>3. <<k, a>> \in Seq(S) /\ Len(<<k, a>>) = 2 /\ <<k, a>>[1] = k /\ <<k, a>>[2] = a
  OBVIOUS
<1> HIDE DEF S, t
<1>4. \A i \in 1 .. 2 : t[i] = <<k, a>>[i]
  BY <1>2, <1>3
<1>5. t = <<k, a>>
  BY <1>2, <1>3, <1>4, SeqEqual
<1> QED
  BY <1>5 DEF t

LEMMA ReplyTypes ==
    /\ <<Ack>> \in ReplyMessages /\ <<Nack>> \in ReplyMessages
    /\ \A a \in Answers : <<a>> \in ReplyMessages /\ <<Ack>> \o <<a>> \in ReplyMessages
<1>1. \A r \in Replies : <<r>> \in ReplyMessages
  BY DEF ReplyMessages
<1>2. ASSUME NEW a \in Answers PROVE <<Ack>> \o <<a>> \in ReplyMessages
  <2> DEFINE k == Ack
  <2>1. k \in Replies /\ a \in Replies
    BY DEF Replies
  <2> HIDE DEF k
  <2>2. <<k>> \o <<a>> = <<k, a>>
    BY PairOfOnes
  <2>3. <<k, a>> \in Seq(Replies) /\ Len(<<k, a>>) = 2 /\ <<k, a>>[1] = k /\ <<k, a>>[2] = a
    BY <2>1
  <2>4. k = Ack
    BY DEF k
  <2> QED
    BY <2>2, <2>3, <2>4 DEF ReplyMessages
<1> QED
  BY <1>1, <1>2 DEF Replies

LEMMA Queued ==
    ASSUME NEW m \in ReplyMessages, tx \in Seq(ReplyMessages), Len(tx) < TxDepth
    PROVE  Append(tx, m) \in Seq(ReplyMessages) /\ Len(Append(tx, m)) <= TxDepth
<1>1. Append(tx, m) \in Seq(ReplyMessages) /\ Len(Append(tx, m)) = Len(tx) + 1 /\ Len(tx) \in Nat
  OBVIOUS
<1> QED
  BY <1>1, LinkAssumption

LEMMA ReaderTyped ==
    ASSUME ReaderTypes, NEW b \in Char,
           state' \in {"WAIT_START", "IN_PACKET", "IN_CHECKSUM"},
           \/ pkt' = pkt
           \/ pkt' = <<>>
           \/ Len(pkt) < PktMax /\ pkt' = Append(pkt, b),
           cksum' = cksum \/ cksum' = <<>> \/ cksum' = <<b>>
    PROVE  ReaderTypes'
<1>1. PktMax \in Nat /\ pkt \in Seq(Char) /\ Len(pkt) <= PktMax /\ cksum \in Seq(Char) /\ Len(cksum) <= 1
  BY LinkAssumption DEF ReaderTypes
<1>2. <<>> \in Seq(Char) /\ Len(<<>>) = 0 /\ <<b>> \in Seq(Char) /\ Len(<<b>>) = 1
  OBVIOUS
<1>3. Append(pkt, b) \in Seq(Char) /\ Len(Append(pkt, b)) = Len(pkt) + 1 /\ Len(pkt) \in Nat
  BY <1>1
<1>4. pkt' \in Seq(Char) /\ Len(pkt') <= PktMax
  <2>1. CASE pkt' = pkt
    BY <1>1, <2>1
  <2>2. CASE pkt' = <<>>
    BY <1>1, <1>2, <2>2
  <2>3. CASE Len(pkt) < PktMax /\ pkt' = Append(pkt, b)
    BY <1>1, <1>3, <2>3
  <2> QED
    BY <2>1, <2>2, <2>3
<1>5. cksum' \in Seq(Char) /\ Len(cksum') <= 1
  <2>1. CASE cksum' = cksum
    BY <1>1, <2>1
  <2>2. CASE cksum' = <<>>
    BY <1>2, <2>2
  <2>3. CASE cksum' = <<b>>
    BY <1>2, <2>3
  <2> QED
    BY <2>1, <2>2, <2>3
<1> QED
  BY <1>4, <1>5 DEF ReaderTypes

LEMMA ReaderStepTypes ==
    ASSUME LinkTypes, ReadInterrupt \/ ReadStart \/ ReadPayload \/ ReadChecksum
    PROVE  QueueTypes' /\ ReaderTypes' /\ ServerTypes'
<1>1. NextByte /\ UNCHANGED toGdb
  BY DEF ReadInterrupt, ReadStart, ReadPayload, ReadChecksum, NextByte
<1>2. QueueTypes' /\ Byte \in Char
  BY <1>1, NextByteTypes
<1>3. ReaderTypes /\ ServerTypes /\ GdbTypes /\ PktMax \in Nat
  BY LinkAssumption DEF LinkTypes
<1>4. CASE ReadInterrupt
  <2>1. handling' \in Handled
    BY <1>3, <1>4, HandleType DEF ReadInterrupt
  <2> QED
    BY <1>1, <1>2, <1>3, <1>4, <2>1 DEF ReadInterrupt, reader, ReaderTypes, ServerTypes
<1>5. CASE ReadStart
  <2>1. /\ state' = "IN_PACKET" \/ state' = state
        /\ pkt' = <<>> \/ pkt' = pkt
        /\ cksum' = cksum
    BY <1>5 DEF ReadStart
  <2>2. ReaderTypes'
    BY <1>2, <1>3, <2>1, ReaderTyped DEF ReaderTypes
  <2> QED
    BY <1>1, <1>2, <1>3, <1>5, <2>2 DEF ReadStart, ServerTypes
<1>6. CASE ReadPayload
  <2>1. /\ state' = "IN_CHECKSUM" \/ state' = state
        /\ pkt' = pkt \/ (Len(pkt) < PktMax /\ pkt' = Append(pkt, Byte))
        /\ cksum' = <<>> \/ cksum' = cksum
    BY <1>6 DEF ReadPayload
  <2>3. ReaderTypes'
    BY <1>2, <1>3, <2>1, ReaderTyped DEF ReaderTypes
  <2> QED
    BY <1>1, <1>2, <1>3, <1>6, <2>3 DEF ReadPayload, ServerTypes
<1>7. CASE ReadChecksum
  <2>1. /\ state' = "WAIT_START" \/ state' = state
        /\ pkt' = <<>> \/ pkt' = pkt
        /\ cksum' = <<>> \/ cksum' = <<Byte>>
    BY <1>7 DEF ReadChecksum
  <2>2. ReaderTypes'
    BY <1>2, <1>3, <2>1, ReaderTyped DEF ReaderTypes
  <2>3. Letter(pkt) \in Ops \cup {0}
    BY DEF Letter
  <2>4. handling' = handling \/ handling' \in Handled
    BY <1>3, <1>7, <2>3, HandleType DEF ReadChecksum
  <2>5. tx' \in Seq(ReplyMessages) /\ Len(tx') <= TxDepth
    <3>1. tx' = tx \/ (Len(tx) < TxDepth /\ tx' = Append(tx, <<Nack>>))
      BY <1>7 DEF ReadChecksum
    <3> QED
      BY <1>3, <3>1, Queued, ReplyTypes DEF ServerTypes
  <2> QED
    BY <1>1, <1>2, <1>3, <2>2, <2>4, <2>5 DEF ServerTypes
<1> QED
  BY <1>4, <1>5, <1>6, <1>7

LEMMA AnswerType == \A h \in Handled : Answer(h) \in Answers
  BY DEF Handled, Answer, Answers

\* What HandlerReply appends.
Reply == IF handling.op = Continue THEN <<Ack>>
         ELSE (IF s_pending_ack THEN <<Ack>> ELSE <<>>) \o <<Answer(handling)>>

LEMMA ReplyShape ==
    ASSUME handling \in Handled
    PROVE  /\ Reply \in ReplyMessages
           /\ \/ Reply = <<Ack>> /\ handling.op = Continue
              \/ Reply = <<Ack>> \o <<Answer(handling)>> /\ s_pending_ack
              \/ Reply = <<Answer(handling)>> /\ ~s_pending_ack
<1>1. Answer(handling) \in Answers
  BY AnswerType
<1>2. <<>> \o <<Answer(handling)>> = <<Answer(handling)>>
  OBVIOUS
<1>3. \/ Reply = <<Ack>> /\ handling.op = Continue
      \/ Reply = <<Ack>> \o <<Answer(handling)>> /\ s_pending_ack
      \/ Reply = <<Answer(handling)>> /\ ~s_pending_ack
  BY <1>2 DEF Reply
<1> QED
  BY <1>1, <1>3, ReplyTypes

LEMMA ReplyStepTypes == LinkTypes /\ HandlerReply => ReaderTypes' /\ ServerTypes'
<1> SUFFICES ASSUME LinkTypes, HandlerReply PROVE ReaderTypes' /\ ServerTypes'
  OBVIOUS
<1>1. ReaderTypes /\ ServerTypes /\ PktMax \in Nat
  BY LinkAssumption DEF LinkTypes
<1>2. /\ handling \in Handled /\ handling' = None /\ toGdb' = toGdb
      /\ Len(tx) < TxDepth /\ tx' = Append(tx, Reply) /\ cksum' = cksum
  BY <1>1 DEF HandlerReply, ServerTypes, Reply
<1>3. ServerTypes'
  BY <1>1, <1>2, ReplyShape, Queued DEF ServerTypes
<1>4. /\ state' = "WAIT_START" \/ state' = state
      /\ pkt' = <<>> \/ pkt' = pkt
  BY DEF HandlerReply
<1>5. ReaderTypes'
  <2>1. 0 \in Char
    BY DEF Char
  <2> QED
    BY <1>1, <1>2, <1>4, <2>1, ReaderTyped DEF ReaderTypes
<1> QED
  BY <1>3, <1>5

LEMMA PublishTypes == LinkTypes /\ Publish => ServerTypes' /\ faults' \in 0 .. MaxFaults
<1> SUFFICES ASSUME LinkTypes, Publish PROVE ServerTypes' /\ faults' \in 0 .. MaxFaults
  OBVIOUS
<1>1. /\ tx # <<>> /\ tx \in Seq(ReplyMessages) /\ Len(tx) <= TxDepth
      /\ handling \in {None} \cup Handled /\ toGdb \in Seq(Replies)
      /\ faults \in 0 .. MaxFaults /\ TxDepth \in Nat /\ MaxFaults \in Nat
  BY LinkAssumption DEF Publish, LinkTypes, ServerTypes
<1>2. Head(tx) \in ReplyMessages /\ Tail(tx) \in Seq(ReplyMessages) /\ Len(Tail(tx)) <= TxDepth
  BY <1>1
<1>3. Head(tx) \in Seq(Replies)
  BY <1>2 DEF ReplyMessages
<1>4. toGdb' \in Seq(Replies)
  <2>1. toGdb' = toGdb \o Head(tx) \/ toGdb' = toGdb
    BY DEF Publish
  <2> QED
    BY <1>1, <1>3, <2>1, ConcatProperties
<1>5. tx' = Tail(tx) /\ handling' = handling
  BY DEF Publish
<1>6. faults' \in 0 .. MaxFaults
  BY <1>1 DEF Publish
<1> QED
  BY <1>1, <1>2, <1>4, <1>5, <1>6 DEF ServerTypes

LEMMA TypesStep == LinkTypes /\ [Next]_vars => LinkTypes'
<1> SUFFICES ASSUME LinkTypes, [Next]_vars PROVE LinkTypes'
  OBVIOUS
<1>1. QueueTypes /\ GdbTypes /\ ReaderTypes /\ ServerTypes /\ faults \in 0 .. MaxFaults
  BY DEF LinkTypes
<1>2. CASE (\E op \in Ops : Send(op)) \/ TimeOut \/ Interrupt \/ Read
  <2>1. QueueTypes' /\ GdbTypes' /\ toGdb' \in Seq(Replies)
    BY <1>2, GdbStepTypes
  <2>2. UNCHANGED <<reader, handling, tx>>
    BY <1>2 DEF Send, TimeOut, Interrupt, Read
  <2>3. faults' = faults \/ (faults < MaxFaults /\ faults' = faults + 1)
    BY <1>2 DEF Send, TimeOut, Interrupt, Read, world
  <2>4. faults' \in 0 .. MaxFaults
    BY <1>1, <2>3, LinkAssumption
  <2>5. ReaderTypes' /\ ServerTypes'
    BY <1>1, <2>1, <2>2 DEF reader, ReaderTypes, ServerTypes
  <2> QED
    BY <2>1, <2>4, <2>5 DEF LinkTypes
<1>3. CASE Deliver \/ Enqueue \/ (\E b \in Strays : Stray(b))
  <2>1. UNCHANGED <<gdb, reader, handling, tx, toGdb>>
    BY <1>3 DEF Deliver, Enqueue, Stray
  <2> QED
    BY <1>1, <1>3, <2>1, NetStepTypes DEF LinkTypes, reader, GdbTypes, ReaderTypes, ServerTypes
<1>4. CASE Receive
  <2>1. UNCHANGED <<gdb, reader, handling, tx, toGdb, faults>>
    BY <1>4 DEF Receive, world
  <2> QED
    BY <1>1, <1>4, <2>1, ReceiveTypes DEF LinkTypes, reader, GdbTypes, ReaderTypes, ServerTypes
<1>5. CASE ReadInterrupt \/ ReadStart \/ ReadPayload \/ ReadChecksum
  <2>1. UNCHANGED <<gdb, faults>>
    BY <1>5 DEF ReadInterrupt, ReadStart, ReadPayload, ReadChecksum, NextByte
  <2> QED
    BY <1>1, <1>5, <2>1, ReaderStepTypes DEF LinkTypes, GdbTypes
<1>6. CASE HandlerReply
  <2>1. UNCHANGED <<gdb, net, incoming, rx, batch, faults>>
    BY <1>6 DEF HandlerReply, world
  <2> QED
    BY <1>1, <1>6, <2>1, ReplyStepTypes DEF LinkTypes, GdbTypes, QueueTypes, PipeTypes
<1>7. CASE Publish
  <2>1. UNCHANGED <<gdb, net, incoming, rx, batch, reader>>
    BY <1>7 DEF Publish
  <2> QED
    BY <1>1, <1>7, <2>1, PublishTypes
    DEF LinkTypes, reader, GdbTypes, ReaderTypes, QueueTypes, PipeTypes
<1>8. CASE UNCHANGED vars
  BY <1>1, <1>8
  DEF vars, reader, world, LinkTypes, GdbTypes, ReaderTypes, ServerTypes, QueueTypes, PipeTypes
<1> QED
  BY <1>2, <1>3, <1>4, <1>5, <1>6, <1>7, <1>8 DEF Next, ServerTask

LEMMA TypesInvariance == Spec => []LinkTypes
  BY TypesInit, TypesStep, PTL DEF Spec

\* No queue, buffer or reader state leaves its type, for queues of any depth:
\* the reader never holds more of a packet than PktMax bytes.
THEOREM TypeCorrect == Spec => []TypeOK
<1>1. LinkTypes => TypeOK
  <2> SUFFICES ASSUME LinkTypes PROVE TypeOK
    OBVIOUS
  <2>1. handling \in [op : Ops \cup {0, Intr, -1}, n : 0 .. MaxCommands]
    <3>1. MaxCommands \in Nat
      BY LinkAssumption
    <3> QED
      BY <3>1 DEF LinkTypes, ServerTypes, Handled, None
  <2>2. /\ net \in Seq(Seq(0 .. 255)) /\ incoming \in Seq(0 .. 255)
        /\ rx \in Seq(0 .. 255) /\ batch \in Seq(0 .. 255)
    BY DEF LinkTypes, QueueTypes, PipeTypes, Messages, Char
  <2> QED
    BY <2>1, <2>2 DEF LinkTypes, QueueTypes, GdbTypes, GdbRecords, ReaderTypes, ServerTypes, TypeOK
<1> QED
  BY <1>1, TypesInvariance, PTL

---------------------------------------------------------------------------
(* Which command an answer is for.                                         *)

\* The reader is in a packet; a packet is being handled.
Inside == state # "WAIT_START"
Packet == handling # None /\ handling.op # Intr

\* Acknowledgements and refusals: at most one is on its way, and none while a
\* packet is.
Token(r) == r.kind # "$"
GdbQuiet == \A i \in 1 .. Len(toGdb) : ~Token(toGdb[i])
TxQuiet  == \A m \in 1 .. Len(tx) : ~Token(tx[m][1])
NoToken  == Clear /\ ~Inside /\ ~Packet /\ TxQuiet /\ GdbQuiet

Tokens ==
    /\ OneStart
    /\ Clear \/ (~Packet /\ TxQuiet /\ GdbQuiet /\ (Inside => First))
    /\ Inside => ~Packet /\ TxQuiet /\ GdbQuiet
    /\ Packet => TxQuiet /\ GdbQuiet /\ handling.n = gdb.n
    /\ TxQuiet \/ GdbQuiet
    /\ \A m, k \in 1 .. Len(tx) : Token(tx[m][1]) /\ Token(tx[k][1]) => m = k
    /\ \A m, k \in 1 .. Len(toGdb) : Token(toGdb[m]) /\ Token(toGdb[k]) => m = k

\* Answers to the command that GDB is at.
FreshAnswer(r)  == r.kind = "$" => r.n = gdb.n
FreshMessage(s) == \A i \in 1 .. Len(s) : FreshAnswer(s[i])
HandlingFresh   == handling # None => handling.n = gdb.n
TxFresh         == \A m \in 1 .. Len(tx) : FreshMessage(tx[m])

\* Behind an acknowledgement every answer is fresh.
BehindAck ==
    /\ \A i \in 1 .. Len(toGdb) : toGdb[i].kind = "+" =>
         /\ HandlingFresh /\ TxFresh
         /\ \A j \in i .. Len(toGdb) : FreshAnswer(toGdb[j])
    /\ \A m \in 1 .. Len(tx) : tx[m][1].kind = "+" =>
         /\ HandlingFresh
         /\ \A k \in m .. Len(tx) : FreshMessage(tx[k])

Acknowledged == gdb.mode \in {"waiting", "running"}

Modal ==
    /\ gdb.mode # "unacked" => NoToken
    /\ Acknowledged => HandlingFresh /\ FreshMessage(toGdb) /\ TxFresh

AckPending == s_pending_ack \in BOOLEAN /\ (s_pending_ack <=> Packet)

OneAnswer == Tokens /\ BehindAck /\ Modal /\ AckPending

LinkInv == ~spurious => OneAnswer

LEMMA NoTokenSuffices ==
    ASSUME NoToken
    PROVE  /\ OneStart => Tokens
           /\ BehindAck
<1>1. \A r : r.kind = "+" => Token(r)
  BY DEF Token
<1>2. BehindAck
  BY <1>1 DEF NoToken, BehindAck, TxQuiet, GdbQuiet
<1>3. OneStart => Tokens
  BY DEF NoToken, Tokens, TxQuiet, GdbQuiet
<1> QED
  BY <1>2, <1>3

\* A packet is sent when nothing else is on its way.
LEMMA OneSentPrimed ==
    ASSUME OneStart', ~Packet', TxQuiet', GdbQuiet', (Inside => First)'
    PROVE  Tokens' /\ BehindAck'
<1>1. \A r : r.kind = "+" => Token(r)
  BY DEF Token
<1>2. BehindAck'
  BY <1>1 DEF BehindAck, TxQuiet, GdbQuiet
<1>3. Tokens'
  BY DEF Tokens, TxQuiet, GdbQuiet
<1> QED
  BY <1>2, <1>3

LEMMA LinkInit == LinkTypes /\ Init => OneAnswer
<1> SUFFICES ASSUME LinkTypes, Init PROVE OneAnswer
  OBVIOUS
<1>1. /\ net = <<>> /\ incoming = <<>> /\ rx = <<>> /\ batch = <<>>
      /\ state = "WAIT_START" /\ handling = None /\ tx = <<>> /\ toGdb = <<>>
      /\ gdb.mode = "idle" /\ s_pending_ack = FALSE
  BY DEF Init
<1>2. Clear /\ OneStart
  BY <1>1, EmptyFree, NetEmptyFree DEF Clear, OneStart
<1>3. ~Inside /\ ~Packet /\ TxQuiet /\ GdbQuiet
  BY <1>1 DEF Inside, Packet, TxQuiet, GdbQuiet
<1>4. NoToken
  BY <1>2, <1>3 DEF NoToken
<1>5. Modal
  BY <1>1, <1>4 DEF Modal, Acknowledged
<1>6. AckPending
  BY <1>1, <1>3 DEF AckPending
<1> QED
  BY <1>2, <1>4, <1>5, <1>6, NoTokenSuffices DEF OneAnswer

LEMMA SendInv ==
    ASSUME LinkTypes, OneAnswer, NEW op \in Ops, Send(op)
    PROVE  OneAnswer'
<1>1. /\ gdb.mode = "idle" /\ gdb'.mode = "unacked" /\ Transmit(op)
      /\ UNCHANGED <<incoming, rx, batch, state, handling, s_pending_ack, tx, toGdb>>
  BY DEF Send, reader
<1>2. NoToken
  BY <1>1 DEF OneAnswer, Modal
<1>3. OneStart'
  BY <1>1, <1>2, PacketSent DEF NoToken, LinkTypes, QueueTypes
<1>4. ~Inside' /\ ~Packet' /\ TxQuiet' /\ GdbQuiet'
  BY <1>1, <1>2 DEF NoToken, Inside, Packet, TxQuiet, GdbQuiet
<1>5. Tokens' /\ BehindAck'
  BY <1>3, <1>4, OneSentPrimed
<1>6. Modal'
  BY <1>1 DEF Modal, Acknowledged
<1>7. AckPending'
  BY <1>1, <1>2, <1>4 DEF OneAnswer, AckPending, NoToken
<1> QED
  BY <1>5, <1>6, <1>7 DEF OneAnswer

LEMMA TimeOutInv ==
    ASSUME LinkTypes, OneAnswer, TimeOut, ~spurious'
    PROVE  OneAnswer'
<1>1. /\ gdb.mode = "unacked" /\ gdb' = gdb /\ Quiet /\ Transmit(gdb.op) /\ gdb.op \in Ops
      /\ UNCHANGED <<incoming, rx, batch, state, handling, s_pending_ack, tx, toGdb>>
  BY DEF TimeOut, reader, LinkTypes, GdbTypes
<1>2. Clear
  BY <1>1, EmptyFree, NetEmptyFree DEF Quiet, Clear
<1>3. OneStart' /\ First'
  BY <1>1, <1>2, PacketSent DEF Quiet, LinkTypes, QueueTypes
<1>4. ~Packet' /\ TxQuiet' /\ GdbQuiet'
  BY <1>1 DEF Quiet, Packet, TxQuiet, GdbQuiet
<1>5. Tokens' /\ BehindAck'
  BY <1>3, <1>4, OneSentPrimed
<1>6. Modal'
  BY <1>1 DEF Modal, Acknowledged
<1>7. AckPending'
  BY <1>1 DEF OneAnswer, AckPending, Packet
<1> QED
  BY <1>5, <1>6, <1>7 DEF OneAnswer

LEMMA InterruptInv ==
    ASSUME LinkTypes, OneAnswer, Interrupt
    PROVE  OneAnswer'
<1>1. /\ gdb.mode = "running" /\ gdb'.mode = gdb.mode /\ gdb'.n = gdb.n
      /\ net' = Append(net, <<Intr>>)
      /\ UNCHANGED <<incoming, rx, batch, state, handling, s_pending_ack, tx, toGdb>>
  BY DEF Interrupt, reader, LinkTypes, GdbTypes, GdbRecords
<1>2. NoToken /\ HandlingFresh /\ FreshMessage(toGdb) /\ TxFresh
  BY <1>1 DEF OneAnswer, Modal, Acknowledged
<1>3. OneStart' /\ Clear'
  BY <1>1, <1>2, InterruptSent DEF NoToken, LinkTypes, QueueTypes
<1>4. ~Inside' /\ ~Packet' /\ TxQuiet' /\ GdbQuiet'
  BY <1>1, <1>2 DEF NoToken, Inside, Packet, TxQuiet, GdbQuiet
<1>5. Tokens' /\ BehindAck'
  BY <1>3, <1>4, OneSentPrimed
<1>6. Modal'
  BY <1>1, <1>2, <1>3, <1>4
  DEF Modal, Acknowledged, NoToken, HandlingFresh, FreshMessage, FreshAnswer, TxFresh
<1>7. AckPending'
  BY <1>1 DEF OneAnswer, AckPending, Packet
<1> QED
  BY <1>5, <1>6, <1>7 DEF OneAnswer

\* A message or a byte moves towards the reader.
LEMMA Carried ==
    ASSUME OneAnswer, Moved, UNCHANGED <<gdb, state, handling, s_pending_ack, tx, toGdb>>
    PROVE  OneAnswer'
<1>1. /\ OneStart' /\ (Clear => Clear') /\ (First => First' \/ Clear')
      /\ Inside' = Inside /\ Packet' = Packet /\ TxQuiet' = TxQuiet /\ GdbQuiet' = GdbQuiet
  BY DEF Moved, Inside, Packet, TxQuiet, GdbQuiet
<1>2. Tokens'
  BY <1>1 DEF OneAnswer, Tokens
<1>3. BehindAck'
  BY DEF OneAnswer, BehindAck, HandlingFresh, TxFresh, FreshMessage, FreshAnswer
<1>4. Modal'
  BY <1>1
  DEF OneAnswer, Modal, NoToken, Acknowledged, HandlingFresh, TxFresh, FreshMessage, FreshAnswer
<1>5. AckPending'
  BY <1>1 DEF OneAnswer, AckPending
<1> QED
  BY <1>2, <1>3, <1>4, <1>5 DEF OneAnswer

LEMMA CarryInv ==
    ASSUME LinkTypes, OneAnswer, Deliver \/ Enqueue \/ Receive, ~spurious'
    PROVE  OneAnswer'
<1>1. PipeTypes /\ OneStart /\ RxDepth \in Nat \ {0} /\ BatchMax \in Nat \ {0} /\ rx \in Seq(Char)
  BY LinkAssumption DEF LinkTypes, QueueTypes, PipeTypes, OneAnswer, Tokens
<1>2. ASSUME Deliver PROVE Moved
  BY <1>1, <1>2, MessageTaken DEF Deliver
<1>3. ASSUME Enqueue PROVE Moved
  <2>1. Len(<<>>) = 0
    OBVIOUS
  <2>2. rx' = Append(rx, Head(incoming)) \/ (rx' = rx /\ rx # <<>>)
    BY <1>1, <1>3, <2>1 DEF Enqueue
  <2> QED
    BY <1>1, <1>3, <2>2, ByteQueued DEF Enqueue
<1>4. ASSUME Receive PROVE Moved
  <2> DEFINE n == IF Len(rx) < BatchMax THEN Len(rx) ELSE BatchMax
  <2>1. /\ batch = <<>> /\ rx # <<>> /\ UNCHANGED <<net, incoming>>
        /\ batch' = SubSeq(rx, 1, n) /\ rx' = SubSeq(rx, n + 1, Len(rx))
    BY <1>4 DEF Receive
  <2>2. n \in 1 .. Len(rx)
    BY <1>1, <2>1
  <2> HIDE DEF n
  <2> QED
    BY <1>1, <2>1, <2>2, BatchTaken
<1>5. UNCHANGED <<gdb, state, handling, s_pending_ack, tx, toGdb>>
  BY DEF Deliver, Enqueue, Receive, reader
<1> QED
  BY <1>2, <1>3, <1>4, <1>5, Carried

\* The reader takes a byte that completes no packet.
LEMMA ByteTaken ==
    ASSUME LinkTypes, OneAnswer, NextByte, UNCHANGED <<s_pending_ack, tx>>,
           handling' = None \/ handling' = Handle(Intr),
           Inside' => Inside \/ Byte = Dollar
    PROVE  OneAnswer'
<1>1. handling = None /\ UNCHANGED <<gdb, toGdb>>
  BY DEF NextByte
<1>2. ~Packet /\ ~Packet' /\ TxQuiet' = TxQuiet /\ GdbQuiet' = GdbQuiet
  BY <1>1 DEF Packet, TxQuiet, GdbQuiet, None, Handle
<1>3. /\ OneStart'
      /\ (Byte = Dollar => Clear') /\ (Clear => Clear' /\ Byte # Dollar)
      /\ (First => Byte = Dollar)
  BY ByteRead DEF NextByte, LinkTypes, QueueTypes, OneAnswer, Tokens
<1>4. Tokens'
  <2>1. Clear' \/ (TxQuiet' /\ GdbQuiet' /\ ~Inside')
    BY <1>2, <1>3 DEF OneAnswer, Tokens
  <2>2. Inside' => TxQuiet' /\ GdbQuiet'
    BY <1>2, <1>3 DEF OneAnswer, Tokens
  <2>3. /\ \A m, k \in 1 .. Len(tx') : Token(tx'[m][1]) /\ Token(tx'[k][1]) => m = k
        /\ \A m, k \in 1 .. Len(toGdb') : Token(toGdb'[m]) /\ Token(toGdb'[k]) => m = k
        /\ TxQuiet' \/ GdbQuiet'
    BY <1>1, <1>2 DEF OneAnswer, Tokens
  <2> QED
    BY <1>2, <1>3, <2>1, <2>2, <2>3 DEF Tokens
<1>5. HandlingFresh'
  BY <1>1 DEF HandlingFresh, Handle
<1>6. TxFresh' = TxFresh /\ FreshMessage(toGdb)' = FreshMessage(toGdb)
  BY <1>1 DEF TxFresh, FreshMessage, FreshAnswer
<1>7. BehindAck'
  BY <1>1, <1>5 DEF OneAnswer, BehindAck, TxFresh, FreshMessage, FreshAnswer
<1>8. Modal'
  <2>1. NoToken => NoToken'
    BY <1>2, <1>3 DEF NoToken
  <2> QED
    BY <1>1, <1>5, <1>6, <2>1 DEF OneAnswer, Modal, Acknowledged
<1>9. AckPending'
  BY <1>2 DEF OneAnswer, AckPending
<1> QED
  BY <1>4, <1>7, <1>8, <1>9 DEF OneAnswer

LEMMA Appended ==
    ASSUME LinkTypes, NEW s \in ReplyMessages, tx' = Append(tx, s)
    PROVE  /\ Len(tx) \in Nat /\ Len(tx') = Len(tx) + 1
           /\ \A m \in 1 .. Len(tx) : m \in 1 .. Len(tx') /\ tx'[m] = tx[m]
           /\ tx'[Len(tx')] = s /\ Len(tx') \in 1 .. Len(tx')
           /\ \A m \in 1 .. Len(tx') : m \in 1 .. Len(tx) \/ m = Len(tx')
<1>1. tx \in Seq(ReplyMessages)
  BY DEF LinkTypes, ServerTypes
<1>2. Len(tx) \in Nat
  BY <1>1
<1>3. /\ Len(tx') = Len(tx) + 1
      /\ \A i \in 1 .. Len(tx) : tx'[i] = tx[i]
      /\ tx'[Len(tx) + 1] = s
  BY <1>1, AppendProperties
<1> QED
  BY <1>2, <1>3

\* The last byte of a packet.
LEMMA PacketRead ==
    ASSUME LinkTypes, OneAnswer, ReadChecksum, cksum # <<>>
    PROVE  OneAnswer'
<1>1. /\ NextByte /\ Inside /\ handling = None /\ UNCHANGED <<gdb, toGdb>> /\ ~Inside'
  BY DEF ReadChecksum, NextByte, Inside
<1>2. ~Packet /\ TxQuiet /\ GdbQuiet /\ GdbQuiet'
  BY <1>1 DEF OneAnswer, Tokens, GdbQuiet
<1>3. gdb.mode = "unacked"
  BY <1>1 DEF OneAnswer, Modal, NoToken
<1>4. OneStart' /\ Clear'
  BY <1>1, ByteRead DEF NextByte, LinkTypes, QueueTypes, OneAnswer, Tokens
<1>5. Modal'
  BY <1>1, <1>3 DEF Modal, Acknowledged
<1>6. CASE SumRight
  <2>1. s_pending_ack' = TRUE /\ handling' = Handle(Letter(pkt)) /\ tx' = tx
    BY <1>6 DEF ReadChecksum
  <2>2. Letter(pkt) # Intr /\ Letter(pkt) # -1
    BY LinkAssumption DEF Letter, Intr
  <2>3. Packet' /\ handling'.n = gdb'.n
    BY <1>1, <2>1, <2>2 DEF Packet, Handle, None
  <2>4. TxQuiet'
    BY <1>2, <2>1 DEF TxQuiet
  <2>5. Tokens'
    BY <1>1, <1>2, <1>4, <2>3, <2>4 DEF Tokens, TxQuiet, GdbQuiet
  <2>6. BehindAck'
    <3>1. \A r : r.kind = "+" => Token(r)
      BY DEF Token
    <3> QED
      BY <1>2, <2>4, <3>1 DEF BehindAck, TxQuiet, GdbQuiet
  <2>7. AckPending'
    BY <2>1, <2>3 DEF AckPending
  <2> QED
    BY <1>5, <2>5, <2>6, <2>7 DEF OneAnswer
<1>7. CASE ~SumRight
  <2>1. s_pending_ack' = s_pending_ack /\ handling' = handling /\ tx' = Append(tx, <<Nack>>)
    BY <1>7 DEF ReadChecksum
  <2>2. /\ Len(tx') \in 1 .. Len(tx') /\ tx'[Len(tx')] = <<Nack>>
        /\ \A m \in 1 .. Len(tx) : m \in 1 .. Len(tx') /\ tx'[m] = tx[m]
        /\ \A m \in 1 .. Len(tx') : m \in 1 .. Len(tx) \/ m = Len(tx')
    BY <2>1, Appended, ReplyTypes
  <2>3. \A m \in 1 .. Len(tx') : Token(tx'[m][1]) => m = Len(tx') /\ tx'[m][1].kind = "-"
    <3>1. <<Nack>>[1].kind = "-"
      BY DEF Nack
    <3> QED
      BY <1>2, <2>2, <3>1 DEF TxQuiet
  <2>4. ~Packet'
    BY <1>2, <2>1 DEF Packet
  <2>5. Tokens'
    BY <1>1, <1>2, <1>4, <2>3, <2>4 DEF Tokens, GdbQuiet
  <2>6. BehindAck'
    <3>1. \A r : r.kind = "+" => Token(r) /\ r.kind # "-"
      BY DEF Token
    <3> QED
      BY <1>2, <2>3, <3>1 DEF BehindAck, GdbQuiet
  <2>7. AckPending'
    BY <1>2, <2>1, <2>4 DEF AckPending, OneAnswer
  <2> QED
    BY <1>5, <2>5, <2>6, <2>7 DEF OneAnswer
<1> QED
  BY <1>6, <1>7

LEMMA ReaderInv ==
    ASSUME LinkTypes, OneAnswer, ReadInterrupt \/ ReadStart \/ ReadPayload \/ ReadChecksum
    PROVE  OneAnswer'
<1>1. NextByte /\ handling = None
  BY DEF ReadInterrupt, ReadStart, ReadPayload, ReadChecksum, NextByte
<1>2. CASE ReadInterrupt
  BY <1>1, <1>2, ByteTaken DEF ReadInterrupt, reader, Inside
<1>3. CASE ReadStart
  BY <1>1, <1>3, ByteTaken DEF ReadStart, Inside
<1>4. CASE ReadPayload
  BY <1>1, <1>4, ByteTaken DEF ReadPayload, Inside
<1>5. CASE ReadChecksum /\ cksum = <<>>
  BY <1>1, <1>5, ByteTaken DEF ReadChecksum, Inside
<1>6. CASE ReadChecksum /\ cksum # <<>>
  BY <1>6, PacketRead
<1> QED
  BY <1>2, <1>3, <1>4, <1>5, <1>6

\* The handler of a packet is done: the acknowledgement, and a fresh answer.
LEMMA PacketAnswered ==
    ASSUME LinkTypes, OneAnswer, HandlerReply, Packet
    PROVE  OneAnswer'
<1>1. /\ handling # None /\ handling \in Handled /\ handling' = None
      /\ tx' = Append(tx, Reply) /\ s_pending_ack' = FALSE
      /\ UNCHANGED <<gdb, net, incoming, rx, batch, toGdb>>
      /\ Inside' => Inside
  BY DEF HandlerReply, Reply, Inside, LinkTypes, ServerTypes
<1>2. TxQuiet /\ GdbQuiet /\ ~Inside /\ Clear /\ handling.n = gdb.n /\ s_pending_ack
  BY DEF OneAnswer, Tokens, AckPending
<1>3. gdb.mode = "unacked"
  BY DEF OneAnswer, Modal, NoToken
<1> DEFINE s == Reply
           k == Ack
           a == Answer(handling)
<1>4. s \in ReplyMessages /\ (s = <<k>> \/ s = <<k>> \o <<a>>)
  BY <1>1, <1>2, ReplyShape
<1>5. k.kind = "+" /\ a.kind = "$" /\ a.n = gdb.n
  BY <1>2 DEF Ack, Answer
<1>6. /\ Len(tx') \in 1 .. Len(tx') /\ tx'[Len(tx')] = s
      /\ \A m \in 1 .. Len(tx) : tx'[m] = tx[m]
      /\ \A m \in 1 .. Len(tx') : m \in 1 .. Len(tx) \/ m = Len(tx')
  BY <1>1, <1>4, Appended
<1> HIDE DEF s, k, a
<1>7. s[1] = k /\ \A i \in 1 .. Len(s) : s[i] = k \/ s[i] = a
  <2>1. s = <<k>> \/ s = <<k, a>>
    BY <1>4, PairOfOnes
  <2> QED
    BY <2>1
<1>8. \A m \in 1 .. Len(tx') : Token(tx'[m][1]) => m = Len(tx')
  BY <1>2, <1>6 DEF TxQuiet
<1>9. OneStart' /\ Clear' /\ ~Inside' /\ ~Packet' /\ GdbQuiet' /\ HandlingFresh'
  BY <1>1, <1>2
  DEF OneAnswer, Tokens, OneStart, Clear, Packet, GdbQuiet, HandlingFresh
<1>10. Tokens'
  BY <1>8, <1>9 DEF Tokens, GdbQuiet
<1>11. BehindAck'
  <2>1. \A r : r.kind = "+" => Token(r)
    BY DEF Token
  <2>2. \A i \in 1 .. Len(s) : s[i].kind = "$" => s[i].n = gdb'.n
    BY <1>1, <1>5, <1>7
  <2>3. ASSUME NEW m \in 1 .. Len(tx'), tx'[m][1].kind = "+", NEW j \in m .. Len(tx'),
               NEW i \in 1 .. Len(tx'[j]), tx'[j][i].kind = "$"
        PROVE  tx'[j][i].n = gdb'.n
    <3>1. m = Len(tx')
      BY <1>8, <2>1, <2>3
    <3>2. j = Len(tx')
      BY <2>3, <3>1
    <3> QED
      BY <1>6, <2>2, <2>3, <3>2
  <2> QED
    BY <1>9, <2>1, <2>3 DEF BehindAck, GdbQuiet, FreshMessage, FreshAnswer
<1>12. Modal'
  BY <1>1, <1>3 DEF Modal, Acknowledged
<1>13. AckPending'
  BY <1>1, <1>9 DEF AckPending
<1> QED
  BY <1>10, <1>11, <1>12, <1>13 DEF OneAnswer

\* The target has stopped after ^C: an answer alone.
LEMMA StopAnswered ==
    ASSUME LinkTypes, OneAnswer, HandlerReply, ~Packet
    PROVE  OneAnswer'
<1>1. /\ handling # None /\ handling \in Handled /\ handling' = None
      /\ tx' = Append(tx, Reply) /\ s_pending_ack' = FALSE
      /\ UNCHANGED <<gdb, net, incoming, rx, batch, toGdb>>
      /\ Inside' => Inside
  BY DEF HandlerReply, Reply, Inside, LinkTypes, ServerTypes
<1>2. ~s_pending_ack /\ handling.op # Continue
  BY <1>1 DEF OneAnswer, AckPending, Packet, Intr, Continue
<1> DEFINE s == Reply
           a == Answer(handling)
<1>3. s \in ReplyMessages /\ s = <<a>>
  BY <1>1, <1>2, ReplyShape
<1>4. a.kind = "$" /\ a.n = handling.n
  BY DEF Answer
<1>5. /\ Len(tx) \in Nat /\ Len(tx') = Len(tx) + 1
      /\ tx'[Len(tx')] = s
      /\ \A m \in 1 .. Len(tx) : m \in 1 .. Len(tx') /\ tx'[m] = tx[m]
      /\ \A m \in 1 .. Len(tx') : m \in 1 .. Len(tx) \/ m = Len(tx')
  BY <1>1, <1>3, Appended
<1> HIDE DEF s, a
<1>6. ~Token(s[1]) /\ (handling.n = gdb.n => FreshMessage(s))
  BY <1>3, <1>4 DEF Token, FreshMessage, FreshAnswer
<1>7. \A m \in 1 .. Len(tx') : Token(tx'[m][1]) => m \in 1 .. Len(tx) /\ tx'[m] = tx[m]
  BY <1>5, <1>6
<1>8. /\ OneStart' = OneStart /\ Clear' = Clear /\ First' = First /\ GdbQuiet' = GdbQuiet
      /\ ~Packet' /\ HandlingFresh' /\ AckPending'
  BY <1>1 DEF OneStart, Clear, First, GdbQuiet, Packet, HandlingFresh, AckPending
<1>9. TxQuiet => TxQuiet'
  BY <1>7 DEF TxQuiet
<1>10. HandlingFresh /\ TxFresh => TxFresh'
  <2> SUFFICES ASSUME HandlingFresh, TxFresh, NEW m \in 1 .. Len(tx'), NEW i \in 1 .. Len(tx'[m]),
                      tx'[m][i].kind = "$"
               PROVE  tx'[m][i].n = gdb'.n
    BY DEF TxFresh, FreshMessage, FreshAnswer
  <2> QED
    BY <1>1, <1>5, <1>6 DEF HandlingFresh, TxFresh, FreshMessage, FreshAnswer
<1>11. Tokens'
  <2>1. Clear' \/ (TxQuiet' /\ GdbQuiet' /\ (Inside' => First'))
    BY <1>1, <1>8, <1>9 DEF OneAnswer, Tokens
  <2>2. Inside' => TxQuiet' /\ GdbQuiet'
    BY <1>1, <1>8, <1>9 DEF OneAnswer, Tokens
  <2>3. \A m, j \in 1 .. Len(tx') : Token(tx'[m][1]) /\ Token(tx'[j][1]) => m = j
    BY <1>7 DEF OneAnswer, Tokens
  <2>4. \A m, j \in 1 .. Len(toGdb') : Token(toGdb'[m]) /\ Token(toGdb'[j]) => m = j
    BY <1>1 DEF OneAnswer, Tokens
  <2>5. OneStart' /\ (TxQuiet' \/ GdbQuiet')
    BY <1>8, <1>9 DEF OneAnswer, Tokens
  <2> QED
    BY <1>8, <2>1, <2>2, <2>3, <2>4, <2>5 DEF Tokens
<1>12. BehindAck'
  <2>1. ASSUME NEW i \in 1 .. Len(toGdb'), toGdb'[i].kind = "+"
        PROVE  TxFresh' /\ \A j \in i .. Len(toGdb') : FreshAnswer(toGdb[j])'
    BY <1>1, <1>10, <2>1 DEF OneAnswer, BehindAck, FreshAnswer
  <2>2. ASSUME NEW m \in 1 .. Len(tx'), tx'[m][1].kind = "+", NEW j \in m .. Len(tx'),
               NEW i \in 1 .. Len(tx'[j]), tx'[j][i].kind = "$"
        PROVE  tx'[j][i].n = gdb'.n
    <3>1. m \in 1 .. Len(tx) /\ tx[m][1].kind = "+"
      BY <1>7, <2>2 DEF Token
    <3>2. HandlingFresh /\ \A k \in m .. Len(tx) : FreshMessage(tx[k])
      BY <3>1 DEF OneAnswer, BehindAck
    <3>3. CASE j = Len(tx')
      BY <1>1, <1>5, <1>6, <2>2, <3>2, <3>3 DEF HandlingFresh, FreshMessage, FreshAnswer
    <3>4. CASE j # Len(tx')
      <4>1. j \in m .. Len(tx) /\ j \in 1 .. Len(tx)
        BY <1>5, <2>2, <3>1, <3>4
      <4> QED
        BY <1>1, <1>5, <2>2, <3>2, <4>1 DEF FreshMessage, FreshAnswer
    <3> QED
      BY <3>3, <3>4
  <2> QED
    BY <1>8, <2>1, <2>2 DEF BehindAck, FreshMessage, FreshAnswer
<1>13. Modal'
  <2>1. NoToken => NoToken'
    BY <1>1, <1>8, <1>9 DEF NoToken
  <2>2. FreshMessage(toGdb) => FreshMessage(toGdb)'
    BY <1>1 DEF FreshMessage, FreshAnswer
  <2> QED
    BY <1>1, <1>8, <1>10, <2>1, <2>2 DEF OneAnswer, Modal, Acknowledged
<1> QED
  BY <1>8, <1>11, <1>12, <1>13 DEF OneAnswer

LEMMA PublishLostInv ==
    ASSUME LinkTypes, OneAnswer, Publish, toGdb' = toGdb
    PROVE  OneAnswer'
<1>1. /\ tx # <<>> /\ tx' = Tail(tx) /\ tx \in Seq(ReplyMessages)
      /\ UNCHANGED <<gdb, net, incoming, rx, batch, state, handling, s_pending_ack, toGdb>>
  BY DEF Publish, reader, LinkTypes, ServerTypes
<1>2. /\ Len(tx) \in Nat /\ Len(tx') = Len(tx) - 1
      /\ \A m \in 1 .. Len(tx') : m + 1 \in 1 .. Len(tx) /\ tx'[m] = tx[m + 1]
  BY <1>1
<1>3. /\ OneStart' = OneStart /\ Clear' = Clear /\ First' = First /\ GdbQuiet' = GdbQuiet
      /\ Packet' = Packet /\ Inside' = Inside /\ HandlingFresh' = HandlingFresh
      /\ FreshMessage(toGdb)' = FreshMessage(toGdb)
  BY <1>1 DEF OneStart, Clear, First, GdbQuiet, Packet, Inside, HandlingFresh, FreshMessage, FreshAnswer
<1>4. TxQuiet => TxQuiet'
  BY <1>2 DEF TxQuiet
<1>5. TxFresh => TxFresh'
  BY <1>1, <1>2 DEF TxFresh, FreshMessage, FreshAnswer
<1>6. Tokens'
  <2>1. \A m, j \in 1 .. Len(tx') : Token(tx'[m][1]) /\ Token(tx'[j][1]) => m = j
    <3> SUFFICES ASSUME NEW m \in 1 .. Len(tx'), NEW j \in 1 .. Len(tx'),
                        Token(tx'[m][1]), Token(tx'[j][1])
                 PROVE  m = j
      OBVIOUS
    <3>1. m + 1 = j + 1
      BY <1>2 DEF OneAnswer, Tokens
    <3> QED
      BY <3>1
  <2>2. \A m, j \in 1 .. Len(toGdb') : Token(toGdb'[m]) /\ Token(toGdb'[j]) => m = j
    BY <1>1 DEF OneAnswer, Tokens
  <2>3. Packet' => handling'.n = gdb'.n
    BY <1>1, <1>3 DEF OneAnswer, Tokens
  <2> QED
    BY <1>3, <1>4, <2>1, <2>2, <2>3 DEF OneAnswer, Tokens
<1>7. BehindAck'
  <2>1. ASSUME NEW i \in 1 .. Len(toGdb'), toGdb'[i].kind = "+"
        PROVE  HandlingFresh' /\ TxFresh' /\ \A j \in i .. Len(toGdb') : FreshAnswer(toGdb[j])'
    BY <1>1, <1>3, <1>5, <2>1 DEF OneAnswer, BehindAck, FreshAnswer
  <2>2. ASSUME NEW m \in 1 .. Len(tx'), tx'[m][1].kind = "+"
        PROVE  HandlingFresh' /\ \A j \in m .. Len(tx') : FreshMessage(tx[j])'
    <3>1. m + 1 \in 1 .. Len(tx) /\ tx[m + 1][1].kind = "+"
      BY <1>2, <2>2
    <3>2. HandlingFresh /\ \A k \in m + 1 .. Len(tx) : FreshMessage(tx[k])
      BY <3>1 DEF OneAnswer, BehindAck
    <3>3. ASSUME NEW j \in m .. Len(tx'), NEW i \in 1 .. Len(tx'[j]), tx'[j][i].kind = "$"
          PROVE  tx'[j][i].n = gdb'.n
      <4>1. j \in 1 .. Len(tx') /\ j + 1 \in m + 1 .. Len(tx) /\ tx'[j] = tx[j + 1]
        BY <1>2
      <4>2. FreshMessage(tx'[j])
        BY <3>2, <4>1
      <4>3. tx'[j][i].n = gdb.n
        BY <3>3, <4>2 DEF FreshMessage, FreshAnswer
      <4> QED
        BY <1>1, <4>3
    <3> QED
      BY <1>3, <3>2, <3>3 DEF FreshMessage, FreshAnswer
  <2> QED
    BY <2>1, <2>2 DEF BehindAck
<1>8. Modal'
  BY <1>1, <1>3, <1>4, <1>5 DEF OneAnswer, Modal, Acknowledged, NoToken
<1>9. AckPending'
  BY <1>1, <1>3 DEF OneAnswer, AckPending
<1> QED
  BY <1>6, <1>7, <1>8, <1>9 DEF OneAnswer

LEMMA PublishSentInv ==
    ASSUME LinkTypes, OneAnswer, Publish, toGdb' = toGdb \o Head(tx)
    PROVE  OneAnswer'
<1> DEFINE s == Head(tx)
<1>1. /\ tx # <<>> /\ tx' = Tail(tx) /\ tx \in Seq(ReplyMessages) /\ toGdb \in Seq(Replies)
      /\ UNCHANGED <<gdb, net, incoming, rx, batch, state, handling, s_pending_ack>>
  BY DEF Publish, reader, LinkTypes, ServerTypes
<1>2. /\ s = tx[1] /\ s \in ReplyMessages /\ 1 \in 1 .. Len(tx)
      /\ Len(tx) \in Nat /\ Len(tx') = Len(tx) - 1
      /\ \A m \in 1 .. Len(tx') : m + 1 \in 1 .. Len(tx) /\ tx'[m] = tx[m + 1]
  BY <1>1
<1>3. s \in Seq(Replies) /\ Len(s) \in 1 .. 2 /\ \A i \in 2 .. Len(s) : i = 2 /\ ~Token(s[2])
  <2>1. s \in Seq(Replies) /\ Len(s) \in 1 .. 2 /\ (Len(s) = 2 => s[2] \in Answers)
    BY <1>2 DEF ReplyMessages
  <2>2. \A a \in Answers : ~Token(a)
    BY DEF Answers, Token
  <2>3. \A i \in 2 .. Len(s) : i = 2 /\ Len(s) = 2
    BY <2>1
  <2> QED
    BY <2>1, <2>2, <2>3
<1>4. /\ Len(toGdb) \in Nat /\ Len(toGdb') = Len(toGdb) + Len(s)
      /\ \A i \in 1 .. Len(toGdb) : i \in 1 .. Len(toGdb') /\ toGdb'[i] = toGdb[i]
      /\ \A i \in 1 .. Len(s) : toGdb'[Len(toGdb) + i] = s[i]
  BY <1>1, <1>3, ConcatProperties
<1> HIDE DEF s
<1>5. ASSUME NEW i \in 1 .. Len(toGdb')
      PROVE  \/ i \in 1 .. Len(toGdb) /\ toGdb'[i] = toGdb[i]
             \/ i = Len(toGdb) + 1 /\ toGdb'[i] = s[1]
             \/ i = Len(toGdb) + 2 /\ toGdb'[i] = s[2] /\ 2 \in 1 .. Len(s) /\ ~Token(s[2])
  <2>1. CASE i <= Len(toGdb)
    BY <1>4, <2>1
  <2>2. CASE i > Len(toGdb)
    <3> DEFINE d == i - Len(toGdb)
    <3>1. d \in 1 .. Len(s) /\ i = Len(toGdb) + d
      BY <1>3, <1>4, <2>2
    <3> HIDE DEF d
    <3>2. d = 1 \/ (d = 2 /\ d \in 2 .. Len(s))
      BY <1>3, <3>1
    <3>3. toGdb'[i] = s[d]
      BY <1>4, <3>1
    <3> QED
      BY <1>3, <3>1, <3>2, <3>3
  <2> QED
    BY <1>4, <2>1, <2>2
<1>6. /\ OneStart' = OneStart /\ Clear' = Clear /\ First' = First
      /\ Packet' = Packet /\ Inside' = Inside /\ HandlingFresh' = HandlingFresh
  BY <1>1 DEF OneStart, Clear, First, Packet, Inside, HandlingFresh
<1>7. TxQuiet => TxQuiet' /\ ~Token(s[1])
  BY <1>2 DEF TxQuiet
<1>8. TxFresh => TxFresh' /\ FreshMessage(s)
  <2> SUFFICES ASSUME TxFresh PROVE TxFresh' /\ FreshMessage(s)
    OBVIOUS
  <2>1. FreshMessage(s)
    BY <1>2 DEF TxFresh
  <2>2. ASSUME NEW m \in 1 .. Len(tx') PROVE FreshMessage(tx[m])'
    <3> DEFINE u == tx'[m]
    <3>1. FreshMessage(u)
      BY <1>2 DEF TxFresh
    <3> HIDE DEF u
    <3>2. \A i \in 1 .. Len(u) : u[i].kind = "$" => u[i].n = gdb'.n
      BY <1>1, <3>1 DEF FreshMessage, FreshAnswer
    <3> QED
      BY <3>2 DEF u, FreshMessage, FreshAnswer
  <2> QED
    BY <2>1, <2>2 DEF TxFresh
<1>9. GdbQuiet /\ ~Token(s[1]) => GdbQuiet'
  BY <1>5 DEF GdbQuiet
<1>10. Tokens'
  <2>1. \A m, j \in 1 .. Len(tx') : Token(tx'[m][1]) /\ Token(tx'[j][1]) => m = j
    <3> SUFFICES ASSUME NEW m \in 1 .. Len(tx'), NEW j \in 1 .. Len(tx'),
                        Token(tx'[m][1]), Token(tx'[j][1])
                 PROVE  m = j
      OBVIOUS
    <3>1. m + 1 = j + 1
      BY <1>2 DEF OneAnswer, Tokens
    <3> QED
      BY <3>1
  <2>2. Token(s[1]) => GdbQuiet /\ TxQuiet'
    <3>1. Token(s[1]) => GdbQuiet
      BY <1>7 DEF OneAnswer, Tokens
    <3>2. ASSUME Token(s[1]), NEW m \in 1 .. Len(tx'), Token(tx'[m][1]) PROVE FALSE
      <4>1. m + 1 = 1
        BY <1>2, <3>2 DEF OneAnswer, Tokens
      <4> QED
        BY <4>1
    <3> QED
      BY <3>1, <3>2 DEF TxQuiet
  <2>3. \A m, j \in 1 .. Len(toGdb') : Token(toGdb'[m]) /\ Token(toGdb'[j]) => m = j
    <3>1. CASE Token(s[1])
      <4>1. \A m \in 1 .. Len(toGdb') : Token(toGdb'[m]) => m = Len(toGdb) + 1
        BY <1>5, <2>2, <3>1 DEF GdbQuiet
      <4> QED
        BY <4>1
    <3>2. CASE ~Token(s[1])
      <4>1. \A m \in 1 .. Len(toGdb') : Token(toGdb'[m]) =>
              m \in 1 .. Len(toGdb) /\ toGdb'[m] = toGdb[m]
        BY <1>5, <3>2
      <4> QED
        BY <4>1 DEF OneAnswer, Tokens
    <3> QED
      BY <3>1, <3>2
  <2>4. TxQuiet' \/ GdbQuiet'
    BY <1>7, <1>9, <2>2 DEF OneAnswer, Tokens
  <2>5. TxQuiet /\ GdbQuiet => TxQuiet' /\ GdbQuiet'
    BY <1>7, <1>9
  <2>6. Packet' => handling'.n = gdb'.n
    BY <1>1, <1>6 DEF OneAnswer, Tokens
  <2> QED
    BY <1>6, <2>1, <2>3, <2>4, <2>5, <2>6 DEF OneAnswer, Tokens
<1>11. ASSUME FreshMessage(s), NEW i \in 1 .. Len(toGdb'), toGdb'[i].kind = "$"
       PROVE  toGdb'[i].n = gdb'.n \/ (i \in 1 .. Len(toGdb) /\ toGdb'[i] = toGdb[i])
  <2>1. \A k \in 1 .. Len(s) : s[k].kind = "$" => s[k].n = gdb'.n
    BY <1>1, <1>11 DEF FreshMessage, FreshAnswer
  <2>2. 1 \in 1 .. Len(s)
    <3> DEFINE n == Len(s)
    <3>1. n \in 1 .. 2
      BY <1>3
    <3> HIDE DEF n
    <3>2. 1 \in 1 .. n
      BY <3>1
    <3> QED
      BY <3>2 DEF n
  <2> QED
    BY <1>5, <1>11, <2>1, <2>2
<1>12. BehindAck'
  <2>1. ASSUME NEW i \in 1 .. Len(toGdb'), toGdb'[i].kind = "+"
        PROVE  /\ HandlingFresh' /\ TxFresh'
               /\ \A j \in i .. Len(toGdb') : toGdb'[j].kind = "$" => toGdb'[j].n = gdb'.n
    <3>1. Token(toGdb'[i])
      BY <2>1 DEF Token
    <3>2. CASE i \in 1 .. Len(toGdb) /\ toGdb'[i] = toGdb[i]
      <4>1. /\ HandlingFresh /\ TxFresh
            /\ \A j \in i .. Len(toGdb) : FreshAnswer(toGdb[j])
        BY <2>1, <3>2 DEF OneAnswer, BehindAck
      <4>2. ASSUME NEW j \in i .. Len(toGdb'), toGdb'[j].kind = "$" PROVE toGdb'[j].n = gdb'.n
        <5>1. j \in 1 .. Len(toGdb')
          BY <3>2, <4>2
        <5>2. CASE j \in 1 .. Len(toGdb) /\ toGdb'[j] = toGdb[j]
          <6>1. j \in i .. Len(toGdb)
            BY <4>2, <5>2
          <6> QED
            BY <1>1, <4>1, <4>2, <5>2, <6>1 DEF FreshAnswer
        <5> QED
          BY <1>8, <1>11, <4>1, <4>2, <5>1, <5>2
      <4> QED
        BY <1>6, <1>8, <4>1, <4>2
    <3>3. CASE i = Len(toGdb) + 1 /\ toGdb'[i] = s[1]
      <4>1. /\ HandlingFresh /\ \A k \in 1 .. Len(tx) : FreshMessage(tx[k])
        BY <1>2, <2>1, <3>3 DEF OneAnswer, BehindAck
      <4>2. TxFresh
        BY <4>1 DEF TxFresh
      <4>3. ASSUME NEW j \in i .. Len(toGdb'), toGdb'[j].kind = "$" PROVE toGdb'[j].n = gdb'.n
        <5>1. j \in 1 .. Len(toGdb') /\ j \notin 1 .. Len(toGdb)
          BY <1>4, <3>3, <4>3
        <5> QED
          BY <1>8, <1>11, <4>2, <4>3, <5>1
      <4> QED
        BY <1>6, <1>8, <4>1, <4>2, <4>3
    <3> QED
      BY <1>5, <3>1, <3>2, <3>3
  <2>2. ASSUME NEW m \in 1 .. Len(tx'), tx'[m][1].kind = "+"
        PROVE  HandlingFresh' /\ \A j \in m .. Len(tx') : FreshMessage(tx[j])'
    <3>1. m + 1 \in 1 .. Len(tx) /\ tx[m + 1][1].kind = "+"
      BY <1>2, <2>2
    <3>2. HandlingFresh /\ \A k \in m + 1 .. Len(tx) : FreshMessage(tx[k])
      BY <3>1 DEF OneAnswer, BehindAck
    <3>3. ASSUME NEW j \in m .. Len(tx'), NEW i \in 1 .. Len(tx'[j]), tx'[j][i].kind = "$"
          PROVE  tx'[j][i].n = gdb'.n
      <4>1. j \in 1 .. Len(tx') /\ j + 1 \in m + 1 .. Len(tx) /\ tx'[j] = tx[j + 1]
        BY <1>2
      <4>2. FreshMessage(tx'[j])
        BY <3>2, <4>1
      <4>3. tx'[j][i].n = gdb.n
        BY <3>3, <4>2 DEF FreshMessage, FreshAnswer
      <4> QED
        BY <1>1, <4>3
    <3> QED
      BY <1>6, <3>2, <3>3 DEF FreshMessage, FreshAnswer
  <2> QED
    BY <2>1, <2>2 DEF BehindAck, FreshAnswer
<1>13. Modal'
  <2>1. NoToken => NoToken'
    BY <1>6, <1>7, <1>9 DEF NoToken
  <2>2. FreshMessage(toGdb) /\ TxFresh => FreshMessage(toGdb)'
    <3> SUFFICES ASSUME FreshMessage(toGdb), TxFresh,
                        NEW i \in 1 .. Len(toGdb'), toGdb'[i].kind = "$"
                 PROVE  toGdb'[i].n = gdb'.n
      BY DEF FreshMessage, FreshAnswer
    <3> QED
      BY <1>1, <1>8, <1>11 DEF FreshMessage, FreshAnswer
  <2> QED
    BY <1>1, <1>6, <1>8, <2>1, <2>2 DEF OneAnswer, Modal, Acknowledged
<1>14. AckPending'
  BY <1>1, <1>6 DEF OneAnswer, AckPending
<1> QED
  BY <1>10, <1>12, <1>13, <1>14 DEF OneAnswer

\* What GDB has left to read after the first reply.
LEMMA Unread ==
    ASSUME LinkTypes, toGdb # <<>>, toGdb' = Tail(toGdb)
    PROVE  /\ Head(toGdb) = toGdb[1] /\ 1 \in 1 .. Len(toGdb)
           /\ \A i \in 1 .. Len(toGdb') : /\ i + 1 \in 1 .. Len(toGdb)
                                          /\ toGdb'[i] = toGdb[i + 1]
           /\ Len(toGdb) \in Nat /\ Len(toGdb') = Len(toGdb) - 1
<1>1. toGdb \in Seq(Replies)
  BY DEF LinkTypes, ServerTypes
<1> QED
  BY <1>1

\* GDB reads on without sending.
LEMMA ReadOn ==
    ASSUME LinkTypes, OneAnswer, toGdb # <<>>, toGdb' = Tail(toGdb), gdb'.n = gdb.n,
           UNCHANGED <<net, incoming, rx, batch, state, handling, s_pending_ack, tx>>,
           \/ gdb'.mode = gdb.mode
           \/ gdb.mode = "unacked" /\ Head(toGdb).kind = "+"
           \/ gdb.mode # "unacked" /\ gdb'.mode = "idle"
    PROVE  OneAnswer'
<1>1. /\ Head(toGdb) = toGdb[1] /\ 1 \in 1 .. Len(toGdb)
      /\ \A i \in 1 .. Len(toGdb') : i + 1 \in 1 .. Len(toGdb) /\ toGdb'[i] = toGdb[i + 1]
      /\ Len(toGdb) \in Nat /\ Len(toGdb') = Len(toGdb) - 1
  BY Unread
<1>2. /\ OneStart' = OneStart /\ Clear' = Clear /\ First' = First /\ TxQuiet' = TxQuiet
      /\ Packet' = Packet /\ Inside' = Inside /\ HandlingFresh' = HandlingFresh
      /\ TxFresh' = TxFresh
  BY DEF OneStart, Clear, First, TxQuiet, Packet, Inside, HandlingFresh, TxFresh, FreshMessage,
         FreshAnswer
<1>3. GdbQuiet => GdbQuiet'
  BY <1>1 DEF GdbQuiet
<1>4. Token(toGdb[1]) => ~GdbQuiet /\ GdbQuiet'
  <2>1. ASSUME Token(toGdb[1]), NEW i \in 1 .. Len(toGdb'), Token(toGdb'[i]) PROVE FALSE
    <3>1. i + 1 = 1
      BY <1>1, <2>1 DEF OneAnswer, Tokens
    <3> QED
      BY <3>1
  <2> QED
    BY <1>1, <2>1 DEF GdbQuiet
<1>5. FreshMessage(toGdb) => FreshMessage(toGdb)'
  <2> SUFFICES ASSUME FreshMessage(toGdb), NEW i \in 1 .. Len(toGdb'), toGdb'[i].kind = "$"
               PROVE  toGdb'[i].n = gdb'.n
    BY DEF FreshMessage, FreshAnswer
  <2> QED
    BY <1>1 DEF FreshMessage, FreshAnswer
<1>6. Tokens'
  <2>1. \A m, j \in 1 .. Len(toGdb') : Token(toGdb'[m]) /\ Token(toGdb'[j]) => m = j
    <3> SUFFICES ASSUME NEW m \in 1 .. Len(toGdb'), NEW j \in 1 .. Len(toGdb'),
                        Token(toGdb'[m]), Token(toGdb'[j])
                 PROVE  m = j
      OBVIOUS
    <3>1. m + 1 = j + 1
      BY <1>1 DEF OneAnswer, Tokens
    <3> QED
      BY <3>1
  <2>2. \A m, j \in 1 .. Len(tx') : Token(tx'[m][1]) /\ Token(tx'[j][1]) => m = j
    BY DEF OneAnswer, Tokens
  <2>3. Packet' => handling'.n = gdb'.n
    BY <1>2 DEF OneAnswer, Tokens
  <2> QED
    BY <1>2, <1>3, <2>1, <2>2, <2>3 DEF OneAnswer, Tokens
<1>7. BehindAck'
  <2>1. ASSUME NEW i \in 1 .. Len(toGdb'), toGdb'[i].kind = "+"
        PROVE  /\ HandlingFresh' /\ TxFresh'
               /\ \A j \in i .. Len(toGdb') : FreshAnswer(toGdb[j])'
    <3>1. i + 1 \in 1 .. Len(toGdb) /\ toGdb[i + 1].kind = "+"
      BY <1>1, <2>1
    <3>2. HandlingFresh /\ TxFresh /\ \A j \in i + 1 .. Len(toGdb) : FreshAnswer(toGdb[j])
      BY <3>1 DEF OneAnswer, BehindAck
    <3>3. ASSUME NEW j \in i .. Len(toGdb'), toGdb'[j].kind = "$" PROVE toGdb'[j].n = gdb'.n
      <4>1. j + 1 \in i + 1 .. Len(toGdb) /\ toGdb'[j] = toGdb[j + 1]
        BY <1>1, <3>3
      <4> QED
        BY <3>2, <3>3, <4>1 DEF FreshAnswer
    <3> QED
      BY <1>2, <3>2, <3>3 DEF FreshAnswer
  <2>2. ASSUME NEW m \in 1 .. Len(tx'), tx'[m][1].kind = "+"
        PROVE  HandlingFresh' /\ \A j \in m .. Len(tx') : FreshMessage(tx[j])'
    BY <1>2, <2>2 DEF OneAnswer, BehindAck, FreshMessage, FreshAnswer
  <2> QED
    BY <2>1, <2>2 DEF BehindAck
<1>8. NoToken => NoToken'
  BY <1>2, <1>3 DEF NoToken
<1>9. Modal'
  <2>1. CASE gdb'.mode = gdb.mode
    BY <1>2, <1>5, <1>8, <2>1 DEF OneAnswer, Modal, Acknowledged
  <2>2. CASE gdb.mode = "unacked" /\ Head(toGdb).kind = "+"
    <3>1. Token(toGdb[1]) /\ toGdb[1].kind = "+"
      BY <1>1, <2>2 DEF Token
    <3>2. Clear /\ ~Inside /\ ~Packet /\ TxQuiet
      BY <1>4, <3>1 DEF OneAnswer, Tokens
    <3>3. NoToken'
      BY <1>2, <1>4, <3>1, <3>2 DEF NoToken
    <3>4. HandlingFresh /\ TxFresh /\ FreshMessage(toGdb)
      BY <1>1, <3>1 DEF OneAnswer, BehindAck, FreshMessage
    <3> QED
      BY <1>2, <1>5, <3>3, <3>4 DEF Modal
  <2>3. CASE gdb.mode # "unacked" /\ gdb'.mode = "idle"
    BY <1>8, <2>3 DEF OneAnswer, Modal, Acknowledged
  <2> QED
    BY <2>1, <2>2, <2>3
<1>10. AckPending'
  BY <1>2 DEF OneAnswer, AckPending
<1> QED
  BY <1>6, <1>7, <1>9, <1>10 DEF OneAnswer

\* A refusal: GDB sends the packet again.
LEMMA Refused ==
    ASSUME LinkTypes, OneAnswer, Read, gdb.mode = "unacked", Head(toGdb).kind = "-"
    PROVE  OneAnswer'
<1>1. /\ toGdb # <<>> /\ toGdb' = Tail(toGdb) /\ gdb' = gdb /\ Transmit(gdb.op) /\ gdb.op \in Ops
      /\ UNCHANGED <<incoming, rx, batch, state, handling, s_pending_ack, tx>>
  BY DEF Read, reader, LinkTypes, GdbTypes
<1>2. /\ Head(toGdb) = toGdb[1] /\ 1 \in 1 .. Len(toGdb)
      /\ \A i \in 1 .. Len(toGdb') : i + 1 \in 1 .. Len(toGdb) /\ toGdb'[i] = toGdb[i + 1]
  BY <1>1, Unread
<1>3. Token(toGdb[1])
  BY <1>2 DEF Token
<1>4. Clear /\ ~Inside /\ ~Packet /\ TxQuiet
  BY <1>2, <1>3 DEF OneAnswer, Tokens, GdbQuiet
<1>5. GdbQuiet'
  <2> SUFFICES ASSUME NEW i \in 1 .. Len(toGdb'), Token(toGdb'[i]) PROVE FALSE
    BY DEF GdbQuiet
  <2>1. i + 1 = 1
    BY <1>2, <1>3 DEF OneAnswer, Tokens
  <2> QED
    BY <2>1
<1>6. OneStart'
  BY <1>1, <1>4, PacketSent DEF LinkTypes, QueueTypes
<1>7. ~Inside' /\ ~Packet' /\ TxQuiet'
  BY <1>1, <1>4 DEF Inside, Packet, TxQuiet
<1>8. Tokens' /\ BehindAck'
  BY <1>5, <1>6, <1>7, OneSentPrimed
<1>9. Modal'
  BY <1>1 DEF Modal, Acknowledged
<1>10. AckPending'
  BY <1>1, <1>4, <1>7 DEF OneAnswer, AckPending
<1> QED
  BY <1>8, <1>9, <1>10 DEF OneAnswer

LEMMA ReadInv == LinkTypes /\ OneAnswer /\ Read => OneAnswer'
<1> SUFFICES ASSUME LinkTypes, OneAnswer, Read PROVE OneAnswer'
  OBVIOUS
<1>1. CASE gdb.mode = "unacked" /\ Head(toGdb).kind = "-"
  BY <1>1, Refused
<1>2. CASE ~(gdb.mode = "unacked" /\ Head(toGdb).kind = "-")
  <2> DEFINE r == Head(toGdb).kind
  <2>1. /\ toGdb # <<>> /\ toGdb' = Tail(toGdb)
        /\ UNCHANGED <<incoming, rx, batch, state, handling, s_pending_ack, tx>>
    BY DEF Read, reader
  <2> HIDE DEF r
  <2>2. /\ net' = net
        /\ \/ gdb' = gdb
           \/ gdb.mode = "unacked" /\ r = "+" /\ \E m \in Modes : gdb' = [gdb EXCEPT !.mode = m]
           \/ gdb.mode # "unacked" /\ gdb' = [gdb EXCEPT !.mode = "idle"]
    BY <1>2 DEF Read, Modes, r
  <2>3. gdb'.n = gdb.n /\ (gdb'.mode = gdb.mode \/ (gdb.mode = "unacked" /\ r = "+")
                           \/ (gdb.mode # "unacked" /\ gdb'.mode = "idle"))
    BY <2>2 DEF LinkTypes, GdbTypes, GdbRecords
  <2> QED
    BY <2>1, <2>2, <2>3, ReadOn DEF r
<1> QED
  BY <1>1, <1>2

LEMMA LinkStep == LinkTypes /\ LinkInv /\ [Next]_vars => LinkInv'
<1> SUFFICES ASSUME LinkTypes, LinkInv, [Next]_vars, ~spurious' PROVE OneAnswer'
  BY DEF LinkInv
<1>1. CASE UNCHANGED vars
  <2>1. ~spurious /\ UNCHANGED <<gdb, net, incoming, rx, batch, state, handling, s_pending_ack,
                                 tx, toGdb>>
    BY <1>1 DEF vars, world, reader
  <2>2. OneAnswer
    BY <2>1 DEF LinkInv
  <2>3. Moved
    BY <2>1, <2>2
    DEF OneAnswer, Tokens, LinkTypes, QueueTypes, PipeTypes, Moved, OneStart, Clear, First
  <2> QED
    BY <2>1, <2>2, <2>3, Carried
<1>2. CASE Next
  <2>1. ~spurious
    BY <1>2
    DEF Next, Send, TimeOut, Interrupt, Read, Deliver, Enqueue, Stray, ServerTask, Receive,
        ReadInterrupt, ReadStart, ReadPayload, ReadChecksum, NextByte, HandlerReply, Publish, world
  <2>2. OneAnswer
    BY <2>1 DEF LinkInv
  <2>3. ASSUME NEW op \in Ops, Send(op) PROVE OneAnswer'
    BY <2>2, <2>3, SendInv
  <2>4. CASE TimeOut
    BY <2>2, <2>4, TimeOutInv
  <2>5. CASE Interrupt
    BY <2>2, <2>5, InterruptInv
  <2>6. CASE Read
    BY <2>2, <2>6, ReadInv
  <2>7. CASE Deliver \/ Enqueue \/ Receive
    BY <2>2, <2>7, CarryInv
  <2>8. ASSUME NEW b \in Strays, Stray(b) PROVE FALSE
    BY <2>8 DEF Stray
  <2>9. CASE ReadInterrupt \/ ReadStart \/ ReadPayload \/ ReadChecksum
    BY <2>2, <2>9, ReaderInv
  <2>10. CASE HandlerReply
    BY <2>2, <2>10, PacketAnswered, StopAnswered
  <2>11. CASE Publish
    <3>1. toGdb' = toGdb \o Head(tx) \/ toGdb' = toGdb
      BY <2>11 DEF Publish
    <3> QED
      BY <2>2, <2>11, <3>1, PublishSentInv, PublishLostInv
  <2> QED
    BY <1>2, <2>3, <2>4, <2>5, <2>6, <2>7, <2>8, <2>9, <2>10, <2>11 DEF Next, ServerTask
<1> QED
  BY <1>1, <1>2

LEMMA LinkInvariance == Spec => [](LinkTypes /\ LinkInv)
<1>1. Init => LinkTypes /\ LinkInv
  BY TypesInit, LinkInit DEF LinkInv
<1>2. LinkTypes /\ LinkInv /\ [Next]_vars => (LinkTypes /\ LinkInv)'
  BY TypesStep, LinkStep
<1> QED
  BY <1>1, <1>2, PTL DEF Spec

\* GDB never takes an old answer for a new command, whatever is lost, dropped,
\* cut or refused on either way: the answer that ends its wait bears the number
\* of the command it waits for.
THEOREM LinkKeepsAnswersFresh == Spec => AnswersAreFresh
<1>1. LinkTypes /\ LinkInv /\ [Next]_vars =>
        [gdb.mode \in {"waiting", "running"} /\ gdb'.mode = "idle" /\ ~spurious
         => toGdb # <<>> /\ Head(toGdb).n = gdb.n]_vars
  <2> SUFFICES ASSUME LinkTypes, LinkInv, [Next]_vars, ~UNCHANGED vars,
                      gdb.mode \in {"waiting", "running"}, gdb'.mode = "idle", ~spurious
               PROVE  toGdb # <<>> /\ Head(toGdb).n = gdb.n
    BY DEF vars
  <2>1. Read
    BY DEF Next, Send, TimeOut, Interrupt, Deliver, Enqueue, Stray, ServerTask, Receive,
           ReadInterrupt, ReadStart, ReadPayload, ReadChecksum, NextByte, HandlerReply, Publish,
           LinkTypes, GdbTypes, GdbRecords
  <2>2. toGdb # <<>> /\ Head(toGdb).kind = "$"
    BY <2>1 DEF Read
  <2>3. FreshMessage(toGdb)
    BY DEF LinkInv, OneAnswer, Modal, Acknowledged
  <2>4. Head(toGdb) = toGdb[1] /\ 1 \in 1 .. Len(toGdb)
    BY <2>1, Unread DEF Read
  <2> QED
    BY <2>2, <2>3, <2>4 DEF FreshMessage, FreshAnswer
<1> QED
  BY <1>1, LinkInvariance, PTL DEF Spec, AnswersAreFresh

---------------------------------------------------------------------------
(* A link on which nothing has gone wrong.                                 *)

CountTypes ==
    sent \in [Ops -> 0 .. MaxCount] /\ ran \in [Ops \cup {0} -> 0 .. MaxCount]

\* Bytes i + 1 to j of a packet.
Piece(op, i, j) == SubSeq(Frame(op), i + 1, j)

PipeEmpty  == net = <<>> /\ incoming = <<>> /\ rx = <<>> /\ batch = <<>>
ReplyEmpty == tx = <<>> /\ toGdb = <<>>
Waiting    == handling = None /\ s_pending_ack = FALSE
Between    == state = "WAIT_START"

AllRan      == \A op \in Ops : ran[op] = sent[op]
AllButOneRan == \A op \in Ops : Counted(ran, gdb.op)[op] = sent[op]

\* The reader has read k bytes of the packet.
ReaderAt(k) ==
    \/ k = 0 /\ state = "WAIT_START"
    \/ k = 1 /\ state = "IN_PACKET" /\ pkt = <<>>
    \/ k = 2 /\ state = "IN_PACKET" /\ pkt = <<gdb.op>>
    \/ k = 3 /\ state = "IN_CHECKSUM" /\ pkt = <<gdb.op>> /\ cksum = <<>>
    \/ k = 4 /\ state = "IN_CHECKSUM" /\ pkt = <<gdb.op>> /\ cksum = <<Frame(gdb.op)[4]>>

\* The rest of the packet: up to a in batch, to b in rx, to c in incoming.
NetAt(c) ==
    \/ c = 5 /\ net = <<>>
    \/ c \in {0, 2} /\ net = <<Piece(gdb.op, c, 5)>>
    \/ c = 0 /\ net = <<Piece(gdb.op, 0, 2), Piece(gdb.op, 2, 5)>>

PipeAt(k, a, b, c) ==
    /\ k <= a /\ a <= b /\ b <= c
    /\ batch = Piece(gdb.op, k, a) /\ rx = Piece(gdb.op, a, b) /\ incoming = Piece(gdb.op, b, c)
    /\ NetAt(c)

Coming ==
    /\ gdb.mode = "unacked" /\ Waiting /\ ReplyEmpty /\ AllButOneRan
    /\ \E k \in 0 .. 4, a, b, c \in 0 .. 5 : ReaderAt(k) /\ PipeAt(k, a, b, c)

Prompt == gdb.mode = "idle" /\ PipeEmpty /\ Between /\ Waiting /\ ReplyEmpty /\ AllRan

Taken ==
    /\ gdb.mode = "unacked" /\ PipeEmpty /\ Between /\ ReplyEmpty /\ AllRan
    /\ handling \in Handled /\ handling.op = gdb.op /\ s_pending_ack = TRUE

\* What GDB has still to get.
Owed(s) ==
    \/ gdb.mode = "unacked" /\ gdb.op = Continue /\ s = <<Ack>>
    \/ gdb.mode = "unacked" /\ gdb.op # Continue /\ \E a \in Answers : s = <<Ack, a>>
    \/ gdb.mode = "waiting" /\ \E a \in Answers : s = <<a>>
    \/ gdb.mode = "running" /\ gdb.intr /\ \E a \in Answers : s = <<a>>

Returning ==
    /\ PipeEmpty /\ Between /\ Waiting /\ AllRan
    /\ \/ Len(tx) = 1 /\ Owed(tx[1]) /\ toGdb = <<>>
       \/ tx = <<>> /\ Owed(toGdb)

\* ^C on its way.
StopComing ==
    \/ net = <<<<Intr>>>> /\ incoming = <<>> /\ rx = <<>> /\ batch = <<>>
    \/ net = <<>> /\ incoming = <<Intr>> /\ rx = <<>> /\ batch = <<>>
    \/ net = <<>> /\ incoming = <<>> /\ rx = <<Intr>> /\ batch = <<>>
    \/ net = <<>> /\ incoming = <<>> /\ rx = <<>> /\ batch = <<Intr>>

Running ==
    /\ gdb.mode = "running" /\ Between /\ ReplyEmpty /\ AllRan /\ s_pending_ack = FALSE
    /\ \/ ~gdb.intr /\ PipeEmpty /\ handling = None
       \/ gdb.intr /\ StopComing /\ handling = None
       \/ gdb.intr /\ PipeEmpty /\ handling \in Handled /\ handling.op = Intr

Phases == Prompt \/ Coming \/ Taken \/ Returning \/ Running

Sound ==
    /\ sent = gdb.asked /\ Phases
    /\ gdb.mode = "unacked" => ~gdb.intr

SoundLink == faults = 0 => Sound

LEMMA PieceBytes ==
    \A op \in Ops, i, j \in 0 .. 5 : i <= j =>
        /\ Piece(op, i, j) \in Seq(Char) /\ Len(Piece(op, i, j)) = j - i
        /\ \A m \in 1 .. j - i : Piece(op, i, j)[m] = Frame(op)[i + m]
<1> TAKE op \in Ops, i, j \in 0 .. 5
<1> HAVE i <= j
<1> DEFINE F == Frame(op)
           p == Piece(op, i, j)
<1>1. F \in Seq(Char) /\ Len(F) = 5
  BY FrameStart
<1>2. \A m \in 1 .. 5 : F[m] \in Char
  BY <1>1, ElementOfSeq
<1>3. p = SubSeq(F, i + 1, j)
  BY DEF Piece
<1> HIDE DEF F, p
<1>4. \A m \in i + 1 .. j : F[m] \in Char
  BY <1>2
<1>5. /\ p \in Seq(Char) /\ Len(p) = j - i
      /\ \A m \in 1 .. j - i : p[m] = F[i + m]
  <2>1. CASE i < j
    <3>1. i + 1 \in Int /\ j \in Int /\ i + 1 <= j + 1 /\ j - (i + 1) + 1 = j - i
      OBVIOUS
    <3>2. /\ SubSeq(F, i + 1, j) \in Seq(Char) /\ Len(SubSeq(F, i + 1, j)) = j - (i + 1) + 1
          /\ \A m \in 1 .. j - (i + 1) + 1 : SubSeq(F, i + 1, j)[m] = F[i + 1 + m - 1]
      BY <1>4, <3>1, SubSeqProperties
    <3>3. \A m \in 1 .. j - i : i + 1 + m - 1 = i + m
      OBVIOUS
    <3> QED
      BY <1>3, <3>1, <3>2, <3>3
  <2>2. CASE i = j
    <3>1. p = <<>>
      BY <1>1, <1>3, <2>2
    <3> QED
      BY <2>2, <3>1
  <2> QED
    BY <2>1, <2>2
<1> QED
  BY <1>5 DEF F, p

LEMMA PieceOfFrame ==
    ASSUME NEW op \in Ops, NEW i \in 0 .. 5, NEW j \in 0 .. 5, i <= j
    PROVE  /\ Piece(op, i, j) \in Seq(Char) /\ Len(Piece(op, i, j)) = j - i
           /\ \A m \in 1 .. j - i : Piece(op, i, j)[m] = Frame(op)[i + m]
           /\ Piece(op, i, j) = <<>> <=> i = j
<1>1. /\ Piece(op, i, j) \in Seq(Char) /\ Len(Piece(op, i, j)) = j - i
      /\ \A m \in 1 .. j - i : Piece(op, i, j)[m] = Frame(op)[i + m]
  BY PieceBytes
<1>2. Piece(op, i, j) = <<>> <=> i = j
  BY <1>1
<1> QED
  BY <1>1, <1>2

LEMMA PieceLength ==
    \A op \in Ops, i, j \in 0 .. 5 :
        i <= j => Len(Piece(op, i, j)) = j - i /\ (Piece(op, i, j) = <<>> => i = j)
  BY PieceOfFrame

\* Two sequences of bytes are equal where a packet has the same bytes at the same places.
LEMMA SamePiece ==
    ASSUME NEW op \in Ops, NEW i \in 0 .. 5, NEW j \in 0 .. 5, i <= j,
           NEW s \in Seq(Char), Len(s) = j - i, \A m \in 1 .. j - i : s[m] = Frame(op)[i + m]
    PROVE  s = Piece(op, i, j)
<1> DEFINE p == Piece(op, i, j)
<1>0. i <= j
  OBVIOUS
<1>1. p \in Seq(Char) /\ Len(p) = j - i /\ \A m \in 1 .. j - i : p[m] = Frame(op)[i + m]
  BY <1>0, PieceBytes
<1> HIDE DEF p
<1>2. \A m \in 1 .. Len(s) : s[m] = p[m]
  BY <1>1
<1> QED
  BY <1>1, <1>2, SeqEqual DEF p

LEMMA PieceTail ==
    ASSUME NEW op \in Ops, NEW i \in 0 .. 5, NEW j \in 0 .. 5, i < j
    PROVE  /\ Head(Piece(op, i, j)) = Frame(op)[i + 1] /\ Frame(op)[i + 1] \in Char
           /\ Tail(Piece(op, i, j)) = Piece(op, i + 1, j)
<1> DEFINE p == Piece(op, i, j)
           t == Tail(p)
<1>0. i <= j
  OBVIOUS
<1>1. p \in Seq(Char) /\ Len(p) = j - i /\ \A m \in 1 .. j - i : p[m] = Frame(op)[i + m]
  BY <1>0, PieceBytes
<1> HIDE DEF p
<1>2. /\ Head(p) = p[1] /\ Head(p) \in Char /\ t \in Seq(Char) /\ Len(t) = j - (i + 1)
      /\ \A m \in 1 .. j - (i + 1) : t[m] = p[m + 1]
  BY <1>1
<1> HIDE DEF t
<1>3. \A m \in 1 .. j - (i + 1) : m + 1 \in 1 .. j - i /\ i + (m + 1) = i + 1 + m
  OBVIOUS
<1>4. \A m \in 1 .. j - (i + 1) : t[m] = Frame(op)[i + 1 + m]
  BY <1>1, <1>2, <1>3
<1>5. i + 1 \in 0 .. 5 /\ i + 1 <= j
  OBVIOUS
<1>6. t = Piece(op, i + 1, j)
  BY <1>2, <1>4, <1>5, SamePiece
<1> QED
  BY <1>1, <1>2, <1>6 DEF p, t

LEMMA PieceAppend ==
    ASSUME NEW op \in Ops, NEW i \in 0 .. 5, NEW j \in 0 .. 4, i <= j
    PROVE  Append(Piece(op, i, j), Frame(op)[j + 1]) = Piece(op, i, j + 1)
<1> DEFINE p == Piece(op, i, j)
           b == Frame(op)[j + 1]
           q == Append(p, b)
<1>0. j \in 0 .. 5
  OBVIOUS
<1>1. p \in Seq(Char) /\ Len(p) = j - i /\ \A m \in 1 .. j - i : p[m] = Frame(op)[i + m]
  BY <1>0, PieceBytes
<1>2. b \in Char
  <2>1. Frame(op) \in Seq(Char) /\ Len(Frame(op)) = 5 /\ j + 1 \in 1 .. 5
    BY FrameStart
  <2> QED
    BY <2>1, ElementOfSeq
<1> HIDE DEF p
<1>3. /\ q \in Seq(Char) /\ Len(q) = j + 1 - i
      /\ \A m \in 1 .. j - i : q[m] = p[m]
      /\ q[j - i + 1] = b
  <2> HIDE DEF b
  <2> QED
    BY <1>1, <1>2, AppendProperties
<1> HIDE DEF q
<1>4. \A m \in 1 .. j + 1 - i : q[m] = Frame(op)[i + m]
  <2> TAKE m \in 1 .. j + 1 - i
  <2>1. CASE m \in 1 .. j - i
    BY <1>1, <1>3, <2>1
  <2>2. CASE m = j - i + 1
    <3>1. i + m = j + 1
      BY <2>2
    <3> QED
      BY <1>3, <2>2, <3>1
  <2> QED
    BY <2>1, <2>2
<1> DEFINE k == j + 1
<1>5. k \in 0 .. 5 /\ i <= k
  OBVIOUS
<1>6. q = Piece(op, i, k)
  <2>1. Len(q) = k - i /\ \A m \in 1 .. k - i : q[m] = Frame(op)[i + m]
    BY <1>3, <1>4
  <2> HIDE DEF k
  <2> QED
    BY <1>3, <1>5, <2>1, SamePiece
<1> QED
  BY <1>6 DEF p, q

LEMMA PieceCut ==
    ASSUME NEW op \in Ops, NEW i \in 0 .. 5, NEW j \in 0 .. 5, i <= j, NEW n \in 1 .. j - i
    PROVE  /\ SubSeq(Piece(op, i, j), 1, n) = Piece(op, i, i + n)
           /\ SubSeq(Piece(op, i, j), n + 1, Len(Piece(op, i, j))) = Piece(op, i + n, j)
<1> DEFINE p == Piece(op, i, j)
           a == SubSeq(p, 1, n)
           z == SubSeq(p, n + 1, Len(p))
<1>0. i <= j
  OBVIOUS
<1>1. p \in Seq(Char) /\ Len(p) = j - i /\ \A m \in 1 .. j - i : p[m] = Frame(op)[i + m]
  BY <1>0, PieceBytes
<1> HIDE DEF p
<1>2. a \in Seq(Char) /\ Len(a) = n /\ \A m \in 1 .. n : m \in 1 .. j - i /\ a[m] = p[m]
  BY <1>1, SubSeqProperties
<1>3. /\ z \in Seq(Char) /\ Len(z) = j - (i + n)
      /\ \A m \in 1 .. j - (i + n) : n + m \in 1 .. j - i /\ z[m] = p[n + m]
  <2> DEFINE l == Len(p)
  <2>1. n + 1 \in 1 .. l + 1 /\ l \in n .. l /\ l = j - i
    BY <1>1
  <2>2. /\ z \in Seq(Char) /\ Len(z) = l - n
        /\ \A m \in 1 .. l - n : z[m] = p[n + m]
    BY <1>1, <2>1, SubSeqProperties
  <2> HIDE DEF l, z
  <2>3. l - n = j - (i + n) /\ \A m \in 1 .. l - n : n + m \in 1 .. j - i
    BY <2>1
  <2> QED
    BY <2>2, <2>3
<1> HIDE DEF a, z
<1> DEFINE k == i + n
<1>4. k \in 0 .. 5 /\ i <= k /\ k <= j /\ k - i = n
  OBVIOUS
<1>5. a \in Seq(Char) /\ Len(a) = k - i /\ \A m \in 1 .. k - i : a[m] = Frame(op)[i + m]
  BY <1>1, <1>2, <1>4
<1>6. z \in Seq(Char) /\ Len(z) = j - k /\ \A m \in 1 .. j - k : z[m] = Frame(op)[k + m]
  <2>1. \A m \in 1 .. j - k : i + (n + m) = k + m /\ n + m \in 1 .. j - i
    OBVIOUS
  <2> QED
    BY <1>1, <1>3, <2>1
<1> HIDE DEF k
<1>7. a = Piece(op, i, k)
  BY <1>4, <1>5, SamePiece, Zenon
<1>8. z = Piece(op, k, j)
  BY <1>4, <1>6, SamePiece, Zenon
<1> QED
  BY <1>7, <1>8 DEF p, a, z, k

LEMMA ChecksumOfOne == \A op \in 0 .. 255 : Checksum(<<op>>) = op
<1> TAKE op \in 0 .. 255
<1> DEFINE Sum(f, s) == IF s = {} THEN 0
                        ELSE LET x == CHOOSE y \in s : TRUE
                             IN  (<<op>>[x] + f[s \ {x}]) % 256
           Iter(f) == f = [s \in SUBSET {1} |-> Sum(f, s)]
           g == [s \in SUBSET {1} |-> IF s = {} THEN 0 ELSE op]
<1>1. Checksum(<<op>>) = (CHOOSE f : Iter(f))[{1}]
  BY DOMAIN <<op>> = {1} DEF Checksum, FoldSeq, FoldFunction, FoldFunctionOnSet, MapThenFoldSet
<1>2. /\ \A s \in SUBSET {1} : s = {} \/ s = {1}
      /\ {} \in SUBSET {1} /\ {1} \in SUBSET {1} /\ {1} # {}
  OBVIOUS
<1>3. ASSUME NEW f, f[{}] = 0 PROVE Sum(f, {1}) = op
  <2> DEFINE x == CHOOSE y \in {1} : TRUE
  <2>1. x = 1
    OBVIOUS
  <2>2. Sum(f, {1}) = (<<op>>[x] + f[{1} \ {x}]) % 256
    OBVIOUS
  <2> HIDE DEF x, Sum
  <2>3. <<op>>[x] = op /\ {1} \ {x} = {}
    BY <2>1
  <2>4. (op + 0) % 256 = op
    OBVIOUS
  <2> QED
    BY <1>3, <2>2, <2>3, <2>4
<1>4. \A f : Sum(f, {}) = 0
  OBVIOUS
<1> HIDE DEF Sum
<1>5. ASSUME NEW f, Iter(f) PROVE f[{1}] = op
  <2>1. f[{}] = Sum(f, {}) /\ f[{1}] = Sum(f, {1})
    BY <1>2, <1>5
  <2> QED
    BY <1>3, <1>4, <2>1
<1>6. Iter(g)
  <2>1. g[{}] = 0 /\ g[{1}] = op
    BY <1>2
  <2>2. \A s \in SUBSET {1} : g[s] = Sum(g, s)
    <3> HIDE DEF g
    <3>1. Sum(g, {}) = 0 /\ Sum(g, {1}) = op
      BY <1>3, <1>4, <2>1
    <3>2. g[{}] = Sum(g, {}) /\ g[{1}] = Sum(g, {1})
      BY <2>1, <3>1
    <3> QED
      BY <1>2, <3>2
  <2>3. g = [s \in SUBSET {1} |-> g[s]]
    OBVIOUS
  <2> HIDE DEF g
  <2> QED
    BY <2>2, <2>3
<1> HIDE DEF Iter
<1>7. Iter(CHOOSE f : Iter(f))
  BY <1>6
<1> QED
  BY <1>1, <1>5, <1>7

\* What the reader makes of the five bytes.
LEMMA FrameBytes ==
    ASSUME NEW op \in Ops
    PROVE  /\ Frame(op)[1] = Dollar /\ Frame(op)[2] = op /\ Frame(op)[3] = Hash
           /\ op # Hash
           /\ \A i \in 1 .. 5 : Frame(op)[i] # Intr
           /\ Checksum(<<op>>) = Expected(HexVal(Frame(op)[4]), HexVal(Frame(op)[5]))
<1>1. op \in 97 .. 122
  BY LinkAssumption
<1> DEFINE h == op \div 16
           l == op % 16
<1>2. h \in 6 .. 7 /\ l \in 0 .. 15 /\ h * 16 + l = op
  BY <1>1
<1> HIDE DEF h, l
<1>3. HexChar(h) # Intr /\ HexVal(HexChar(h)) = h
  BY <1>2 DEF HexChar, HexVal, Intr
<1>4. HexChar(l) # Intr /\ HexVal(HexChar(l)) = l
  BY <1>2 DEF HexChar, HexVal, Intr
<1>5. Frame(op) = <<Dollar, op, Hash, HexChar(h), HexChar(l)>>
  BY DEF Frame, h, l
<1>6. Expected(h, l) = op
  BY <1>2 DEF Expected
<1>7. Checksum(<<op>>) = op
  <2>1. op \in 0 .. 255
    BY <1>1
  <2> QED
    BY <2>1, ChecksumOfOne, Zenon
<1>8. /\ Frame(op)[1] = Dollar /\ Frame(op)[2] = op /\ Frame(op)[3] = Hash
      /\ Frame(op)[4] = HexChar(h) /\ Frame(op)[5] = HexChar(l)
  BY <1>5
<1>9. op # Intr /\ op # Hash /\ Dollar # Intr /\ Hash # Intr
  BY <1>1 DEF Intr, Hash, Dollar
<1>10. ASSUME NEW i \in 1 .. 5 PROVE Frame(op)[i] # Intr
  <2>1. i = 1 \/ i = 2 \/ i = 3 \/ i = 4 \/ i = 5
    OBVIOUS
  <2> QED
    BY <1>3, <1>4, <1>8, <1>9, <2>1
<1> QED
  BY <1>3, <1>4, <1>6, <1>7, <1>8, <1>9, <1>10

LEMMA FrameWhole ==
    ASSUME NEW op \in Ops
    PROVE  /\ Piece(op, 0, 5) = Frame(op)
           /\ Piece(op, 0, 2) = SubSeq(Frame(op), 1, 2)
           /\ Piece(op, 2, 5) = SubSeq(Frame(op), 3, 5)
<1>1. Frame(op) \in Seq(Char) /\ Len(Frame(op)) = 5
  BY FrameStart
<1>2. Frame(op) = Piece(op, 0, 5)
  <2> DEFINE s == Frame(op)
  <2>1. Len(s) = 5 - 0 /\ \A m \in 1 .. 5 - 0 : s[m] = Frame(op)[0 + m]
    BY <1>1
  <2> HIDE DEF s
  <2>2. s \in Seq(Char)
    BY <1>1 DEF s
  <2>3. s = Piece(op, 0, 5)
    BY <2>1, <2>2, SamePiece
  <2> QED
    BY <2>3 DEF s
<1>3. 0 + 1 = 1 /\ 2 + 1 = 3
  OBVIOUS
<1> QED
  BY <1>2, <1>3 DEF Piece

LEMMA CountsStep ==
    ASSUME LinkTypes, CountTypes, [Next]_vars
    PROVE  CountTypes'
<1>1. /\ sent \in [Ops -> 0 .. MaxCount] /\ ran \in [Ops \cup {0} -> 0 .. MaxCount]
      /\ gdb.mode # "idle" => gdb.op \in Ops
  BY DEF CountTypes, LinkTypes, GdbTypes
<1>2. Letter(pkt) \in Ops \cup {0}
  BY DEF Letter
<1>3. sent' = sent \/ \E op \in Ops : sent' = Counted(sent, op)
  BY <1>1
  DEF Next, Send, TimeOut, Interrupt, Read, Deliver, Enqueue, Stray, ServerTask, Receive,
      ReadInterrupt, ReadStart, ReadPayload, ReadChecksum, NextByte, HandlerReply, Publish, world,
      vars, Transmit
<1>4. ran' = ran \/ ran' = Counted(ran, Letter(pkt))
  BY DEF Next, Send, TimeOut, Interrupt, Read, Deliver, Enqueue, Stray, ServerTask, Receive,
      ReadInterrupt, ReadStart, ReadPayload, ReadChecksum, NextByte, HandlerReply, Publish, world,
      vars
<1>5. sent' \in [Ops -> 0 .. MaxCount]
  BY <1>1, <1>3, CountedType
<1>6. ran' \in [Ops \cup {0} -> 0 .. MaxCount]
  <2> DEFINE S == Ops \cup {0}
  <2> HIDE DEF S
  <2>1. ran \in [S -> 0 .. MaxCount] /\ Letter(pkt) \in S
    BY <1>1, <1>2 DEF S
  <2>2. ran' \in [S -> 0 .. MaxCount]
    BY <1>4, <2>1, CountedType
  <2> QED
    BY <2>2 DEF S
<1> QED
  BY <1>5, <1>6 DEF CountTypes

\* Without a fault the next phase is one of the five: a lemma for each step.
LEMMA PhaseTypes ==
    ASSUME LinkTypes, Phases
    PROVE  /\ gdb.mode # "idle" => gdb.op \in Ops
           /\ gdb.mode = "idle" => Prompt
           /\ PktMax \in Nat \ {0} /\ RxDepth \in Nat \ {0} /\ BatchMax \in Nat \ {0}
<1>1. gdb.mode = "idle" => Prompt
  BY DEF Phases, Prompt, Coming, Taken, Returning, Owed, Running
<1> QED
  BY <1>1, LinkAssumption DEF LinkTypes, GdbTypes

LEMMA SendPhase ==
    ASSUME LinkTypes, CountTypes, Sound, NEW op \in Ops, Send(op)
    PROVE  Sound'
<1>1. /\ gdb.mode = "idle" /\ Transmit(op) /\ sent' = Counted(sent, op)
      /\ gdb' = [mode |-> "unacked", op |-> op, n |-> gdb.n + 1, intr |-> FALSE,
                 asked |-> Counted(gdb.asked, op)]
      /\ UNCHANGED <<incoming, rx, batch, state, handling, s_pending_ack, tx, toGdb, ran>>
  BY DEF Send, reader, Transmit
<1>2. Prompt
  BY <1>1, PhaseTypes DEF Sound
<1>3. net' = <<Piece(op, 0, 5)>> \/ net' = <<Piece(op, 0, 2), Piece(op, 2, 5)>>
  <2>1. \/ net' = net \o <<Frame(op)>>
        \/ net' = net \o <<SubSeq(Frame(op), 1, 2), SubSeq(Frame(op), 2 + 1, 5)>>
    BY <1>1 DEF Transmit
  <2>2. net = <<>> /\ 2 + 1 = 3
    BY <1>2 DEF Prompt, PipeEmpty
  <2>3. \A x, y : <<>> \o <<x>> = <<x>> /\ <<>> \o <<x, y>> = <<x, y>>
    OBVIOUS
  <2>4. net' = <<Frame(op)>> \/ net' = <<SubSeq(Frame(op), 1, 2), SubSeq(Frame(op), 3, 5)>>
    BY <2>1, <2>2, <2>3, Zenon
  <2> QED
    BY <2>4, FrameWhole, Zenon
<1>4. Piece(op, 0, 0) = <<>>
  BY PieceOfFrame
<1>5. gdb'.op = op /\ gdb'.mode = "unacked" /\ gdb'.intr = FALSE /\ gdb'.asked = Counted(gdb.asked, op)
  BY <1>1
<1>6. ReaderAt(0)'
  BY <1>1, <1>2 DEF Prompt, Between, ReaderAt
<1>7. PipeAt(0, 0, 0, 0)'
  <2>1. NetAt(0)'
    BY <1>3, <1>5 DEF NetAt
  <2>2. batch' = <<>> /\ rx' = <<>> /\ incoming' = <<>>
    BY <1>1, <1>2 DEF Prompt, PipeEmpty
  <2> QED
    BY <1>4, <1>5, <2>1, <2>2 DEF PipeAt
<1>8. AllButOneRan'
  <2>1. ran \in [Ops \cup {0} -> 0 .. MaxCount] /\ sent \in [Ops -> 0 .. MaxCount]
    BY DEF CountTypes
  <2>2. \A o \in Ops : ran[o] = sent[o]
    BY <1>2 DEF Prompt, AllRan
  <2>3. \A o \in Ops : Counted(ran, op)[o] = Counted(sent, op)[o]
    BY <2>1, <2>2 DEF Counted
  <2> QED
    BY <1>1, <1>5, <2>3 DEF AllButOneRan
<1>9. Waiting' /\ ReplyEmpty'
  BY <1>1, <1>2 DEF Prompt, Waiting, ReplyEmpty
<1>10. Coming'
  BY <1>5, <1>6, <1>7, <1>8, <1>9 DEF Coming
<1> QED
  BY <1>1, <1>5, <1>10 DEF Sound, Phases

LEMMA InterruptPhase ==
    ASSUME LinkTypes, Sound, Interrupt
    PROVE  Sound'
<1>1. /\ gdb.mode = "running" /\ (~gdb.intr \/ Quiet)
      /\ gdb' = [gdb EXCEPT !.intr = TRUE] /\ net' = Append(net, <<Intr>>)
      /\ UNCHANGED <<incoming, rx, batch, state, handling, s_pending_ack, tx, toGdb, sent, ran>>
  BY DEF Interrupt, reader, world
<1>2. Running /\ ~gdb.intr /\ PipeEmpty /\ handling = None
  <2>1. Running \/ Returning
    BY <1>1 DEF Sound, Phases, Prompt, Coming, Taken
  <2>2. ASSUME Returning PROVE FALSE
    <3>1. gdb.intr
      BY <1>1, <2>2 DEF Returning, Owed
    <3>2. tx = <<>> /\ toGdb = <<>>
      BY <1>1, <3>1 DEF Quiet
    <3>3. Len(tx) # 1 /\ Owed(toGdb)
      BY <2>2, <3>2 DEF Returning
    <3>4. \E x : toGdb = <<x>>
      BY <1>1, <3>3 DEF Owed
    <3> QED
      BY <3>2, <3>4
  <2>3. CASE ~gdb.intr
    BY <2>1, <2>2, <2>3 DEF Running
  <2>4. ASSUME gdb.intr PROVE FALSE
    <3>1. Quiet
      BY <1>1, <2>4
    <3>2. StopComing \/ handling \in Handled
      BY <2>1, <2>2, <2>4 DEF Running
    <3>3. ~(handling \in Handled)
      <4>1. handling = None
        BY <3>1 DEF Quiet
      <4> QED
        BY <4>1, LinkAssumption DEF None, Handled, Intr
    <3> QED
      BY <3>1, <3>2, <3>3 DEF StopComing, Quiet
  <2> QED
    BY <2>3, <2>4
<1>3. StopComing'
  BY <1>1, <1>2 DEF PipeEmpty, StopComing
<1>4. gdb'.mode = "running" /\ gdb'.intr /\ gdb'.asked = gdb.asked
  BY <1>1 DEF LinkTypes, GdbTypes, GdbRecords
<1>5. Running'
  BY <1>1, <1>2, <1>3, <1>4 DEF Running, Between, ReplyEmpty, AllRan
<1> QED
  BY <1>1, <1>4, <1>5 DEF Sound, Phases

LEMMA ReadPhase ==
    ASSUME LinkTypes, Sound, Read
    PROVE  Sound'
<1>1. /\ gdb.mode # "idle" /\ toGdb # <<>> /\ toGdb' = Tail(toGdb)
      /\ UNCHANGED <<incoming, rx, batch, state, handling, s_pending_ack, tx, ran>>
  BY DEF Read, reader
<1>2. Returning /\ tx = <<>> /\ Owed(toGdb)
  <2>1. Returning
    BY <1>1 DEF Sound, Phases, Prompt, Coming, Taken, Running, ReplyEmpty
  <2> QED
    BY <1>1, <2>1 DEF Returning
<1>3. gdb \in GdbRecords
  BY DEF LinkTypes, GdbTypes
<1> DEFINE Calm == UNCHANGED <<net, sent>> /\ gdb'.asked = gdb.asked
<1>4. ASSUME Calm PROVE PipeEmpty' /\ Between' /\ Waiting' /\ AllRan' /\ tx' = <<>> /\ sent' = gdb'.asked
  BY <1>1, <1>2, <1>4 DEF Returning, PipeEmpty, Between, Waiting, AllRan, Sound
<1>5. CASE gdb.mode = "unacked" /\ gdb.op = Continue /\ toGdb = <<Ack>>
  <2>1. Head(toGdb).kind = "+" /\ Tail(toGdb) = <<>>
    BY <1>5 DEF Ack
  <2>2. gdb' = [gdb EXCEPT !.mode = "running"] /\ UNCHANGED <<net, sent>>
    BY <1>5, <2>1 DEF Read
  <2>3. gdb'.mode = "running" /\ gdb'.intr = gdb.intr /\ Calm
    BY <1>3, <2>2 DEF GdbRecords
  <2>4. Running'
    BY <1>1, <1>4, <1>5, <2>1, <2>3 DEF Running, ReplyEmpty, Waiting, Sound
  <2> QED
    BY <1>4, <2>3, <2>4 DEF Sound, Phases
<1>6. CASE gdb.mode = "unacked" /\ gdb.op # Continue /\ \E a \in Answers : toGdb = <<Ack, a>>
  <2>1. PICK a \in Answers : toGdb = <<Ack, a>>
    BY <1>6
  <2>2. Head(toGdb).kind = "+" /\ Tail(toGdb) = <<a>>
    BY <2>1 DEF Ack
  <2>3. gdb' = [gdb EXCEPT !.mode = "waiting"] /\ UNCHANGED <<net, sent>>
    BY <1>6, <2>2 DEF Read
  <2>4. gdb'.mode = "waiting" /\ Calm
    BY <1>3, <2>3 DEF GdbRecords
  <2>5. Returning'
    BY <1>1, <1>4, <2>2, <2>4 DEF Returning, Owed
  <2> QED
    BY <1>4, <2>4, <2>5 DEF Sound, Phases
<1>7. CASE gdb.mode \in {"waiting", "running"} /\ \E a \in Answers : toGdb = <<a>>
  <2>1. PICK a \in Answers : toGdb = <<a>>
    BY <1>7
  <2>2. Head(toGdb).kind = "$" /\ Tail(toGdb) = <<>>
    BY <2>1 DEF Answers
  <2>3. gdb' = [gdb EXCEPT !.mode = "idle"] /\ UNCHANGED <<net, sent>>
    BY <1>7, <2>2 DEF Read
  <2>4. gdb'.mode = "idle" /\ Calm
    BY <1>3, <2>3 DEF GdbRecords
  <2>5. Prompt'
    BY <1>1, <1>4, <2>2, <2>4 DEF Prompt, ReplyEmpty
  <2> QED
    BY <1>4, <2>4, <2>5 DEF Sound, Phases
<1> QED
  BY <1>2, <1>5, <1>6, <1>7 DEF Owed

\* The phases in which something is on its way to the reader.
LEMMA PipePhase ==
    ASSUME LinkTypes, Phases, ~PipeEmpty
    PROVE  Coming \/ (Running /\ gdb.intr /\ StopComing /\ handling = None)
  BY DEF Phases, Prompt, Taken, Returning, Running

LEMMA NetHolds ==
    ASSUME NEW c, NetAt(c), net # <<>>
    PROVE  /\ c \in {0, 2}
           /\ \/ Head(net) = Piece(gdb.op, c, 5) /\ Tail(net) = <<>>
              \/ /\ c = 0 /\ Head(net) = Piece(gdb.op, 0, 2)
                 /\ Tail(net) = <<Piece(gdb.op, 2, 5)>>
<1>1. CASE net = <<Piece(gdb.op, c, 5)>> /\ c \in {0, 2}
  BY <1>1
<1>2. CASE net = <<Piece(gdb.op, 0, 2), Piece(gdb.op, 2, 5)>> /\ c = 0
  BY <1>2
<1> QED
  BY <1>1, <1>2 DEF NetAt

\* A step within the phase: the packet gets further, or ^C does.
LEMMA StillComing ==
    ASSUME Sound, Coming, UNCHANGED <<gdb, handling, s_pending_ack, tx, toGdb, sent, ran>>,
           NEW k \in 0 .. 4, NEW a \in 0 .. 5, NEW b \in 0 .. 5, NEW c \in 0 .. 5,
           ReaderAt(k)', PipeAt(k, a, b, c)'
    PROVE  Sound'
<1>1. Coming'
  BY DEF Coming, Waiting, ReplyEmpty, AllButOneRan
<1> QED
  BY <1>1 DEF Sound, Phases

LEMMA StillStopping ==
    ASSUME Sound, Running, gdb.intr, handling = None,
           UNCHANGED <<gdb, state, handling, s_pending_ack, tx, toGdb, sent, ran>>, StopComing'
    PROVE  Sound'
<1>1. Running'
  BY DEF Running, Between, ReplyEmpty, AllRan
<1> QED
  BY <1>1 DEF Sound, Phases

LEMMA DeliverPhase ==
    ASSUME LinkTypes, Sound, Deliver, UNCHANGED faults
    PROVE  Sound'
<1>1. /\ incoming = <<>> /\ net # <<>> /\ incoming' = Head(net) /\ net' = Tail(net)
      /\ UNCHANGED <<gdb, rx, batch, state, pkt, cksum, handling, s_pending_ack, tx, toGdb, sent, ran>>
  BY DEF Deliver, reader, LinkTypes
<1>2. Coming \/ (Running /\ gdb.intr /\ StopComing /\ handling = None)
  BY <1>1, PipePhase DEF PipeEmpty, Sound
<1>3. CASE Coming
  <2>1. PICK k \in 0 .. 4, a \in 0 .. 5, b \in 0 .. 5, c \in 0 .. 5 : ReaderAt(k) /\ PipeAt(k, a, b, c)
    BY <1>3 DEF Coming
  <2>2. gdb.op \in Ops
    BY <1>3, PhaseTypes DEF Coming, Sound
  <2>3. b = c /\ k <= a /\ a <= b /\ NetAt(c) /\ batch = Piece(gdb.op, k, a) /\ rx = Piece(gdb.op, a, b)
    <3>1. b <= c /\ Piece(gdb.op, b, c) = <<>>
      BY <1>1, <2>1 DEF PipeAt
    <3>2. b = c
      BY <2>2, <3>1, PieceLength
    <3> QED
      BY <2>1, <3>2 DEF PipeAt
  <2>4. /\ c \in {0, 2}
        /\ \/ incoming' = Piece(gdb.op, c, 5) /\ net' = <<>>
           \/ c = 0 /\ incoming' = Piece(gdb.op, 0, 2) /\ net' = <<Piece(gdb.op, 2, 5)>>
    BY <1>1, <2>3, NetHolds
  <2>5. ReaderAt(k)'
    BY <1>1, <2>1 DEF ReaderAt
  <2>6. PipeAt(k, a, b, 5)' \/ PipeAt(k, a, b, 2)'
    <3>1. CASE incoming' = Piece(gdb.op, c, 5) /\ net' = <<>>
      <4>1. NetAt(5)'
        BY <3>1 DEF NetAt
      <4> QED
        BY <1>1, <2>3, <3>1, <4>1 DEF PipeAt
    <3>2. CASE c = 0 /\ incoming' = Piece(gdb.op, 0, 2) /\ net' = <<Piece(gdb.op, 2, 5)>>
      <4>1. NetAt(2)'
        BY <1>1, <3>2 DEF NetAt
      <4> QED
        BY <1>1, <2>3, <3>2, <4>1 DEF PipeAt
    <3> QED
      BY <2>4, <3>1, <3>2
  <2> QED
    BY <1>1, <1>3, <2>5, <2>6, StillComing
<1>4. CASE Running /\ gdb.intr /\ StopComing /\ handling = None
  <2>1. net = <<<<Intr>>>> /\ rx = <<>> /\ batch = <<>>
    BY <1>1, <1>4 DEF StopComing
  <2>2. incoming' = <<Intr>> /\ net' = <<>>
    BY <1>1, <2>1
  <2>3. StopComing'
    BY <1>1, <2>1, <2>2 DEF StopComing
  <2> QED
    BY <1>1, <1>4, <2>3, StillStopping
<1> QED
  BY <1>2, <1>3, <1>4

LEMMA EnqueuePhase ==
    ASSUME LinkTypes, Sound, Enqueue, UNCHANGED faults
    PROVE  Sound'
<1>1. /\ incoming # <<>> /\ incoming' = Tail(incoming) /\ rx' = Append(rx, Head(incoming))
      /\ UNCHANGED <<gdb, net, batch, state, pkt, cksum, handling, s_pending_ack, tx, toGdb, sent, ran>>
  BY DEF Enqueue, reader, LinkTypes
<1>2. Coming \/ (Running /\ gdb.intr /\ StopComing /\ handling = None)
  BY <1>1, PipePhase DEF PipeEmpty, Sound
<1>3. CASE Coming
  <2>1. PICK k \in 0 .. 4, a \in 0 .. 5, b \in 0 .. 5, c \in 0 .. 5 : ReaderAt(k) /\ PipeAt(k, a, b, c)
    BY <1>3 DEF Coming
  <2>2. gdb.op \in Ops
    BY <1>3, PhaseTypes DEF Coming, Sound
  <2>3. /\ k <= a /\ a <= b /\ b <= c /\ NetAt(c) /\ batch = Piece(gdb.op, k, a)
        /\ rx = Piece(gdb.op, a, b) /\ incoming = Piece(gdb.op, b, c)
    BY <2>1 DEF PipeAt
  <2>4. b < c
    <3>1. b # c
      BY <1>1, <2>2, <2>3, PieceOfFrame
    <3> QED
      BY <2>3, <3>1
  <2>5. incoming' = Piece(gdb.op, b + 1, c) /\ Head(incoming) = Frame(gdb.op)[b + 1]
    BY <1>1, <2>2, <2>3, <2>4, PieceTail
  <2>6. rx' = Piece(gdb.op, a, b + 1)
    <3>1. b \in 0 .. 4
      BY <2>4
    <3> QED
      BY <1>1, <2>2, <2>3, <2>5, <3>1, PieceAppend
  <2>7. ReaderAt(k)' /\ NetAt(c)'
    BY <1>1, <2>1, <2>3 DEF ReaderAt, NetAt
  <2>8. b + 1 \in 0 .. 5 /\ a <= b + 1 /\ b + 1 <= c
    BY <2>3, <2>4
  <2>9. PipeAt(k, a, b + 1, c)'
    BY <1>1, <2>3, <2>5, <2>6, <2>7, <2>8 DEF PipeAt
  <2> QED
    BY <1>1, <1>3, <2>7, <2>8, <2>9, StillComing
<1>4. CASE Running /\ gdb.intr /\ StopComing /\ handling = None
  <2>1. incoming = <<Intr>> /\ net = <<>> /\ rx = <<>> /\ batch = <<>>
    BY <1>1, <1>4 DEF StopComing
  <2>2. incoming' = <<>> /\ rx' = <<Intr>>
    BY <1>1, <2>1
  <2>3. StopComing'
    BY <1>1, <2>1, <2>2 DEF StopComing
  <2> QED
    BY <1>1, <1>4, <2>3, StillStopping
<1> QED
  BY <1>2, <1>3, <1>4

LEMMA ReceivePhase ==
    ASSUME LinkTypes, Sound, Receive
    PROVE  Sound'
<1>1. /\ batch = <<>> /\ rx # <<>>
      /\ UNCHANGED <<gdb, net, incoming, state, pkt, cksum, handling, s_pending_ack, tx, toGdb, sent, ran>>
  BY DEF Receive, reader, world
<1>2. Coming \/ (Running /\ gdb.intr /\ StopComing /\ handling = None)
  BY <1>1, PipePhase DEF PipeEmpty, Sound
<1>3. PICK n \in 1 .. Len(rx) : batch' = SubSeq(rx, 1, n) /\ rx' = SubSeq(rx, n + 1, Len(rx))
  <2> DEFINE N == IF Len(rx) < BatchMax THEN Len(rx) ELSE BatchMax
  <2>1. batch' = SubSeq(rx, 1, N) /\ rx' = SubSeq(rx, N + 1, Len(rx))
    BY DEF Receive
  <2>2. N \in 1 .. Len(rx)
    BY <1>1, LinkAssumption DEF LinkTypes, QueueTypes, PipeTypes
  <2> HIDE DEF N
  <2> QED
    BY <2>1, <2>2
<1>4. CASE Coming
  <2>1. PICK k \in 0 .. 4, a \in 0 .. 5, b \in 0 .. 5, c \in 0 .. 5 : ReaderAt(k) /\ PipeAt(k, a, b, c)
    BY <1>4 DEF Coming
  <2>2. gdb.op \in Ops
    BY <1>4, PhaseTypes DEF Coming, Sound
  <2>3. /\ k <= a /\ a <= b /\ b <= c /\ NetAt(c) /\ batch = Piece(gdb.op, k, a)
        /\ rx = Piece(gdb.op, a, b) /\ incoming = Piece(gdb.op, b, c)
    BY <2>1 DEF PipeAt
  <2>4. k = a
    <3>1. k \in 0 .. 5
      OBVIOUS
    <3> QED
      BY <1>1, <2>2, <2>3, <3>1, PieceLength
  <2>5. n \in 1 .. b - a
    <3>1. Len(rx) = b - a
      BY <2>2, <2>3, PieceLength
    <3> QED
      BY <1>3, <3>1
  <2>6. batch' = Piece(gdb.op, a, a + n) /\ rx' = Piece(gdb.op, a + n, b)
    BY <1>3, <2>2, <2>3, <2>5, PieceCut
  <2>7. ReaderAt(k)' /\ NetAt(c)'
    BY <1>1, <2>1, <2>3 DEF ReaderAt, NetAt
  <2> DEFINE d == a + n
  <2>8. d \in 0 .. 5 /\ a <= d /\ d <= b /\ batch' = Piece(gdb.op, a, d) /\ rx' = Piece(gdb.op, d, b)
    BY <2>3, <2>5, <2>6
  <2> HIDE DEF d
  <2>9. PipeAt(k, d, b, c)'
    <3>1. k <= d
      BY <2>4, <2>8
    <3> QED
      BY <1>1, <2>3, <2>4, <2>7, <2>8, <3>1 DEF PipeAt
  <2> QED
    BY <1>1, <1>4, <2>7, <2>8, <2>9, StillComing
<1>5. CASE Running /\ gdb.intr /\ StopComing /\ handling = None
  <2>1. rx = <<Intr>> /\ net = <<>> /\ incoming = <<>> /\ batch = <<>>
    BY <1>1, <1>5 DEF StopComing
  <2>2. n = 1
    <3>1. Len(rx) = 1
      BY <2>1
    <3> QED
      BY <1>3, <3>1
  <2>3. batch' = <<Intr>> /\ rx' = <<>>
    <3>1. rx \in Seq(Char) /\ Len(rx) = 1 /\ rx[1] = Intr
      BY <2>1 DEF LinkTypes, QueueTypes, PipeTypes
    <3>2. batch' \in Seq(Char) /\ Len(batch') = 1 /\ batch'[1] = Intr /\ rx' \in Seq(Char) /\ Len(rx') = 0
      BY <1>1, <1>3, <2>2, <3>1, CutStart
    <3>3. rx' = <<>>
      BY <3>2
    <3>4. batch' = <<Intr>>
      <4> DEFINE q == <<Intr>>
      <4>1. q \in Seq(Char) /\ Len(q) = 1 /\ q[1] = Intr
        BY DEF Char, Intr
      <4> HIDE DEF q
      <4>2. \A i \in 1 .. Len(q) : batch'[i] = q[i]
        BY <3>2, <4>1
      <4>3. batch' = q
        BY <3>2, <4>1, <4>2, SeqEqual
      <4> QED
        BY <4>3 DEF q
    <3> QED
      BY <3>3, <3>4
  <2>4. StopComing'
    BY <1>1, <2>1, <2>3 DEF StopComing
  <2> QED
    BY <1>1, <1>5, <2>4, StillStopping
<1> QED
  BY <1>2, <1>4, <1>5

LEMMA ByteComing ==
    ASSUME gdb.op \in Ops, NEW k \in 0 .. 4, NEW a \in 0 .. 5, NEW b \in 0 .. 5, NEW c \in 0 .. 5,
           PipeAt(k, a, b, c), NextByte
    PROVE  /\ k < a /\ Byte = Frame(gdb.op)[k + 1] /\ batch' = Piece(gdb.op, k + 1, a)
           /\ a <= b /\ b <= c /\ NetAt(c)'
           /\ rx' = Piece(gdb.op, a, b) /\ incoming' = Piece(gdb.op, b, c)
           /\ gdb' = gdb
<1>1. /\ batch # <<>> /\ batch' = Tail(batch) /\ batch = Piece(gdb.op, k, a) /\ k <= a
      /\ a <= b /\ b <= c /\ NetAt(c) /\ rx = Piece(gdb.op, a, b) /\ incoming = Piece(gdb.op, b, c)
      /\ UNCHANGED <<gdb, net, incoming, rx>> /\ k \in 0 .. 5
  BY DEF PipeAt, NextByte
<1>2. k < a
  <2>1. k # a
    BY <1>1, PieceOfFrame
  <2> QED
    BY <1>1, <2>1
<1>3. Byte = Frame(gdb.op)[k + 1] /\ batch' = Piece(gdb.op, k + 1, a)
  BY <1>1, <1>2, PieceTail DEF Byte
<1>4. NetAt(c)'
  BY <1>1 DEF NetAt
<1> QED
  BY <1>1, <1>2, <1>3, <1>4

\* The reader takes one of the first four bytes.
LEMMA ReaderComing ==
    ASSUME LinkTypes, Sound, Coming, NextByte, UNCHANGED <<handling, s_pending_ack, tx, ran>>,
           NEW k \in 0 .. 3, NEW a \in 0 .. 5, NEW b \in 0 .. 5, NEW c \in 0 .. 5,
           PipeAt(k, a, b, c), ReaderAt(k + 1)'
    PROVE  Sound'
<1>1. gdb.op \in Ops
  BY PhaseTypes DEF Coming, Sound
<1>2. k \in 0 .. 4
  OBVIOUS
<1>3. /\ k < a /\ batch' = Piece(gdb.op, k + 1, a) /\ a <= b /\ b <= c /\ NetAt(c)'
      /\ rx' = Piece(gdb.op, a, b) /\ incoming' = Piece(gdb.op, b, c) /\ gdb' = gdb
  BY <1>1, <1>2, ByteComing
<1>4. PICK m \in 0 .. 4 : m = k + 1
  OBVIOUS
<1>5. m <= a /\ ReaderAt(m)'
  BY <1>3, <1>4
<1>6. PipeAt(m, a, b, c)'
  BY <1>3, <1>4, <1>5 DEF PipeAt
<1>7. UNCHANGED <<gdb, handling, s_pending_ack, tx, toGdb, sent, ran>>
  BY DEF NextByte
<1> QED
  BY <1>5, <1>6, <1>7, StillComing

LEMMA InterruptReadPhase ==
    ASSUME LinkTypes, Sound, ReadInterrupt
    PROVE  Sound'
<1>1. /\ NextByte /\ Byte = Intr /\ handling' = Handle(Intr) /\ batch # <<>>
      /\ UNCHANGED <<gdb, net, incoming, rx, state, s_pending_ack, tx, toGdb, sent, ran>>
  BY DEF ReadInterrupt, NextByte, reader
<1>2. Coming \/ (Running /\ gdb.intr /\ StopComing /\ handling = None)
  BY <1>1, PipePhase DEF PipeEmpty, Sound
<1>3. ASSUME Coming PROVE FALSE
  <2>1. PICK k \in 0 .. 4, a \in 0 .. 5, b \in 0 .. 5, c \in 0 .. 5 : ReaderAt(k) /\ PipeAt(k, a, b, c)
    BY <1>3 DEF Coming
  <2>2. gdb.op \in Ops
    BY <1>3, PhaseTypes DEF Coming, Sound
  <2>3. Byte = Frame(gdb.op)[k + 1]
    BY <1>1, <2>1, <2>2, ByteComing
  <2>4. k + 1 \in 1 .. 5
    OBVIOUS
  <2>5. Frame(gdb.op)[k + 1] # Intr
    BY <2>2, <2>4, FrameBytes, Zenon
  <2> QED
    BY <1>1, <2>3, <2>5
<1>4. Running /\ gdb.intr /\ batch = <<Intr>> /\ net = <<>> /\ incoming = <<>> /\ rx = <<>>
  BY <1>1, <1>2, <1>3 DEF StopComing
<1>5. batch' = <<>>
  BY <1>1, <1>4 DEF NextByte
<1>6. handling' \in Handled /\ handling'.op = Intr
  BY <1>1, HandleType DEF LinkTypes, Handle
<1>7. Running'
  BY <1>1, <1>4, <1>5, <1>6 DEF Running, Between, ReplyEmpty, AllRan, PipeEmpty
<1> QED
  BY <1>1, <1>7 DEF Sound, Phases

\* The last byte: the sum is right and the packet is taken.
LEMMA LastBytePhase ==
    ASSUME LinkTypes, Sound, Coming, ReadChecksum, NEW a \in 0 .. 5, NEW b \in 0 .. 5, NEW c \in 0 .. 5,
           PipeAt(4, a, b, c), pkt = <<gdb.op>>, cksum = <<Frame(gdb.op)[4]>>
    PROVE  Sound'
<1>1. gdb.op \in Ops /\ PktMax \in Nat \ {0}
  BY PhaseTypes DEF Coming, Sound
<1>2. /\ 4 < a /\ Byte = Frame(gdb.op)[4 + 1] /\ batch' = Piece(gdb.op, 4 + 1, a)
      /\ a <= b /\ b <= c /\ NetAt(c)'
      /\ rx' = Piece(gdb.op, a, b) /\ incoming' = Piece(gdb.op, b, c) /\ gdb' = gdb
  BY <1>1, ByteComing DEF ReadChecksum
<1>3. a = 5 /\ b = 5 /\ c = 5 /\ 4 + 1 = 5
  BY <1>2
<1>4. Piece(gdb.op, 5, 5) = <<>>
  BY <1>1, PieceOfFrame
<1>5. PipeEmpty'
  <2>1. net' = <<>>
    BY <1>2, <1>3 DEF NetAt
  <2> QED
    BY <1>2, <1>3, <1>4, <2>1 DEF PipeEmpty
<1>6. SumRight
  <2>1. cksum[1] = Frame(gdb.op)[4]
    OBVIOUS
  <2> QED
    BY <1>1, <1>2, <1>3, <2>1, FrameBytes DEF SumRight
<1>7. Letter(pkt) = gdb.op
  BY <1>1 DEF Letter
<1>8. /\ s_pending_ack' = TRUE /\ handling' = Handle(gdb.op) /\ ran' = Counted(ran, gdb.op)
      /\ tx' = tx /\ state' = "WAIT_START" /\ toGdb' = toGdb /\ sent' = sent
  <2>1. cksum # <<>>
    OBVIOUS
  <2> QED
    BY <1>6, <1>7, <2>1 DEF ReadChecksum, NextByte
<1>9. handling' \in Handled /\ handling'.op = gdb'.op
  BY <1>1, <1>2, <1>8, HandleType DEF LinkTypes, Handle
<1>10. AllRan'
  BY <1>8 DEF Coming, AllButOneRan, AllRan
<1>11. Taken'
  BY <1>2, <1>5, <1>8, <1>9, <1>10 DEF Coming, Taken, Between, ReplyEmpty
<1> QED
  BY <1>2, <1>8, <1>11 DEF Sound, Phases

LEMMA ReaderPhase ==
    ASSUME LinkTypes, Sound, ReadStart \/ ReadPayload \/ ReadChecksum
    PROVE  Sound'
<1>1. NextByte /\ Byte # Intr /\ batch # <<>>
  BY DEF ReadStart, ReadPayload, ReadChecksum, NextByte
<1>2. Coming
  <2>1. Coming \/ batch = <<Intr>>
    BY <1>1, PipePhase DEF PipeEmpty, StopComing, Sound
  <2> QED
    BY <1>1, <2>1 DEF Byte
<1>3. PICK k \in 0 .. 4, a \in 0 .. 5, b \in 0 .. 5, c \in 0 .. 5 : ReaderAt(k) /\ PipeAt(k, a, b, c)
  BY <1>2 DEF Coming
<1>4. gdb.op \in Ops /\ PktMax \in Nat \ {0}
  BY <1>2, PhaseTypes DEF Coming, Sound
<1>5. Byte = Frame(gdb.op)[k + 1] /\ gdb' = gdb
  BY <1>1, <1>3, <1>4, ByteComing
<1>6. CASE ReadStart
  <2>1. k = 0
    BY <1>3, <1>6 DEF ReaderAt, ReadStart
  <2>2. Byte = Dollar
    <3>1. Byte = Frame(gdb.op)[1]
      BY <1>5, <2>1
    <3> QED
      BY <1>4, <3>1, FrameBytes
  <2>3. ReaderAt(k + 1)' /\ UNCHANGED <<handling, s_pending_ack, tx, ran>>
    BY <1>6, <2>1, <2>2 DEF ReadStart, ReaderAt
  <2> QED
    BY <1>1, <1>2, <1>3, <2>1, <2>3, ReaderComing
<1>7. CASE ReadPayload /\ k = 1
  <2>1. Byte = gdb.op /\ Byte # Hash /\ pkt = <<>>
    <3>1. Byte = Frame(gdb.op)[2]
      BY <1>5, <1>7
    <3>2. pkt = <<>>
      BY <1>3, <1>7 DEF ReaderAt
    <3> QED
      BY <1>4, <3>1, <3>2, FrameBytes
  <2>2. pkt' = <<gdb.op>> /\ state' = "IN_PACKET" /\ UNCHANGED <<handling, s_pending_ack, tx, ran>>
    BY <1>4, <1>7, <2>1 DEF ReadPayload
  <2>3. ReaderAt(k + 1)'
    BY <1>5, <1>7, <2>2 DEF ReaderAt
  <2> QED
    BY <1>1, <1>2, <1>3, <1>7, <2>2, <2>3, ReaderComing
<1>8. CASE ReadPayload /\ k # 1
  <2>1. k = 2 /\ pkt = <<gdb.op>>
    BY <1>3, <1>8 DEF ReaderAt, ReadPayload
  <2>2. Byte = Hash
    BY <1>4, <1>5, <2>1, FrameBytes
  <2>3. ReaderAt(k + 1)' /\ UNCHANGED <<handling, s_pending_ack, tx, ran>>
    BY <1>5, <1>8, <2>1, <2>2 DEF ReadPayload, ReaderAt
  <2> QED
    BY <1>1, <1>2, <1>3, <2>1, <2>3, ReaderComing
<1>9. CASE ReadChecksum /\ cksum = <<>>
  <2>1. k = 3 /\ pkt = <<gdb.op>>
    BY <1>3, <1>9 DEF ReaderAt, ReadChecksum
  <2>2. Byte = Frame(gdb.op)[4]
    BY <1>5, <2>1
  <2>3. ReaderAt(k + 1)' /\ UNCHANGED <<handling, s_pending_ack, tx, ran>>
    BY <1>5, <1>9, <2>1, <2>2 DEF ReadChecksum, ReaderAt
  <2> QED
    BY <1>1, <1>2, <1>3, <2>1, <2>3, ReaderComing
<1>10. CASE ReadChecksum /\ cksum # <<>>
  <2>1. k = 4 /\ pkt = <<gdb.op>> /\ cksum = <<Frame(gdb.op)[4]>>
    BY <1>3, <1>10 DEF ReaderAt, ReadChecksum
  <2> QED
    BY <1>2, <1>3, <1>10, <2>1, LastBytePhase
<1> QED
  BY <1>6, <1>7, <1>8, <1>9, <1>10

LEMMA ReplyPhase ==
    ASSUME LinkTypes, Sound, HandlerReply
    PROVE  Sound'
<1>1. /\ handling # None /\ handling' = None /\ tx' = Append(tx, Reply) /\ s_pending_ack' = FALSE
      /\ state' = "WAIT_START" \/ state' = state
      /\ UNCHANGED <<gdb, net, incoming, rx, batch, toGdb, sent, ran>>
  BY DEF HandlerReply, Reply, world
<1>2. Taken \/ (Running /\ gdb.intr /\ PipeEmpty /\ handling \in Handled /\ handling.op = Intr)
  BY <1>1 DEF Sound, Phases, Prompt, Coming, Returning, Waiting, Running
<1>3. /\ PipeEmpty /\ Between /\ tx = <<>> /\ toGdb = <<>> /\ AllRan /\ handling \in Handled
  BY <1>2 DEF Taken, Running, ReplyEmpty
<1>4. PipeEmpty' /\ Between' /\ Waiting' /\ AllRan'
  BY <1>1, <1>3 DEF PipeEmpty, Between, Waiting, AllRan
<1>5. Len(tx') = 1 /\ tx'[1] = Reply /\ toGdb' = <<>>
  BY <1>1, <1>3
<1>6. Answer(handling) \in Answers
  BY <1>3, AnswerType
<1>7. Owed(Reply)
  <2>1. CASE Taken
    <3>1. handling.op = gdb.op /\ s_pending_ack /\ gdb.mode = "unacked"
      BY <2>1 DEF Taken
    <3>2. CASE gdb.op = Continue
      BY <3>1, <3>2 DEF Reply, Owed
    <3>3. CASE gdb.op # Continue
      <4>1. Reply = <<Ack>> \o <<Answer(handling)>>
        BY <3>1, <3>3 DEF Reply
      <4>2. Reply = <<Ack, Answer(handling)>>
        BY <4>1, PairOfOnes, Zenon
      <4> QED
        BY <1>6, <3>1, <3>3, <4>2 DEF Owed
    <3> QED
      BY <3>2, <3>3
  <2>2. CASE Running /\ gdb.intr /\ handling.op = Intr
    <3>1. Reply = <<Answer(handling)>>
      <4>1. handling.op # Continue /\ ~s_pending_ack
        BY <2>2 DEF Running, Intr, Continue
      <4> QED
        BY <1>3, <4>1, ReplyShape
    <3> QED
      BY <1>6, <2>2, <3>1 DEF Owed, Running
  <2> QED
    BY <1>2, <2>1, <2>2
<1>8. Owed(tx[1])'
  BY <1>1, <1>5, <1>7 DEF Owed
<1>9. Returning'
  BY <1>4, <1>5, <1>8 DEF Returning
<1> QED
  BY <1>1, <1>9 DEF Sound, Phases

LEMMA PublishPhase ==
    ASSUME LinkTypes, Sound, Publish, UNCHANGED faults
    PROVE  Sound'
<1>1. /\ tx # <<>> /\ tx' = Tail(tx) /\ toGdb' = toGdb \o Head(tx)
      /\ UNCHANGED <<gdb, net, incoming, rx, batch, state, handling, s_pending_ack, sent, ran>>
  BY DEF Publish, reader, LinkTypes
<1>2. Returning /\ Len(tx) = 1 /\ Owed(tx[1]) /\ toGdb = <<>>
  <2>1. Returning
    BY <1>1 DEF Sound, Phases, Prompt, Coming, Taken, Running, ReplyEmpty
  <2> QED
    BY <1>1, <2>1 DEF Returning
<1>3. tx \in Seq(ReplyMessages)
  BY DEF LinkTypes, ServerTypes
<1>4. tx' = <<>> /\ Head(tx) = tx[1] /\ tx[1] \in Seq(Replies)
  <2>1. tx' = <<>> /\ Head(tx) = tx[1] /\ tx[1] \in ReplyMessages
    BY <1>1, <1>2, <1>3
  <2> QED
    BY <2>1 DEF ReplyMessages
<1>5. toGdb' = tx[1]
  BY <1>1, <1>2, <1>4
<1>6. Owed(toGdb)'
  BY <1>1, <1>2, <1>5 DEF Owed
<1>7. Returning'
  BY <1>1, <1>2, <1>4, <1>6 DEF Returning, PipeEmpty, Between, Waiting, AllRan
<1> QED
  BY <1>1, <1>7 DEF Sound, Phases

\* Without a fault no packet is sent again: something is always on its way.
LEMMA SoundBusy ==
    ASSUME LinkTypes, Sound, gdb.mode = "unacked"
    PROVE  ~Quiet
<1> SUFFICES ASSUME Quiet PROVE FALSE
  OBVIOUS
<1>1. PipeEmpty /\ handling = None /\ tx = <<>> /\ toGdb = <<>>
  BY DEF Quiet, PipeEmpty
<1>2. CASE Coming
  <2>1. PICK k \in 0 .. 4, a \in 0 .. 5, b \in 0 .. 5, c \in 0 .. 5 : PipeAt(k, a, b, c)
    BY <1>2 DEF Coming
  <2>2. gdb.op \in Ops /\ k \in 0 .. 5
    BY PhaseTypes DEF Sound
  <2>3. k = a /\ a = b /\ b = c
    BY <1>1, <2>1, <2>2, PieceLength DEF PipeAt, PipeEmpty
  <2>4. c = 5
    BY <1>1, <2>1 DEF PipeAt, PipeEmpty, NetAt
  <2> QED
    BY <2>3, <2>4
<1>3. CASE Taken
  BY <1>1, <1>3, LinkAssumption DEF Taken, None, Handled, Intr
<1>4. CASE Returning
  <2>1. Owed(<<>>)
    BY <1>1, <1>4 DEF Returning
  <2> QED
    BY <2>1 DEF Owed
<1> QED
  BY <1>2, <1>3, <1>4 DEF Sound, Phases, Prompt, Running

LEMMA SoundStep ==
    LinkTypes /\ CountTypes /\ SoundLink /\ [Next]_vars => SoundLink'
<1> SUFFICES ASSUME LinkTypes, CountTypes, SoundLink, [Next]_vars, faults' = 0 PROVE Sound'
  BY DEF SoundLink
<1>1. faults \in Nat /\ (faults' = faults \/ faults' = faults + 1)
  BY LinkAssumption
  DEF LinkTypes, Next, Send, TimeOut, Interrupt, Read, Deliver, Enqueue, Stray, ServerTask, Receive,
      ReadInterrupt, ReadStart, ReadPayload, ReadChecksum, NextByte, HandlerReply, Publish, world,
      vars
<1>2. faults = 0 /\ UNCHANGED faults /\ Sound
  BY <1>1 DEF SoundLink
<1>3. CASE UNCHANGED vars
  <2>1. UNCHANGED <<gdb, net, incoming, rx, batch, state, pkt, cksum, handling, s_pending_ack, tx,
                    toGdb, sent, ran>>
    BY <1>3 DEF vars, reader, world
  <2>2. /\ PipeEmpty' = PipeEmpty /\ Between' = Between /\ Waiting' = Waiting
        /\ ReplyEmpty' = ReplyEmpty /\ AllRan' = AllRan /\ AllButOneRan' = AllButOneRan
    BY <2>1 DEF PipeEmpty, Between, Waiting, ReplyEmpty, AllRan, AllButOneRan
  <2>3. /\ \A k : ReaderAt(k)' = ReaderAt(k)
        /\ \A k, a, b, c : PipeAt(k, a, b, c)' = PipeAt(k, a, b, c)
    BY <2>1 DEF ReaderAt, PipeAt, NetAt
  <2>4. Coming' = Coming
    BY <2>1, <2>2, <2>3 DEF Coming
  <2>5. Returning' = Returning
    BY <2>1, <2>2 DEF Returning, Owed
  <2>6. Running' = Running
    BY <2>1, <2>2 DEF Running, StopComing
  <2>7. Prompt' = Prompt /\ Taken' = Taken
    BY <2>1, <2>2 DEF Prompt, Taken
  <2>8. Phases' = Phases
    BY <2>4, <2>5, <2>6, <2>7 DEF Phases
  <2> QED
    BY <1>2, <2>1, <2>8 DEF Sound
<1>4. CASE Next
  <2>1. ASSUME NEW op \in Ops, Send(op) PROVE Sound'
    BY <1>2, <2>1, SendPhase
  <2>2. ASSUME TimeOut PROVE FALSE
    BY <1>2, <2>2, SoundBusy DEF TimeOut
  <2>3. CASE Interrupt
    BY <1>2, <2>3, InterruptPhase
  <2>4. CASE Read
    BY <1>2, <2>4, ReadPhase
  <2>5. CASE Deliver
    BY <1>2, <2>5, DeliverPhase
  <2>6. CASE Enqueue
    BY <1>2, <2>6, EnqueuePhase
  <2>7. ASSUME NEW b \in Strays, Stray(b) PROVE FALSE
    BY <1>2, <2>7 DEF Stray
  <2>8. CASE Receive
    BY <1>2, <2>8, ReceivePhase
  <2>9. CASE ReadInterrupt
    BY <1>2, <2>9, InterruptReadPhase
  <2>10. CASE ReadStart \/ ReadPayload \/ ReadChecksum
    BY <1>2, <2>10, ReaderPhase
  <2>11. CASE HandlerReply
    BY <1>2, <2>11, ReplyPhase
  <2>12. CASE Publish
    BY <1>2, <2>12, PublishPhase
  <2> QED
    BY <1>4, <2>1, <2>2, <2>3, <2>4, <2>5, <2>6, <2>7, <2>8, <2>9, <2>10, <2>11, <2>12
    DEF Next, ServerTask
<1> QED
  BY <1>3, <1>4

LEMMA SoundInit == Init => CountTypes /\ SoundLink
<1> SUFFICES ASSUME Init PROVE CountTypes /\ Sound
  BY DEF SoundLink
<1>1. CountTypes
  BY LinkAssumption DEF Init, CountTypes
<1>2. Prompt
  BY DEF Init, Prompt, PipeEmpty, Between, Waiting, ReplyEmpty, AllRan
<1>3. sent = gdb.asked /\ gdb.mode # "unacked"
  BY DEF Init
<1> QED
  BY <1>1, <1>2, <1>3 DEF Sound, Phases

\* Over a link that loses, repeats and drops nothing every command is sent once
\* and handled once, however the bytes are cut into messages and batches, and
\* however long a handler holds its acknowledgement back.
THEOREM SoundLinkIsExactlyOnce == Spec => []SoundLinkRunsOnce
<1>1. Init => LinkTypes /\ CountTypes /\ SoundLink
  BY TypesInit, SoundInit
<1>2. LinkTypes /\ CountTypes /\ SoundLink /\ [Next]_vars => (LinkTypes /\ CountTypes /\ SoundLink)'
  BY TypesStep, CountsStep, SoundStep
<1>3. LinkTypes /\ SoundLink => SoundLinkRunsOnce
  <2> SUFFICES ASSUME LinkTypes, Sound
               PROVE  /\ sent = gdb.asked
                      /\ gdb.mode = "idle" => \A op \in Ops : ran[op] = gdb.asked[op]
    BY DEF SoundLink, SoundLinkRunsOnce
  <2>1. gdb.mode = "idle" => AllRan
    BY PhaseTypes DEF Sound, Prompt
  <2> QED
    BY <2>1 DEF Sound, AllRan
<1> QED
  BY <1>1, <1>2, <1>3, PTL DEF Spec
=============================================================================
