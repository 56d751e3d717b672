--------------------------- MODULE AHPChannelProofs ---------------------------
(***************************************************************************)
(* That AHPChannel implements FrameQueue for any commands, objects, byte   *)
(* range and field widths, however the bytes are cut into pieces.          *)
(***************************************************************************)
EXTENDS AHPChannel, SequenceTheorems, WellFoundedInduction, TLAPS

-----------------------------------------------------------------------------
(* Induction over the naturals, as the existence of a least element.       *)
LEMMA Least ==
    ASSUME NEW T \in SUBSET Nat, T # {}
    PROVE  \E m \in T : \A k \in T : m <= k
<1>1. \E m \in T : \A k \in T : <<k, m>> \notin OpToRel(<, Nat)
  BY NatLessThanWellFounded, WFMin
<1>2. \A k, m \in Nat : k < m => <<k, m>> \in OpToRel(<, Nat)
  BY DEF OpToRel
<1>3. PICK m \in T : \A k \in T : <<k, m>> \notin OpToRel(<, Nat)
  BY <1>1
<1>4. \A k \in T : ~(k < m)
  BY <1>2, <1>3
<1>5. \A k \in T : k \in Nat /\ m \in Nat
  OBVIOUS
<1>6. \A k \in T : m <= k
  BY <1>4, <1>5
<1> QED
  BY <1>6

LEMMA Induction ==
    ASSUME NEW T \in SUBSET Nat, 0 \in T, \A k \in T : k + 1 \in T
    PROVE  T = Nat
<1>1. SUFFICES ASSUME Nat \ T # {} PROVE FALSE
  OBVIOUS
<1>2. PICK m \in Nat \ T : \A k \in Nat \ T : m <= k
  BY <1>1, Least
<1>3. m # 0 /\ m - 1 \in Nat /\ ~(m <= m - 1) /\ m - 1 + 1 = m
  BY <1>2
<1>4. m - 1 \in T
  BY <1>2, <1>3
<1> QED
  BY <1>2, <1>3, <1>4

-----------------------------------------------------------------------------
(* Numbers in bytes. *)

LEMMA ShiftedIs ==
    ASSUME NEW n, NEW w \in Nat
    PROVE  Shifted(n, w) = [i \in 0 .. w |-> IF i = 0 THEN n ELSE Shifted(n, w)[i - 1] \div Radix]
<1> DEFINE Is(f, k) == f = [i \in 0 .. k |-> IF i = 0 THEN n ELSE f[i - 1] \div Radix]
           T == {k \in Nat : \E f : Is(f, k)}
<1>1. 0 \in T
  <2>1. Is([i \in 0 .. 0 |-> n], 0)
    OBVIOUS
  <2> QED
    BY <2>1
<1>2. ASSUME NEW k \in T PROVE k + 1 \in T
  <2>1. PICK f : Is(f, k)
    OBVIOUS
  <2> DEFINE g == [i \in 0 .. k + 1 |-> IF i = k + 1 THEN f[k] \div Radix ELSE f[i]]
  <2>2. \A i \in 0 .. k + 1 : g[i] = IF i = 0 THEN n ELSE g[i - 1] \div Radix
    BY <2>1
  <2>3. Is(g, k + 1)
    BY <2>2
  <2>4. \E h : Is(h, k + 1)
    <3> HIDE DEF g, Is
    <3> QED
      BY <2>3
  <2>5. k + 1 \in Nat
    OBVIOUS
  <2> HIDE DEF g, Is
  <2> QED
    BY <2>4, <2>5
<1>3. T = Nat
  <2> HIDE DEF T
  <2> QED
    BY <1>1, <1>2, Induction DEF T
<1>4. \E f : Is(f, w)
  BY <1>3
<1>5. Shifted(n, w) = CHOOSE f : Is(f, w)
  BY DEF Shifted
<1> QED
  BY <1>4, <1>5

LEMMA ValuesIs ==
    ASSUME NEW s, Len(s) \in Nat
    PROVE  Values(s) = [i \in 0 .. Len(s) |-> IF i = 0 THEN 0 ELSE Values(s)[i - 1] * Radix + s[i]]
<1> DEFINE Is(f, k) == f = [i \in 0 .. k |-> IF i = 0 THEN 0 ELSE f[i - 1] * Radix + s[i]]
           T == {k \in Nat : \E f : Is(f, k)}
<1>1. 0 \in T
  <2>1. Is([i \in 0 .. 0 |-> 0], 0)
    OBVIOUS
  <2> QED
    BY <2>1
<1>2. ASSUME NEW k \in T PROVE k + 1 \in T
  <2>1. PICK f : Is(f, k)
    OBVIOUS
  <2> DEFINE g == [i \in 0 .. k + 1 |-> IF i = k + 1 THEN f[k] * Radix + s[k + 1] ELSE f[i]]
  <2>2. \A i \in 0 .. k + 1 : g[i] = IF i = 0 THEN 0 ELSE g[i - 1] * Radix + s[i]
    BY <2>1
  <2>3. Is(g, k + 1)
    BY <2>2
  <2>4. \E h : Is(h, k + 1)
    <3> HIDE DEF g, Is
    <3> QED
      BY <2>3
  <2>5. k + 1 \in Nat
    OBVIOUS
  <2> HIDE DEF g, Is
  <2> QED
    BY <2>4, <2>5
<1>3. T = Nat
  <2> HIDE DEF T
  <2> QED
    BY <1>1, <1>2, Induction DEF T
<1>4. \E f : Is(f, Len(s))
  BY <1>3
<1>5. Values(s) = CHOOSE f : Is(f, Len(s))
  BY DEF Values
<1> QED
  BY <1>4, <1>5

LEMMA OneByte == ASSUME NEW x \in Nat PROVE Number(<<x>>) = x
<1>1. Values(<<x>>)[1] = Values(<<x>>)[0] * Radix + x /\ Values(<<x>>)[0] = 0
  BY ValuesIs
<1>2. Radix \in Nat
  BY ChannelAssumption
<1> QED
  BY <1>1, <1>2 DEF Number

LEMMA ShiftsAreNumbers ==
    ASSUME NEW n \in Nat, NEW w \in Nat
    PROVE  \A i \in 0 .. w : Shifted(n, w)[i] \in Nat
<1> DEFINE q == Shifted(n, w)
<1>1. Radix \in Nat \ {0}
  BY ChannelAssumption
<1>2. /\ q[0] = n
      /\ \A i \in 1 .. w : q[i] = q[i - 1] \div Radix
  BY ShiftedIs
<1> HIDE DEF q
<1> DEFINE T == {i \in Nat : i <= w => q[i] \in Nat}
<1>3. 0 \in T
  BY <1>2
<1>4. ASSUME NEW k \in T PROVE k + 1 \in T
  <2>1. ASSUME k + 1 <= w PROVE q[k + 1] \in Nat
    <3>1. k <= w /\ k + 1 \in 1 .. w /\ k + 1 - 1 = k
      BY <2>1
    <3>2. q[k] \in Nat /\ q[k + 1] = q[k] \div Radix
      BY <1>2, <3>1
    <3> QED
      BY <1>1, <3>2
  <2> QED
    BY <2>1
<1>5. T = Nat
  <2> HIDE DEF T
  <2> QED
    BY <1>3, <1>4, Induction DEF T
<1> QED
  BY <1>5 DEF q

(* A field has as many bytes as it is wide. *)
LEMMA DigitsAreBytes ==
    ASSUME NEW n \in Nat, NEW w \in Nat
    PROVE  Digits(n, w) \in Seq(Nat) /\ Len(Digits(n, w)) = w
<1>1. \A i \in 1 .. w : w - i \in 0 .. w /\ Shifted(n, w)[w - i] \in Nat
  BY ShiftsAreNumbers
<1>2. Radix \in Nat \ {0}
  BY ChannelAssumption
<1>3. \A i \in 1 .. w : Shifted(n, w)[w - i] % Radix \in Nat
  BY <1>1, <1>2
<1> QED
  BY <1>3 DEF Digits

LEMMA ZeroHasRoom == ASSUME NEW w \in Nat PROVE HasRoom(0, w)
<1> DEFINE q == Shifted(0, w)
           T == {i \in Nat : i <= w => q[i] = 0}
<1>1. Radix \in Nat \ {0}
  BY ChannelAssumption
<1>2. /\ q[0] = 0
      /\ \A i \in 1 .. w : q[i] = q[i - 1] \div Radix
  BY ShiftedIs
<1> HIDE DEF q
<1>3. 0 \in T
  BY <1>2
<1>4. ASSUME NEW k \in T PROVE k + 1 \in T
  <2>1. ASSUME k + 1 <= w PROVE q[k + 1] = 0
    <3>1. k \in Nat /\ k <= w /\ k + 1 \in 1 .. w /\ k + 1 - 1 = k
      BY <2>1
    <3>2. q[k] = 0 /\ q[k + 1] = q[k] \div Radix
      BY <1>2, <3>1
    <3> QED
      BY <1>1, <3>2
  <2> QED
    BY <2>1
<1>5. T = Nat
  <2> HIDE DEF T
  <2> QED
    BY <1>3, <1>4, Induction DEF T
<1> QED
  BY <1>5 DEF HasRoom, q

(* QDataStream as writeFrame and readFrame use it: a number written in a   *)
(* field it has room in is read again, for every base and width.           *)
THEOREM ReadsWhatIsWritten ==
    ASSUME NEW n \in Nat, NEW w \in Nat, HasRoom(n, w)
    PROVE  Number(Digits(n, w)) = n
<1> DEFINE q == Shifted(n, w)
           d == Digits(n, w)
           v == Values(d)
<1>1. Radix \in Nat \ {0}
  BY ChannelAssumption
<1>2. /\ q[0] = n /\ q[w] = 0
      /\ \A i \in 1 .. w : q[i] = q[i - 1] \div Radix
  BY ShiftedIs DEF HasRoom
<1> HIDE DEF q
<1>3. \A i \in 0 .. w : q[i] \in Nat
  BY ShiftsAreNumbers DEF q
<1>4. d = [i \in 1 .. w |-> q[w - i] % Radix]
  BY DEF Digits, q
<1> HIDE DEF d
<1>5. \A i \in 1 .. w : w - i \in 0 .. w /\ q[w - i] % Radix \in Nat
  BY <1>1, <1>3
<1>6. d \in Seq(Nat) /\ Len(d) = w
  BY <1>4, <1>5
<1>7. v[0] = 0 /\ \A i \in 1 .. w : v[i] = v[i - 1] * Radix + d[i]
  BY <1>6, ValuesIs
<1> HIDE DEF v
<1> DEFINE T == {i \in Nat : i <= w => v[i] = q[w - i]}
<1>8. 0 \in T
  BY <1>2, <1>7
<1>9. ASSUME NEW k \in T PROVE k + 1 \in T
  <2>1. ASSUME k + 1 <= w PROVE v[k + 1] = q[w - (k + 1)]
    <3>1. /\ k + 1 \in 1 .. w /\ k + 1 - 1 = k /\ v[k] = q[w - k]
          /\ w - k \in 1 .. w /\ w - k - 1 = w - (k + 1) /\ w - (k + 1) \in 0 .. w
      BY <2>1
    <3>2. PICK a \in Nat : a = q[w - (k + 1)]
      BY <1>3, <3>1
    <3>3. v[k] = a \div Radix /\ d[k + 1] = a % Radix
      BY <1>2, <1>4, <3>1, <3>2
    <3>4. v[k + 1] = (a \div Radix) * Radix + (a % Radix)
      BY <1>7, <3>1, <3>3
    <3>5. (a \div Radix) * Radix + (a % Radix) = a
      BY <1>1
    <3> QED
      BY <3>2, <3>4, <3>5
  <2> QED
    BY <2>1
<1>10. T = Nat
  <2> HIDE DEF T
  <2> QED
    BY <1>8, <1>9, Induction DEF T
<1>11. v[w] = q[0]
  BY <1>10
<1> QED
  BY <1>2, <1>6, <1>11 DEF Number, d, v

-----------------------------------------------------------------------------
(* Sequences of bytes, element by element. *)

LEMMA ConcatIs ==
    ASSUME NEW s \in Seq(Nat), NEW t \in Seq(Nat)
    PROVE  /\ s \o t \in Seq(Nat) /\ Len(s \o t) = Len(s) + Len(t)
           /\ \A i \in 1 .. Len(s) : (s \o t)[i] = s[i]
           /\ \A i \in 1 .. Len(t) : (s \o t)[Len(s) + i] = t[i]
<1>1. /\ s \o t \in Seq(Nat) /\ Len(s \o t) = Len(s) + Len(t)
      /\ \A i \in 1 .. Len(s) + Len(t) :
            (s \o t)[i] = IF i <= Len(s) THEN s[i] ELSE t[i - Len(s)]
  BY ConcatProperties
<1>2. Len(s) \in Nat /\ Len(t) \in Nat
  OBVIOUS
<1>3. ASSUME NEW i \in 1 .. Len(t) PROVE (s \o t)[Len(s) + i] = t[i]
  <2>1. /\ Len(s) + i \in 1 .. Len(s) + Len(t) /\ ~(Len(s) + i <= Len(s))
        /\ Len(s) + i - Len(s) = i
    BY <1>2
  <2> QED
    BY <1>1, <2>1
<1> QED
  BY <1>1, <1>2, <1>3

(* In terms of the lengths of its parts. *)
LEMMA StreamParts ==
    ASSUME NEW s \in Seq(Nat), NEW t \in Seq(Nat)
    PROVE  \E a, w : /\ a \in Nat /\ w \in Nat /\ a = Len(s) /\ w = Len(t)
                     /\ Len(s \o t) = a + w
                     /\ \A i \in 1 .. a : (s \o t)[i] = s[i]
                     /\ \A i \in 1 .. w : (s \o t)[a + i] = t[i]
<1>1. Len(s) \in Nat /\ Len(t) \in Nat
  OBVIOUS
<1>2. /\ Len(s \o t) = Len(s) + Len(t)
      /\ \A i \in 1 .. Len(s) : (s \o t)[i] = s[i]
      /\ \A i \in 1 .. Len(t) : (s \o t)[Len(s) + i] = t[i]
  BY ConcatIs
<1> QED
  BY <1>1, <1>2

LEMMA ConcatThree ==
    ASSUME NEW s \in Seq(Nat), NEW t \in Seq(Nat), NEW u \in Seq(Nat)
    PROVE  (s \o t) \o u = s \o (t \o u)
BY ConcatAssociative, SMTT(30)

LEMMA SliceIs ==
    ASSUME NEW s \in Seq(Nat), NEW m \in Nat, NEW n \in Nat, m + n <= Len(s)
    PROVE  /\ SubSeq(s, m + 1, m + n) \in Seq(Nat) /\ Len(SubSeq(s, m + 1, m + n)) = n
           /\ \A i \in 1 .. n : SubSeq(s, m + 1, m + n)[i] = s[m + i]
<1>1. \A i \in m + 1 .. m + n : s[i] \in Nat
  OBVIOUS
<1>2. m + 1 \in Int /\ m + n \in Int
  OBVIOUS
<1>3. /\ SubSeq(s, m + 1, m + n) \in Seq(Nat)
      /\ Len(SubSeq(s, m + 1, m + n)) = IF m + 1 <= m + n THEN m + n - (m + 1) + 1 ELSE 0
      /\ \A i \in 1 .. m + n - (m + 1) + 1 : SubSeq(s, m + 1, m + n)[i] = s[m + 1 + i - 1]
  BY <1>1, <1>2, SubSeqProperties
<1>4. (IF m + 1 <= m + n THEN m + n - (m + 1) + 1 ELSE 0) = n /\ m + n - (m + 1) + 1 = n
  OBVIOUS
<1>5. \A i \in 1 .. n : m + 1 + i - 1 = m + i
  OBVIOUS
<1> QED
  BY <1>3, <1>4, <1>5

-----------------------------------------------------------------------------
(* Frames. *)

Objects == {o \in Item : ~HasObject(o.name) => o.items = << >>}
Payload(o) == IF HasObject(o.name) THEN Serialize(o.name, o.items) ELSE << >>

LEMMA ObjectIs ==
    ASSUME NEW o \in Objects
    PROVE  /\ o = Object(o.name, o.items)
           /\ o.name \in DOMAIN Codes /\ o.items \in Seq(Nat)
           /\ Codes[o.name] \in Nat /\ NameOf(Codes[o.name]) = o.name
           /\ Payload(o) \in Seq(Nat) /\ HasRoom(Len(Payload(o)), SIZE_SIZE)
           /\ (IF HasObject(o.name) THEN Deserialize(o.name, Payload(o)) ELSE Payload(o)) = o.items
<1>1. PICK name \in DOMAIN Codes, items \in Bodies : o = Object(name, items)
  BY DEF Objects, Item
<1>2. /\ o.name = name /\ o.items = items
      /\ items \in Seq(Nat) /\ Codes[name] \in Nat
      /\ ~HasObject(name) => items = << >>
  BY <1>1, ChannelAssumption DEF Object, Objects
<1>3. NameOf(Codes[name]) = name
  BY ChannelAssumption DEF NameOf
<1>4. CASE HasObject(name)
  <2>1. Fields[name] \in Nat
    BY <1>4 DEF HasObject, Fields
  <2>2. Payload(o) = <<Fields[name], Len(items)>> \o items
    BY <1>2, <1>4 DEF Payload, Serialize
  <2>3. /\ Payload(o) \in Seq(Nat) /\ Len(Payload(o)) = Len(items) + 2
        /\ Payload(o)[1] = Fields[name] /\ Payload(o)[2] = Len(items)
    BY <1>2, <2>1, <2>2
  <2>4. SubSeq(Payload(o), 3, Len(Payload(o))) = items
    BY <1>2, <2>1, <2>2
  <2>5. Deserialize(name, Payload(o)) = items
    BY <1>2, <2>1, <2>3, <2>4 DEF Deserialize
  <2>6. HasRoom(Len(Payload(o)), SIZE_SIZE)
    BY <1>2, <1>4, SizeAssumption DEF Payload
  <2> QED
    BY <1>1, <1>2, <1>3, <1>4, <2>3, <2>5, <2>6
<1>5. CASE ~HasObject(name)
  <2>1. Payload(o) = << >> /\ items = << >>
    BY <1>2, <1>5 DEF Payload
  <2>2. HasRoom(0, SIZE_SIZE)
    BY ZeroHasRoom, ChannelAssumption
  <2> QED
    BY <1>1, <1>2, <1>3, <1>5, <2>1, <2>2
<1> QED
  BY <1>4, <1>5

(* What lies where in the bytes of a frame. *)
LEMMA Layout ==
    ASSUME NEW o \in Objects
    PROVE  /\ BytesOf(o) \in Seq(Nat)
           /\ BytesOf(o)[2] = Codes[o.name]
           /\ Len(BytesOf(o)) = 2 + SIZE_SIZE
                + (IF Len(Payload(o)) = 0 THEN 0 ELSE Len(Payload(o)) + CRC_SIZE)
           /\ SubSeq(BytesOf(o), 3, 2 + SIZE_SIZE) = Digits(Len(Payload(o)), SIZE_SIZE)
           /\ Len(Payload(o)) # 0 =>
                 SubSeq(BytesOf(o), 3 + SIZE_SIZE, 2 + SIZE_SIZE + Len(Payload(o))) = Payload(o)
<1> DEFINE n == Len(Payload(o))
           size == Digits(n, SIZE_SIZE)
           head == <<1, Codes[o.name]>> \o size
           tail == IF n > 0 THEN Payload(o) \o Digits(1, CRC_SIZE) ELSE << >>
<1>1. /\ Payload(o) \in Seq(Nat) /\ n \in Nat /\ Codes[o.name] \in Nat
      /\ SIZE_SIZE \in Nat /\ CRC_SIZE \in Nat
  BY ObjectIs, ChannelAssumption
<1>2. BytesOf(o) = head \o tail
  BY DEF BytesOf, Bytes, CreateFrame, Payload
<1>3. size \in Seq(Nat) /\ Len(size) = SIZE_SIZE
  BY <1>1, DigitsAreBytes
<1>4. Digits(1, CRC_SIZE) \in Seq(Nat) /\ Len(Digits(1, CRC_SIZE)) = CRC_SIZE
  BY <1>1, DigitsAreBytes
<1> HIDE DEF size
<1>5. /\ head \in Seq(Nat) /\ Len(head) = 2 + SIZE_SIZE /\ head[2] = Codes[o.name]
      /\ \A i \in 1 .. SIZE_SIZE : head[2 + i] = size[i]
  <2>1. <<1, Codes[o.name]>> \in Seq(Nat) /\ Len(<<1, Codes[o.name]>>) = 2
    BY <1>1
  <2>2. \A i \in 1 .. 2 : head[i] = <<1, Codes[o.name]>>[i]
    BY <1>3, <2>1, ConcatIs
  <2> QED
    BY <1>3, <2>1, <2>2, ConcatIs
<1>6. /\ tail \in Seq(Nat) /\ Len(tail) = IF n = 0 THEN 0 ELSE n + CRC_SIZE
      /\ n # 0 => \A i \in 1 .. n : tail[i] = Payload(o)[i]
  <2>1. CASE n = 0
    BY <2>1
  <2>2. CASE n # 0
    <3>1. tail = Payload(o) \o Digits(1, CRC_SIZE)
      BY <1>1, <2>2
    <3> HIDE DEF tail, n
    <3>2. Payload(o) \in Seq(Nat)
      BY <1>1
    <3>3. /\ tail \in Seq(Nat) /\ Len(tail) = Len(Payload(o)) + Len(Digits(1, CRC_SIZE))
          /\ \A i \in 1 .. Len(Payload(o)) : tail[i] = Payload(o)[i]
      BY <1>4, <3>1, <3>2, ConcatIs
    <3> QED
      BY <1>1, <1>4, <2>2, <3>3 DEF n
  <2> QED
    BY <2>1, <2>2
<1> HIDE DEF head, tail
<1>7. /\ BytesOf(o) \in Seq(Nat) /\ Len(BytesOf(o)) = Len(head) + Len(tail)
      /\ \A i \in 1 .. Len(head) : BytesOf(o)[i] = head[i]
      /\ \A i \in 1 .. Len(tail) : BytesOf(o)[Len(head) + i] = tail[i]
  <2>1. head \in Seq(Nat) /\ tail \in Seq(Nat)
    BY <1>5, <1>6
  <2> QED
    BY <1>2, <2>1, ConcatIs
<1>8. SubSeq(BytesOf(o), 3, 2 + SIZE_SIZE) = size
  <2> DEFINE s == SubSeq(BytesOf(o), 2 + 1, 2 + SIZE_SIZE)
  <2>1. tail \in Seq(Nat) /\ Len(tail) \in Nat
    BY <1>6
  <2>2. 2 + SIZE_SIZE <= Len(BytesOf(o))
    BY <1>1, <1>5, <1>7, <2>1
  <2>3. s \in Seq(Nat) /\ Len(s) = SIZE_SIZE /\ \A i \in 1 .. SIZE_SIZE : s[i] = BytesOf(o)[2 + i]
    BY <1>1, <1>7, <2>2, SliceIs
  <2>4. \A i \in 1 .. SIZE_SIZE : BytesOf(o)[2 + i] = size[i]
    BY <1>1, <1>5, <1>7
  <2>5. s = size
    BY <1>3, <2>3, <2>4, SeqEqual
  <2> QED
    BY <2>5
<1>9. ASSUME n # 0
      PROVE  SubSeq(BytesOf(o), 3 + SIZE_SIZE, 2 + SIZE_SIZE + n) = Payload(o)
  <2> DEFINE s == SubSeq(BytesOf(o), 2 + SIZE_SIZE + 1, 2 + SIZE_SIZE + n)
  <2>1. Len(tail) = n + CRC_SIZE /\ 2 + SIZE_SIZE + n <= Len(BytesOf(o)) /\ 2 + SIZE_SIZE \in Nat
    BY <1>1, <1>5, <1>6, <1>7, <1>9
  <2>2. s \in Seq(Nat) /\ Len(s) = n /\ \A i \in 1 .. n : s[i] = BytesOf(o)[2 + SIZE_SIZE + i]
    BY <1>1, <1>7, <2>1, SliceIs
  <2>3. \A i \in 1 .. n : i \in 1 .. Len(tail) /\ tail[i] = Payload(o)[i]
    BY <1>1, <1>6, <1>9, <2>1
  <2>4. \A i \in 1 .. n : s[i] = Payload(o)[i]
    BY <1>5, <1>7, <2>2, <2>3, SMTT(30)
  <2>5. s = Payload(o)
    BY <1>1, <2>2, <2>4, SeqEqual
  <2>6. 2 + SIZE_SIZE + 1 = 3 + SIZE_SIZE
    BY <1>1
  <2> QED
    BY <2>5, <2>6
<1>10. BytesOf(o)[2] = Codes[o.name]
  BY <1>1, <1>5, <1>7
<1> QED
  BY <1>5, <1>6, <1>7, <1>8, <1>9, <1>10 DEF size

-----------------------------------------------------------------------------
(* The inductive invariant.  The bytes of the i-th frame lie between       *)
(* cut[i - 1] and cut[i] in all that has been written; readFrame has taken *)
(* p bytes of it, what is left of a frame being read is where the field it *)
(* waits for says.                                                         *)

Stream == arrived \o wire

(* Where in the bytes of an object its fields begin. *)
Offset(o) ==
    [version |-> 0, code |-> 1, size |-> 2, payload |-> 2 + SIZE_SIZE,
     crc |-> 2 + SIZE_SIZE + Len(Payload(o)), done |-> Len(BytesOf(o))]

ChannelTypes ==
    /\ wire \in Seq(Nat) /\ arrived \in Seq(Nat) /\ open \in BOOLEAN
    /\ DOMAIN frame = {"version", "code", "size", "payload", "crc"}
    /\ written \in Seq(Objects) /\ Len(received) \in 0 .. Len(written)

Cuts(cut) ==
    /\ cut \in [0 .. Len(written) -> Nat]
    /\ \A i \in 1 .. Len(written) : cut[i] = cut[i - 1] + Len(BytesOf(written[i]))
    /\ \A i \in 0 .. Len(written) : cut[i] <= cut[Len(written)]

InOrder(cut, p) ==
    /\ p + Len(Stream) <= cut[Len(written)]
    /\ open => p + Len(Stream) = cut[Len(written)]
    /\ \A i \in Len(received) + 1 .. Len(written) : \A k \in 1 .. Len(BytesOf(written[i])) :
          cut[i - 1] + k - p \in 1 .. Len(Stream) =>
             Stream[cut[i - 1] + k - p] = BytesOf(written[i])[k]

FrameSoFar(o) ==
    /\ field \in {"size", "payload", "crc", "done"} => frame.code = Codes[o.name]
    /\ field \in {"payload", "crc"} => frame.size = Len(Payload(o)) /\ Len(Payload(o)) # 0
    /\ field \in {"code", "size", "payload"} => frame.payload = << >>
    /\ field \in {"crc", "done"} => frame.payload = Payload(o)

ReaderAt(cut, p) ==
    \/ /\ field \in {"version", "stopped"} /\ frame = EmptyFrame
       /\ p = cut[Len(received)]
    \/ /\ field \in {"code", "size", "payload", "crc", "done"}
       /\ Len(received) < Len(written)
       /\ p = cut[Len(received)] + Offset(written[Len(received) + 1])[field]
       /\ FrameSoFar(written[Len(received) + 1])

ChannelInv ==
    /\ ChannelTypes
    /\ \E cut, p : p \in Nat /\ Cuts(cut) /\ InOrder(cut, p) /\ ReaderAt(cut, p)

LEMMA InitChannel == Init => ChannelInv
<1> SUFFICES ASSUME Init PROVE ChannelInv
  OBVIOUS
<1> DEFINE cut == [i \in 0 .. 0 |-> 0]
<1>1. ChannelTypes
  BY DEF Init, ChannelTypes, EmptyFrame
<1>2. /\ Stream = << >> /\ Len(Stream) = 0 /\ Len(written) = 0 /\ Len(received) = 0
  BY DEF Init, Stream
<1>3. Cuts(cut)
  BY <1>2 DEF Cuts
<1>4. InOrder(cut, 0)
  BY <1>2 DEF InOrder
<1>5. ReaderAt(cut, 0)
  BY <1>2 DEF ReaderAt, Init
<1> QED
  BY <1>1, <1>3, <1>4, <1>5 DEF ChannelInv

LEMMA StreamIs ==
    ASSUME ChannelTypes
    PROVE  /\ Stream \in Seq(Nat) /\ Len(Stream) = Len(arrived) + Len(wire)
           /\ \A i \in 1 .. Len(arrived) : Stream[i] = arrived[i]
           /\ \A i \in 1 .. Len(wire) : Stream[Len(arrived) + i] = wire[i]
BY ConcatIs DEF ChannelTypes, Stream

LEMMA WriteFrameKeeps == ASSUME ChannelInv, WriteFrame PROVE ChannelInv'
<1>1. PICK name \in DOMAIN Codes, items \in Bodies :
         /\ ~HasObject(name) => items = << >>
         /\ wire' = wire \o BytesOf(Object(name, items))
         /\ written' = Append(written, Object(name, items))
  BY DEF WriteFrame, BytesOf, Object
<1>2. PICK o \in Objects : o = Object(name, items)
  BY <1>1 DEF Objects, Item, Object
<1>3. PICK B \in Seq(Nat) : B = BytesOf(o) /\ Len(B) \in Nat
  BY <1>2, Layout
<1>4. PICK L \in Nat, r \in Nat : L = Len(written) /\ r = Len(received) /\ r <= L
  BY DEF ChannelInv, ChannelTypes
<1>5. wire \in Seq(Nat) /\ arrived \in Seq(Nat) /\ written \in Seq(Objects)
  BY DEF ChannelInv, ChannelTypes
<1>6. /\ written' \in Seq(Objects) /\ Len(written') = L + 1
      /\ \A i \in 1 .. L : written'[i] = written[i]
      /\ written'[L + 1] = o
  BY <1>1, <1>2, <1>4, <1>5, AppendProperties
<1>7. /\ arrived' = arrived /\ received' = received /\ open /\ open' = open
      /\ field' = field /\ frame' = frame
  BY DEF WriteFrame
<1>8. wire' = wire \o B /\ wire' \in Seq(Nat)
  BY <1>1, <1>2, <1>3, <1>5, ConcatIs
<1>9. ChannelTypes'
  BY <1>4, <1>5, <1>6, <1>7, <1>8 DEF ChannelInv, ChannelTypes
<1>10. PICK n \in Nat : n = Len(Stream)
  BY <1>5, ConcatIs DEF Stream
<1>11. /\ Len(Stream') = n + Len(B)
       /\ \A i \in 1 .. n : Stream'[i] = Stream[i]
       /\ \A i \in 1 .. Len(B) : Stream'[n + i] = B[i]
  <2>1. (arrived \o wire) \o B = arrived \o (wire \o B)
    BY <1>5, ConcatThree
  <2>2. Stream' = Stream \o B
    BY <1>7, <1>8, <2>1 DEF Stream
  <2>3. Stream \in Seq(Nat)
    BY <1>5, ConcatIs DEF Stream
  <2> QED
    BY <1>10, <2>2, <2>3, ConcatIs
<1>12. PICK cut, p : p \in Nat /\ Cuts(cut) /\ InOrder(cut, p) /\ ReaderAt(cut, p)
  BY DEF ChannelInv
<1>13. /\ cut \in [0 .. L -> Nat]
       /\ \A i \in 1 .. L : cut[i] = cut[i - 1] + Len(BytesOf(written[i]))
       /\ \A i \in 0 .. L : cut[i] <= cut[L]
  BY <1>4, <1>12 DEF Cuts
<1>14. p \in Nat /\ p + n = cut[L] /\ cut[L] \in Nat
  BY <1>4, <1>7, <1>10, <1>12, <1>13 DEF InOrder
<1> DEFINE new == [i \in 0 .. L + 1 |-> IF i <= L THEN cut[i] ELSE cut[L] + Len(B)]
<1>15. PICK c : c = new
  OBVIOUS
<1>16. /\ c \in [0 .. L + 1 -> Nat]
       /\ \A i \in 0 .. L : c[i] = cut[i]
       /\ c[L + 1] = cut[L] + Len(B)
  BY <1>13, <1>14, <1>15
<1> HIDE DEF new
<1>17. Cuts(c)'
  <2>1. \A i \in 1 .. L + 1 : c[i] = c[i - 1] + Len(BytesOf(written'[i]))
    <3> TAKE i \in 1 .. L + 1
    <3>1. CASE i \in 1 .. L
      <4>1. i - 1 \in 0 .. L /\ i \in 0 .. L
        BY <3>1
      <4> QED
        BY <1>6, <1>13, <1>16, <3>1, <4>1
    <3>2. CASE i = L + 1
      <4>1. i - 1 = L /\ L \in 0 .. L
        BY <3>2
      <4> QED
        BY <1>3, <1>6, <1>16, <3>2, <4>1
    <3> QED
      BY <3>1, <3>2
  <2>2. \A i \in 0 .. L + 1 : c[i] <= c[L + 1]
    <3> TAKE i \in 0 .. L + 1
    <3>1. CASE i \in 0 .. L
      BY <1>13, <1>14, <1>16, <3>1
    <3>2. CASE i = L + 1
      BY <1>16, <3>2
    <3> QED
      BY <3>1, <3>2
  <2> QED
    BY <1>6, <1>16, <2>1, <2>2 DEF Cuts
<1>18. InOrder(c, p)'
  <2>1. p + Len(Stream') = c[L + 1] /\ c[L + 1] \in Nat
    BY <1>3, <1>10, <1>11, <1>14, <1>16
  <2>2. ASSUME NEW i \in r + 1 .. L + 1
        PROVE  \E b : /\ b = BytesOf(written'[i])
                      /\ \A k \in 1 .. Len(b) :
                            c[i - 1] + k - p \in 1 .. n + Len(B) =>
                               Stream'[c[i - 1] + k - p] = b[k]
    <3>1. CASE i <= L
      <4>1. i \in 1 .. L /\ i - 1 \in 0 .. L /\ i \in 0 .. L /\ i \in Len(received) + 1 .. Len(written)
        BY <1>4, <3>1
      <4>2. written[i] \in Objects
        BY <1>4, <1>5, <4>1
      <4>3. PICK b \in Seq(Nat), m \in Nat : b = BytesOf(written[i]) /\ m = Len(b)
        BY <4>2, Layout
      <4>4. PICK e \in Nat : e = cut[i - 1]
        BY <1>13, <4>1
      <4>5. /\ written'[i] = written[i] /\ c[i - 1] = e
            /\ cut[i] = e + m /\ cut[i] <= cut[L]
        BY <1>6, <1>13, <1>16, <4>1, <4>3, <4>4
      <4>6. \A k \in 1 .. m : e + k - p \in 1 .. n + Len(B) => e + k - p \in 1 .. n
        BY <1>3, <1>10, <1>14, <4>5, SMTT(30)
      <4>7. \A k \in 1 .. m : e + k - p \in 1 .. n => Stream[e + k - p] = b[k]
        BY <1>10, <1>12, <4>1, <4>3, <4>4 DEF InOrder
      <4> QED
        BY <1>11, <4>3, <4>5, <4>6, <4>7, ZenonT(40)
    <3>2. CASE i = L + 1
      <4>1. i - 1 = L /\ L \in 0 .. L
        BY <3>2
      <4>2. c[i - 1] = cut[L] /\ written'[i] = o
        BY <1>6, <1>16, <3>2, <4>1
      <4>3. \A k \in 1 .. Len(B) : c[i - 1] + k - p = n + k
        BY <1>3, <1>10, <1>14, <4>2
      <4> QED
        BY <1>3, <1>11, <4>2, <4>3
    <3> QED
      BY <3>1, <3>2
  <2> QED
    BY <1>4, <1>6, <1>7, <1>11, <2>1, <2>2 DEF InOrder
<1>19. ReaderAt(c, p)'
  <2>1. r < L => written'[r + 1] = written[r + 1] /\ r < L + 1
    BY <1>6, <1>16
  <2>2. c[r] = cut[r] /\ (r < L => r < L + 1)
    BY <1>4, <1>16
  <2>3. ReaderAt(cut, p)
    BY <1>12
  <2> QED
    BY <1>4, <1>6, <1>7, <2>1, <2>2, <2>3 DEF ReaderAt, FrameSoFar, Offset
<1> QED
  BY <1>9, <1>12, <1>17, <1>18, <1>19 DEF ChannelInv

LEMMA ArriveKeeps == ASSUME ChannelInv, Arrive PROVE ChannelInv'
<1>1. PICK n \in 1 .. Len(wire) :
         /\ arrived' = arrived \o SubSeq(wire, 1, n)
         /\ wire' = SubSeq(wire, n + 1, Len(wire))
  BY DEF Arrive
<1>2. wire \in Seq(Nat) /\ arrived \in Seq(Nat)
  BY DEF ChannelInv, ChannelTypes
<1>3. PICK s, t : /\ s \in Seq(Nat) /\ t \in Seq(Nat) /\ s \o t = wire
                  /\ s = SubSeq(wire, 1, n) /\ t = SubSeq(wire, n + 1, Len(wire))
  <2>1. PICK l \in Nat : l = Len(wire) /\ n \in Nat /\ n \in 1 .. l
    BY <1>1, <1>2
  <2>2. 1 \in 1 .. l + 1 /\ n \in 1 - 1 .. l /\ l \in n .. l
    BY <2>1
  <2>3. SubSeq(wire, 1, n) \o SubSeq(wire, n + 1, l) = SubSeq(wire, 1, l)
    BY <1>2, <2>1, <2>2, ConcatAdjacentSubSeq
  <2>4. SubSeq(wire, 1, l) = wire
    BY <1>2, <2>1
  <2>5. SubSeq(wire, 1, n) \in Seq(Nat)
    BY <1>2, <2>1
  <2>6. SubSeq(wire, n + 1, l) \in Seq(Nat)
    BY <1>2, <2>1
  <2> QED
    BY <2>1, <2>3, <2>4, <2>5, <2>6
<1>4. arrived' \in Seq(Nat) /\ wire' \in Seq(Nat)
  BY <1>1, <1>2, <1>3, ConcatIs
<1>5. Stream' = Stream
  <2>1. (arrived \o s) \o t = arrived \o (s \o t)
    BY <1>2, <1>3, ConcatThree
  <2>2. arrived' = arrived \o s /\ wire' = t
    BY <1>1, <1>3
  <2>3. Stream' = arrived' \o wire'
    BY DEF Stream
  <2> QED
    BY <1>3, <2>1, <2>2, <2>3 DEF Stream
<1>6. UNCHANGED <<open, field, frame, written, received>>
  BY DEF Arrive
<1>7. ChannelTypes'
  BY <1>4, <1>6 DEF ChannelInv, ChannelTypes
<1>8. PICK cut, p : p \in Nat /\ Cuts(cut) /\ InOrder(cut, p) /\ ReaderAt(cut, p)
  BY DEF ChannelInv
<1>9. Cuts(cut)' /\ InOrder(cut, p)'
  BY <1>5, <1>6, <1>8 DEF Cuts, InOrder
<1>10. ReaderAt(cut, p)'
  BY <1>6, <1>8 DEF ReaderAt, FrameSoFar
<1> QED
  BY <1>7, <1>8, <1>9, <1>10 DEF ChannelInv

LEMMA CloseKeeps == ASSUME ChannelInv, Close PROVE ChannelInv'
<1>1. PICK n \in 0 .. Len(wire) : wire' = SubSeq(wire, 1, n)
  BY DEF Close
<1>2. wire \in Seq(Nat) /\ arrived \in Seq(Nat)
  BY DEF ChannelInv, ChannelTypes
<1>3. UNCHANGED <<arrived, field, frame, written, received>> /\ open' = FALSE
  BY DEF Close
<1>4. /\ wire' \in Seq(Nat) /\ Len(wire') = n
      /\ \A i \in 1 .. n : wire'[i] = wire[i]
  <2>1. 0 + n <= Len(wire) /\ 0 + n = n /\ 0 + 1 = 1 /\ n \in Nat
    BY <1>2
  <2>2. /\ SubSeq(wire, 0 + 1, 0 + n) \in Seq(Nat) /\ Len(SubSeq(wire, 0 + 1, 0 + n)) = n
        /\ \A i \in 1 .. n : SubSeq(wire, 0 + 1, 0 + n)[i] = wire[0 + i]
    BY <1>2, <2>1, SliceIs
  <2> QED
    BY <1>1, <2>1, <2>2
<1>5. ChannelTypes'
  BY <1>3, <1>4 DEF ChannelInv, ChannelTypes
<1>6. PICK a, w : /\ a \in Nat /\ w \in Nat /\ a = Len(arrived) /\ w = Len(wire)
                  /\ Len(Stream) = a + w
                  /\ \A i \in 1 .. a : Stream[i] = arrived[i]
                  /\ \A i \in 1 .. w : Stream[a + i] = wire[i]
  BY <1>2, StreamParts DEF Stream
<1>7. Stream' = arrived \o wire'
  BY <1>3 DEF Stream
<1>8. /\ Len(Stream') = a + n /\ n \in Nat /\ n <= w
      /\ \A i \in 1 .. a : Stream'[i] = arrived[i]
      /\ \A i \in 1 .. n : Stream'[a + i] = wire[i]
  BY <1>1, <1>2, <1>4, <1>6, <1>7, ConcatIs
<1>9. ASSUME NEW i \in 1 .. a + n PROVE Stream'[i] = Stream[i] /\ i \in 1 .. a + w
  <2>1. CASE i <= a
    <3>1. i \in 1 .. a /\ i \in 1 .. a + w
      BY <1>6, <1>8, <2>1
    <3> QED
      BY <1>6, <1>8, <3>1
  <2>2. CASE ~(i <= a)
    <3>1. i - a \in 1 .. n /\ i - a \in 1 .. w /\ a + (i - a) = i /\ i \in 1 .. a + w
      BY <1>6, <1>8, <2>2
    <3>2. PICK j : j = i - a
      OBVIOUS
    <3>3. j \in 1 .. n /\ j \in 1 .. w /\ a + j = i
      BY <3>1, <3>2
    <3>4. Stream'[a + j] = wire[j] /\ Stream[a + j] = wire[j]
      BY <1>6, <1>8, <3>3
    <3> QED
      BY <3>1, <3>3, <3>4
  <2> QED
    BY <2>1, <2>2
<1>10. PICK cut, p : p \in Nat /\ Cuts(cut) /\ InOrder(cut, p) /\ ReaderAt(cut, p)
  BY DEF ChannelInv
<1>11. Cuts(cut)' /\ ReaderAt(cut, p)'
  BY <1>3, <1>10 DEF Cuts, ReaderAt, FrameSoFar
<1>12. InOrder(cut, p)'
  <2>1. PICK l \in Nat : l = Len(written)
    BY DEF ChannelInv, ChannelTypes
  <2>2. cut[l] \in Nat /\ p + (a + w) <= cut[l]
    BY <1>6, <1>10, <2>1 DEF Cuts, InOrder
  <2>3. p + Len(Stream') <= cut[l]
    BY <1>6, <1>8, <1>10, <2>2
  <2>4. \A i \in Len(received) + 1 .. l : \A k \in 1 .. Len(BytesOf(written[i])) :
           cut[i - 1] + k - p \in 1 .. a + n =>
              Stream'[cut[i - 1] + k - p] = BytesOf(written[i])[k]
    <3>1. \A i \in Len(received) + 1 .. l : \A k \in 1 .. Len(BytesOf(written[i])) :
             cut[i - 1] + k - p \in 1 .. a + w =>
                Stream[cut[i - 1] + k - p] = BytesOf(written[i])[k]
      BY <1>6, <1>10, <2>1 DEF InOrder
    <3> QED
      BY <1>9, <3>1
  <2> QED
    BY <1>3, <1>8, <2>1, <2>3, <2>4 DEF InOrder
<1> QED
  BY <1>5, <1>10, <1>11, <1>12 DEF ChannelInv

(* Bytes are taken from the front of the stream. *)
LEMMA TakenInOrder ==
    ASSUME ChannelTypes, NEW cut, NEW p \in Nat, InOrder(cut, p), Cuts(cut),
           NEW n \in Nat, n <= Len(arrived),
           arrived' = SubSeq(arrived, n + 1, Len(arrived)),
           UNCHANGED <<wire, open, written, received>>
    PROVE  InOrder(cut, p + n)' /\ arrived' \in Seq(Nat)
<1>1. wire \in Seq(Nat) /\ arrived \in Seq(Nat)
  BY DEF ChannelTypes
<1>2. PICK a, w : /\ a \in Nat /\ w \in Nat /\ a = Len(arrived) /\ w = Len(wire)
                  /\ Len(Stream) = a + w
                  /\ \A i \in 1 .. a : Stream[i] = arrived[i]
                  /\ \A i \in 1 .. w : Stream[a + i] = wire[i]
  BY <1>1, StreamParts DEF Stream
<1>3. n \in Nat /\ n <= a
  BY <1>2
<1>4. PICK m \in Nat : a = n + m
  <2>1. a - n \in Nat /\ a = n + (a - n)
    BY <1>2, <1>3
  <2> QED
    BY <2>1
<1>5. /\ arrived' \in Seq(Nat) /\ Len(arrived') = m
      /\ \A i \in 1 .. m : arrived'[i] = arrived[n + i]
  <2>1. n + m <= Len(arrived) /\ arrived' = SubSeq(arrived, n + 1, n + m)
    BY <1>2, <1>4
  <2>2. /\ SubSeq(arrived, n + 1, n + m) \in Seq(Nat)
        /\ Len(SubSeq(arrived, n + 1, n + m)) = m
        /\ \A i \in 1 .. m : SubSeq(arrived, n + 1, n + m)[i] = arrived[n + i]
    BY <1>1, <2>1, SliceIs
  <2> QED
    BY <2>1, <2>2
<1>6. /\ Len(Stream') = m + w
      /\ \A i \in 1 .. m : Stream'[i] = arrived'[i]
      /\ \A i \in 1 .. w : Stream'[m + i] = wire[i]
  <2>1. Stream' = arrived' \o wire
    BY DEF Stream
  <2>2. PICK s \in Seq(Nat) : s = arrived' /\ Len(s) = m
    BY <1>5
  <2>3. /\ Len(s \o wire) = Len(s) + Len(wire)
        /\ \A i \in 1 .. Len(s) : (s \o wire)[i] = s[i]
        /\ \A i \in 1 .. Len(wire) : (s \o wire)[Len(s) + i] = wire[i]
    BY <1>1, ConcatIs
  <2> QED
    BY <1>2, <2>1, <2>2, <2>3
<1>7. ASSUME NEW i \in 1 .. m + w PROVE Stream'[i] = Stream[n + i] /\ n + i \in 1 .. a + w
  <2>1. CASE i <= m
    <3>1. i \in 1 .. m /\ n + i \in 1 .. a /\ n + i \in 1 .. a + w
      BY <1>2, <1>3, <1>4, <2>1
    <3> QED
      BY <1>2, <1>5, <1>6, <3>1
  <2>2. CASE ~(i <= m)
    <3>1. PICK j \in 1 .. w : m + j = i
      <4>1. i - m \in 1 .. w /\ m + (i - m) = i
        BY <1>2, <1>4, <2>2
      <4> QED
        BY <4>1
    <3>2. a + j = n + i /\ n + i \in 1 .. a + w
      BY <1>2, <1>3, <1>4, <3>1
    <3>3. Stream'[m + j] = wire[j] /\ Stream[a + j] = wire[j]
      BY <1>2, <1>6, <3>1
    <3> QED
      BY <3>1, <3>2, <3>3
  <2> QED
    BY <2>1, <2>2
<1>8. p + n + Len(Stream') = p + Len(Stream)
  <2>1. m \in Nat /\ w \in Nat /\ Len(Stream') = m + w /\ Len(Stream) = n + m + w
    BY <1>2, <1>4, <1>6
  <2> QED
    BY <2>1
<1>9. ASSUME NEW i \in Len(received) + 1 .. Len(written)
      PROVE  \E b : /\ b = BytesOf(written[i])
                    /\ \A k \in 1 .. Len(b) : cut[i - 1] + k - (p + n) \in 1 .. m + w =>
                          Stream'[cut[i - 1] + k - (p + n)] = b[k]
  <2>1. Len(written) \in Nat /\ Len(received) \in Nat /\ written \in Seq(Objects)
    BY DEF ChannelTypes
  <2>2. written[i] \in Objects /\ i - 1 \in 0 .. Len(written)
    BY <2>1
  <2>3. PICK b \in Seq(Nat), l \in Nat : b = BytesOf(written[i]) /\ l = Len(b)
    BY <2>2, Layout
  <2>4. PICK e \in Nat : e = cut[i - 1]
    BY <2>2 DEF Cuts
  <2>5. \A k \in 1 .. l : e + k - p \in 1 .. a + w => Stream[e + k - p] = b[k]
    BY <1>2, <2>3, <2>4 DEF InOrder
  <2>6. ASSUME NEW k \in 1 .. l, e + k - (p + n) \in 1 .. m + w
        PROVE  Stream'[e + k - (p + n)] = b[k]
    <3>1. PICK j \in 1 .. m + w : j = e + k - (p + n) /\ n + j = e + k - p
      BY <2>6
    <3>2. Stream'[j] = Stream[n + j] /\ n + j \in 1 .. a + w
      BY <1>7
    <3> QED
      BY <2>5, <3>1, <3>2
  <2> QED
    BY <2>3, <2>4, <2>6
<1>10. \A i \in Len(received) + 1 .. Len(written) : \A k \in 1 .. Len(BytesOf(written[i])) :
          cut[i - 1] + k - (p + n) \in 1 .. m + w =>
             Stream'[cut[i - 1] + k - (p + n)] = BytesOf(written[i])[k]
  BY <1>9
<1> QED
  BY <1>5, <1>6, <1>8, <1>10 DEF InOrder

LEMMA TakenBytes ==
    ASSUME ChannelTypes, NEW cut, NEW p \in Nat, InOrder(cut, p), Cuts(cut),
           Len(received) < Len(written),
           NEW B, B = BytesOf(written[Len(received) + 1]),
           NEW at \in Nat, p = cut[Len(received)] + at,
           NEW n \in Nat, n <= Len(arrived), at + n <= Len(B)
    PROVE  SubSeq(arrived, 1, n) = SubSeq(B, at + 1, at + n)
<1>1. arrived \in Seq(Nat) /\ wire \in Seq(Nat)
  BY DEF ChannelTypes
<1>2. PICK r \in Nat : r = Len(received) /\ r + 1 \in Len(received) + 1 .. Len(written)
                       /\ r \in 0 .. Len(written) /\ written[r + 1] \in Objects
  BY SMTT(30) DEF ChannelTypes
<1>3. B \in Seq(Nat)
  BY <1>2, Layout
<1>4. PICK e \in Nat : e = cut[r] /\ r + 1 - 1 = r
  BY <1>2 DEF Cuts
<1>5. PICK a \in Nat : a = Len(arrived)
  BY <1>1
<1>6. \A i \in 1 .. n : arrived[i] = B[at + i]
  <2>1. \A k \in 1 .. Len(B) : e + k - p \in 1 .. Len(Stream) => Stream[e + k - p] = B[k]
    <3> DEFINE Ok(i) == \A k \in 1 .. Len(BytesOf(written[i])) :
                           cut[i - 1] + k - p \in 1 .. Len(Stream) =>
                              Stream[cut[i - 1] + k - p] = BytesOf(written[i])[k]
    <3>1. \A i \in Len(received) + 1 .. Len(written) : Ok(i)
      BY DEF InOrder
    <3>2. Ok(r + 1)
      <4> HIDE DEF Ok
      <4> QED
        BY <1>2, <3>1
    <3>3. B = BytesOf(written[r + 1]) /\ e = cut[r + 1 - 1]
      BY <1>2, <1>4
    <3> QED
      BY <3>2, <3>3
  <2> TAKE i \in 1 .. n
  <2>2. at + i \in 1 .. Len(B) /\ i \in 1 .. a
    BY <1>3, <1>5
  <2>3. i \in 1 .. Len(Stream) /\ Stream[i] = arrived[i]
    BY <1>1, <1>5, <2>2, StreamIs
  <2>4. e + (at + i) - p = i
    BY <1>2, <1>4, SMTT(30)
  <2> QED
    BY <2>1, <2>2, <2>3, <2>4
<1>7. /\ SubSeq(arrived, 1, n) \in Seq(Nat) /\ Len(SubSeq(arrived, 1, n)) = n
      /\ \A i \in 1 .. n : SubSeq(arrived, 1, n)[i] = arrived[i]
  <2>1. /\ SubSeq(arrived, 0 + 1, 0 + n) \in Seq(Nat) /\ Len(SubSeq(arrived, 0 + 1, 0 + n)) = n
        /\ \A i \in 1 .. n : SubSeq(arrived, 0 + 1, 0 + n)[i] = arrived[0 + i]
    BY <1>1, SliceIs, SMTT(30)
  <2>2. 0 + 1 = 1 /\ 0 + n = n /\ \A i \in 1 .. n : 0 + i = i
    OBVIOUS
  <2> QED
    BY <2>1, <2>2
<1>8. /\ SubSeq(B, at + 1, at + n) \in Seq(Nat) /\ Len(SubSeq(B, at + 1, at + n)) = n
      /\ \A i \in 1 .. n : SubSeq(B, at + 1, at + n)[i] = B[at + i]
  BY <1>3, SliceIs
<1> QED
  BY <1>6, <1>7, <1>8, SeqEqual

LEMMA ReadFieldKeeps == ASSUME ChannelInv, ReadField PROVE ChannelInv'
<1>1. PICK cut, p : p \in Nat /\ Cuts(cut) /\ InOrder(cut, p) /\ ReaderAt(cut, p)
  BY DEF ChannelInv
<1>2. /\ field \in {"version", "code", "size", "payload", "crc"}
      /\ UNCHANGED <<wire, open, written, received>>
      /\ SIZE_SIZE \in Nat \ {0} /\ CRC_SIZE \in Nat \ {0}
  BY ChannelAssumption DEF ReadField, Width
<1>3. PICK a, r, L : /\ a \in Nat /\ r \in Nat /\ L \in Nat
                     /\ a = Len(arrived) /\ r = Len(received) /\ L = Len(written) /\ r <= L
                     /\ written \in Seq(Objects)
  <2>1. /\ arrived \in Seq(Nat) /\ written \in Seq(Objects)
        /\ Len(received) \in 0 .. Len(written)
    BY DEF ChannelInv, ChannelTypes
  <2>2. PICK a \in Nat : a = Len(arrived)
    BY <2>1
  <2>3. PICK L \in Nat : L = Len(written)
    BY <2>1
  <2>4. PICK r \in Nat : r = Len(received) /\ r <= L
    BY <2>1, <2>3
  <2> QED
    BY <2>1, <2>2, <2>3, <2>4
<1>4. DOMAIN frame = {"version", "code", "size", "payload", "crc"}
  BY DEF ChannelInv, ChannelTypes
(* A first byte is there only if there is a frame. *)
<1>5. r < L
  <2>1. CASE field = "version"
    <3>1. a >= 1 /\ p = cut[r]
      BY <1>1, <1>3, <2>1 DEF ReadField, Width, ReaderAt
    <3>2. PICK s \in Nat : s = Len(Stream) /\ s >= a
      <4>1. arrived \in Seq(Nat) /\ wire \in Seq(Nat)
        BY DEF ChannelInv, ChannelTypes
      <4>2. Len(Stream) = Len(arrived) + Len(wire) /\ Len(wire) \in Nat
        BY <4>1, ConcatIs DEF Stream
      <4> QED
        BY <1>3, <4>2
    <3>3. p + s <= cut[L] /\ p \in Nat
      BY <1>1, <1>3, <3>2 DEF InOrder
    <3>4. r # L
      BY <1>3, <3>1, <3>2, <3>3
    <3> QED
      BY <1>3, <3>4
  <2>2. CASE field # "version"
    BY <1>1, <1>2, <1>3, <2>2 DEF ReaderAt
  <2> QED
    BY <2>1, <2>2
<1>6. PICK o \in Objects : o = written[r + 1]
  BY <1>3, <1>5
<1>7. PICK B, P, l : 
         /\ B \in Seq(Nat) /\ P \in Seq(Nat) /\ l \in Nat
         /\ B = BytesOf(o) /\ P = Payload(o) /\ l = Len(P)
         /\ Len(B) = 2 + SIZE_SIZE + (IF l = 0 THEN 0 ELSE l + CRC_SIZE)
         /\ B[2] = Codes[o.name] /\ Codes[o.name] \in Nat
         /\ SubSeq(B, 3, 2 + SIZE_SIZE) = Digits(l, SIZE_SIZE)
         /\ l # 0 => SubSeq(B, 3 + SIZE_SIZE, 2 + SIZE_SIZE + l) = P
         /\ HasRoom(l, SIZE_SIZE)
  <2>1. Payload(o) \in Seq(Nat) /\ Codes[o.name] \in Nat /\ HasRoom(Len(Payload(o)), SIZE_SIZE)
    BY ObjectIs
  <2>2. Len(Payload(o)) \in Nat
    BY <2>1
  <2> QED
    BY <2>1, <2>2, Layout
<1>8. /\ 2 <= Len(B) /\ 2 + SIZE_SIZE <= Len(B) /\ Len(B) \in Nat
      /\ (l = 0 => Len(B) = 2 + SIZE_SIZE)
      /\ (l # 0 => 2 + SIZE_SIZE + l + CRC_SIZE = Len(B))
      /\ (l # 0 => 2 + SIZE_SIZE + l <= Len(B))
  <2>1. PICK b \in Nat : b = Len(B)
    BY <1>7
  <2>2. b = 2 + SIZE_SIZE + (IF l = 0 THEN 0 ELSE l + CRC_SIZE) /\ l \in Nat
    BY <1>7, <2>1
  <2> HIDE <1>7
  <2>3. l = 0 => b = 2 + SIZE_SIZE
    BY <1>2, <2>2
  <2>4. l # 0 => b = 2 + SIZE_SIZE + (l + CRC_SIZE)
    BY <2>2
  <2>5. l = 0 \/ l # 0
    OBVIOUS
  <2> QED
    BY <1>2, <2>1, <2>2, <2>3, <2>4, <2>5
<1>9. PICK e : e \in Nat /\ e = cut[r]
  BY <1>1, <1>3 DEF Cuts
<1>10. \/ field = "version" /\ frame = EmptyFrame /\ p = e
       \/ /\ field # "version" /\ FrameSoFar(o)
          /\ p = e + Offset(o)[field]
  BY <1>1, <1>2, <1>3, <1>6, <1>9 DEF ReaderAt
(* The bytes of the field it waits for are the ones that were written. *)
<1>11. ASSUME NEW at \in Nat, NEW n \in Nat, n = Width[field], p = e + at, at + n <= Len(B)
       PROVE  /\ ChannelTypes' /\ Cuts(cut)' /\ InOrder(cut, p + n)'
              /\ field' = NextField(frame'.size)[field]
              /\ frame' = [frame EXCEPT ![field] =
                    IF field = "payload" THEN SubSeq(B, at + 1, at + n)
                    ELSE Number(SubSeq(B, at + 1, at + n))]
  <2>1. /\ n <= a /\ arrived' = SubSeq(arrived, n + 1, Len(arrived))
        /\ field' = NextField(frame'.size)[field]
        /\ frame' = [frame EXCEPT ![field] = IF field = "payload" THEN SubSeq(arrived, 1, n)
                                             ELSE Number(SubSeq(arrived, 1, n))]
    BY <1>3, <1>11 DEF ReadField
  <2>2. ChannelTypes /\ n <= Len(arrived)
    BY <1>3, <2>1 DEF ChannelInv
  <2>3. InOrder(cut, p + n)' /\ arrived' \in Seq(Nat)
    BY <1>1, <1>2, <2>1, <2>2, TakenInOrder
  <2>4. Cuts(cut)'
    BY <1>1, <1>2 DEF Cuts
  <2>5. DOMAIN frame' = DOMAIN frame
    BY <2>1
  <2>6. ChannelTypes'
    BY <1>2, <2>2, <2>3, <2>5 DEF ChannelTypes
  <2>7. SubSeq(arrived, 1, n) = SubSeq(B, at + 1, at + n)
    <3>1. /\ Len(received) < Len(written) /\ B = BytesOf(written[Len(received) + 1])
          /\ p = cut[Len(received)] + at
      BY <1>3, <1>5, <1>6, <1>7, <1>9, <1>11
    <3> QED
      <4>1. p \in Nat /\ InOrder(cut, p) /\ Cuts(cut)
        BY <1>1
      <4>2. at \in Nat /\ n \in Nat /\ at + n <= Len(B)
        BY <1>11
      <4>3. ChannelTypes /\ n <= Len(arrived)
        BY <2>2
      <4> HIDE <1>1, <1>2, <1>3, <1>7, <1>11
      <4> QED
        BY <3>1, <4>1, <4>2, <4>3, TakenBytes
  <2> QED
    BY <2>1, <2>3, <2>4, <2>6, <2>7
<1>12. ASSUME NEW n \in Nat, ChannelTypes', Cuts(cut)', InOrder(cut, p + n)',
              field' \in {"code", "size", "payload", "crc", "done"},
              p + n = e + Offset(o)[field'], FrameSoFar(o)'
       PROVE  ChannelInv'
  <2>1. ReaderAt(cut, p + n)'
    BY <1>2, <1>3, <1>5, <1>6, <1>9, <1>12 DEF ReaderAt
  <2> QED
    BY <1>1, <1>12, <2>1 DEF ChannelInv
<1>13. CASE field = "version"
  <2>1. p = e + 0 /\ frame = EmptyFrame
    BY <1>9, <1>10, <1>13
  <2>2. 1 = Width[field] /\ 0 + 1 <= Len(B)
    BY <1>13, <1>8 DEF Width
  <2>3. /\ ChannelTypes' /\ Cuts(cut)' /\ InOrder(cut, p + 1)'
        /\ field' = NextField(frame'.size)[field]
        /\ frame' = [frame EXCEPT ![field] = Number(SubSeq(B, 0 + 1, 0 + 1))]
    BY <1>11, <1>13, <2>1, <2>2
  <2>4. field' = "code" /\ frame'.payload = << >>
    BY <1>13, <2>1, <2>3 DEF NextField, EmptyFrame
  <2>5. p + 1 = e + Offset(o)[field'] /\ FrameSoFar(o)'
    BY <1>9, <2>1, <2>4 DEF Offset, FrameSoFar
  <2> QED
    BY <1>12, <2>3, <2>4, <2>5
<1>14. CASE field = "code"
  <2>1. p = e + 1 /\ 1 = Width[field] /\ 1 + 1 <= Len(B) /\ FrameSoFar(o)
    BY <1>2, <1>7, <1>9, <1>10, <1>14 DEF Width, Offset
  <2>2. /\ ChannelTypes' /\ Cuts(cut)' /\ InOrder(cut, p + 1)'
        /\ field' = NextField(frame'.size)[field]
        /\ frame' = [frame EXCEPT ![field] = Number(SubSeq(B, 1 + 1, 1 + 1))]
    BY <1>11, <1>14, <2>1
  <2>3. Number(SubSeq(B, 1 + 1, 1 + 1)) = Codes[o.name]
    <3>1. /\ SubSeq(B, 1 + 1, 1 + 1) \in Seq(Nat) /\ Len(SubSeq(B, 1 + 1, 1 + 1)) = 1
          /\ \A i \in 1 .. 1 : SubSeq(B, 1 + 1, 1 + 1)[i] = B[1 + i]
      BY <1>7, <2>1, SliceIs
    <3>2. SubSeq(B, 1 + 1, 1 + 1)[1] = Codes[o.name]
      BY <1>7, <3>1
    <3>3. SubSeq(B, 1 + 1, 1 + 1) = <<Codes[o.name]>>
      <4>1. <<Codes[o.name]>> \in Seq(Nat) /\ Len(<<Codes[o.name]>>) = 1
        BY <1>7
      <4>2. \A i \in 1 .. 1 : SubSeq(B, 1 + 1, 1 + 1)[i] = <<Codes[o.name]>>[i]
        BY <3>2
      <4> QED
        BY <3>1, <4>1, <4>2, SeqEqual
    <3> QED
      BY <1>7, <3>3, OneByte
  <2>4. field' = "size" /\ frame'.payload = << >> /\ frame'.code = Codes[o.name]
    BY <1>4, <1>14, <2>1, <2>2, <2>3 DEF NextField, FrameSoFar
  <2>5. p + 1 = e + Offset(o)[field'] /\ FrameSoFar(o)'
    BY <1>9, <2>1, <2>4 DEF Offset, FrameSoFar
  <2> QED
    BY <1>12, <2>2, <2>4, <2>5
<1>15. CASE field = "size"
  <2>1. /\ p = e + 2 /\ SIZE_SIZE = Width[field] /\ 2 + SIZE_SIZE <= Len(B)
        /\ FrameSoFar(o) /\ SIZE_SIZE \in Nat
    BY <1>2, <1>7, <1>9, <1>10, <1>15 DEF Width, Offset
  <2>2. /\ ChannelTypes' /\ Cuts(cut)' /\ InOrder(cut, p + SIZE_SIZE)'
        /\ field' = NextField(frame'.size)[field]
        /\ frame' = [frame EXCEPT ![field] = Number(SubSeq(B, 2 + 1, 2 + SIZE_SIZE))]
    BY <1>11, <1>15, <2>1
  <2>3. Number(SubSeq(B, 2 + 1, 2 + SIZE_SIZE)) = l
    <3>1. SubSeq(B, 2 + 1, 2 + SIZE_SIZE) = Digits(l, SIZE_SIZE)
      BY <1>7
    <3> QED
      BY <1>7, <2>1, <3>1, ReadsWhatIsWritten, ZenonT(40)
  <2>4. /\ frame'.payload = << >> /\ frame'.code = Codes[o.name] /\ frame'.size = l
        /\ field' = IF l > 0 THEN "payload" ELSE "done"
    BY <1>4, <1>15, <2>1, <2>2, <2>3 DEF NextField, FrameSoFar
  <2>5. l = 0 => P = << >>
    <3>1. P \in Seq(Nat) /\ << >> \in Seq(Nat) /\ Len(<< >>) = 0 /\ l = Len(P)
      BY <1>7
    <3>2. ASSUME l = 0 PROVE P = << >>
      <4>1. Len(P) = Len(<< >>)
        BY <3>1, <3>2
      <4>2. \A i \in 1 .. Len(P) : P[i] = << >>[i]
        BY <3>1, <3>2
      <4> HIDE <1>7, <1>8
      <4> QED
        BY <3>1, <4>1, <4>2, SeqEqual
    <3> QED
      BY <3>2
  <2>6. p + SIZE_SIZE = e + Offset(o)[field']
    <3>1. l > 0 => Offset(o)[field'] = 2 + SIZE_SIZE
      BY <2>4 DEF Offset
    <3>2. ~(l > 0) => Offset(o)[field'] = Len(B)
      BY <1>7, <2>4 DEF Offset
    <3>3. l \in Nat
      BY <1>7
    <3>4. l > 0 \/ (l = 0 /\ ~(l > 0))
      BY <3>3
    <3>5. CASE l > 0
      <4>1. Offset(o)[field'] = 2 + SIZE_SIZE
        BY <3>1, <3>5
      <4>2. p = e + 2 /\ e \in Nat /\ SIZE_SIZE \in Nat
        BY <1>9, <2>1
      <4>3. p + SIZE_SIZE = e + (2 + SIZE_SIZE)
        BY <4>2
      <4> QED
        BY <4>1, <4>3
    <3>6. CASE l = 0 /\ ~(l > 0)
      <4>1. Len(B) = 2 + SIZE_SIZE
        BY <1>8, <3>6
      <4> QED
        BY <1>9, <2>1, <3>2, <3>6, <4>1, SMTT(30)
    <3> QED
      BY <3>4, <3>5, <3>6
  <2>7. FrameSoFar(o)'
    BY <1>7, <2>4, <2>5 DEF FrameSoFar
  <2> QED
    BY <1>7, <1>12, <2>1, <2>2, <2>4, <2>6, <2>7
<1>16. CASE field = "payload"
  <2>1. p = e + (2 + SIZE_SIZE) /\ FrameSoFar(o)
    BY <1>10, <1>16 DEF Offset
  <2>2. l = Width[field] /\ l # 0
    BY <1>7, <1>16, <2>1 DEF Width, FrameSoFar
  <2>3. /\ p = e + (2 + SIZE_SIZE) /\ l = Width[field] /\ 2 + SIZE_SIZE + l <= Len(B)
        /\ FrameSoFar(o) /\ 2 + SIZE_SIZE \in Nat /\ l # 0
    BY <1>2, <1>8, <2>1, <2>2
  <2>4. /\ ChannelTypes' /\ Cuts(cut)' /\ InOrder(cut, p + l)'
        /\ field' = NextField(frame'.size)[field]
        /\ frame' = [frame EXCEPT ![field] = SubSeq(B, 2 + SIZE_SIZE + 1, 2 + SIZE_SIZE + l)]
    BY <1>7, <1>11, <1>16, <2>3
  <2>5. SubSeq(B, 2 + SIZE_SIZE + 1, 2 + SIZE_SIZE + l) = P
    <3>1. 2 + SIZE_SIZE + 1 = 3 + SIZE_SIZE
      BY <1>2
    <3> QED
      BY <1>7, <2>3, <3>1
  <2>6. /\ frame'.payload = P /\ frame'.code = Codes[o.name] /\ frame'.size = l
        /\ field' = "crc"
    BY <1>4, <1>7, <1>16, <2>3, <2>4, <2>5 DEF NextField, FrameSoFar
  <2>7. p + l = e + Offset(o)[field']
    BY <1>2, <1>7, <1>9, <2>3, <2>6, SMTT(30) DEF Offset
  <2>8. FrameSoFar(o)'
    BY <1>7, <2>3, <2>6 DEF FrameSoFar
  <2> QED
    BY <1>7, <1>12, <2>4, <2>6, <2>7, <2>8
<1>17. CASE field = "crc"
  <2>1. p = e + (2 + SIZE_SIZE + Len(Payload(o))) /\ FrameSoFar(o) /\ CRC_SIZE = Width[field]
    BY <1>10, <1>17 DEF Offset, Width
  <2>2. l = Len(Payload(o)) /\ l # 0
    BY <1>7, <1>17, <2>1 DEF FrameSoFar
  <2>3. /\ p = e + (2 + SIZE_SIZE + l) /\ CRC_SIZE = Width[field]
        /\ 2 + SIZE_SIZE + l + CRC_SIZE = Len(B)
        /\ FrameSoFar(o) /\ 2 + SIZE_SIZE + l \in Nat /\ CRC_SIZE \in Nat
    <3>1. l \in Nat
      BY <1>7
    <3>2. 2 + SIZE_SIZE + l + CRC_SIZE = Len(B)
      BY <1>8, <2>2
    <3>3. p = e + (2 + SIZE_SIZE + l)
      BY <2>1, <2>2
    <3> QED
      BY <1>2, <2>1, <3>1, <3>2, <3>3
  <2>4. /\ ChannelTypes' /\ Cuts(cut)' /\ InOrder(cut, p + CRC_SIZE)'
        /\ field' = NextField(frame'.size)[field]
        /\ frame' = [frame EXCEPT ![field] =
              Number(SubSeq(B, 2 + SIZE_SIZE + l + 1, 2 + SIZE_SIZE + l + CRC_SIZE))]
    BY <1>11, <1>17, <2>3
  <2>5. field' = "done" /\ frame'.payload = P /\ frame'.code = Codes[o.name]
    BY <1>4, <1>7, <1>17, <2>3, <2>4 DEF NextField, FrameSoFar
  <2>6. p + CRC_SIZE = e + Offset(o)[field']
    <3>1. Offset(o)[field'] = Len(B)
      BY <1>7, <2>5 DEF Offset
    <3>2. p + CRC_SIZE = e + (2 + SIZE_SIZE + l + CRC_SIZE)
      <4>1. PICK x \in Nat : x = 2 + SIZE_SIZE + l
        BY <2>3
      <4>2. p = e + x /\ e \in Nat /\ CRC_SIZE \in Nat
        BY <1>9, <2>3, <4>1
      <4>3. p + CRC_SIZE = e + (x + CRC_SIZE)
        BY <4>2
      <4> QED
        BY <4>1, <4>3
    <3> QED
      BY <2>3, <3>1, <3>2
  <2>7. FrameSoFar(o)'
    BY <1>7, <2>5 DEF FrameSoFar
  <2> QED
    BY <1>12, <2>3, <2>4, <2>5, <2>6, <2>7
<1> QED
  BY <1>2, <1>13, <1>14, <1>15, <1>16, <1>17

LEMMA FrameReadKeeps ==
    ASSUME ChannelInv, FrameRead
    PROVE  /\ ChannelInv'
           /\ Len(received) < Len(written)
           /\ received' = Append(received, written[Len(received) + 1])
<1>1. PICK cut, p : p \in Nat /\ Cuts(cut) /\ InOrder(cut, p) /\ ReaderAt(cut, p)
  BY DEF ChannelInv
<1>2. /\ arrived \in Seq(Nat) /\ written \in Seq(Objects)
      /\ Len(received) \in 0 .. Len(written)
  BY DEF ChannelInv, ChannelTypes
<1>3. PICK L \in Nat : L = Len(written)
  BY <1>2
<1>4. PICK r \in Nat : r = Len(received)
  BY <1>2
<1>5. /\ r \in Nat /\ L \in Nat /\ r = Len(received) /\ L = Len(written)
  BY <1>3, <1>4
<1>6. /\ field = "done" /\ field' = "version" /\ frame' = EmptyFrame
      /\ UNCHANGED <<wire, arrived, open, written>>
  BY DEF FrameRead
<1>7. /\ r < L /\ p = cut[r] + Offset(written[r + 1]).done
      /\ FrameSoFar(written[r + 1])
  BY <1>1, <1>5, <1>6 DEF ReaderAt
<1>8. PICK o \in Objects : o = written[r + 1]
  BY <1>2, <1>5, <1>7
<1>9. frame.code = Codes[o.name] /\ frame.payload = Payload(o)
  BY <1>6, <1>7, <1>8 DEF FrameSoFar
<1>10. received' = Append(received, o)
  <2>1. received' = Append(received, Object(NameOf(frame.code),
           IF HasObject(NameOf(frame.code)) THEN Deserialize(NameOf(frame.code), frame.payload)
           ELSE frame.payload))
    BY DEF FrameRead
  <2>2. NameOf(frame.code) = o.name
    BY <1>9, ObjectIs
  <2>3. /\ (IF HasObject(o.name) THEN Deserialize(o.name, Payload(o)) ELSE Payload(o)) = o.items
        /\ o = Object(o.name, o.items)
    BY ObjectIs
  <2> QED
    BY <1>9, <2>1, <2>2, <2>3
<1>11. Len(received') = r + 1
  BY <1>5, <1>10
<1>12. ChannelTypes'
  BY <1>2, <1>5, <1>6, <1>7, <1>11 DEF ChannelInv, ChannelTypes, EmptyFrame
<1>13. Cuts(cut)'
  BY <1>1, <1>6 DEF Cuts
<1>14. InOrder(cut, p)'
  <2>1. Stream' = Stream
    BY <1>6 DEF Stream
  <2> QED
    BY <1>1, <1>5, <1>6, <1>11, <2>1, SMTT(30) DEF InOrder
<1>15. p = cut[r + 1]
  <2>1. r + 1 \in 1 .. Len(written) /\ r + 1 - 1 = r
    BY <1>5, <1>7
  <2>2. cut[r + 1] = cut[r] + Len(BytesOf(written[r + 1]))
    BY <1>1, <2>1 DEF Cuts
  <2>3. Offset(written[r + 1]).done = Len(BytesOf(written[r + 1]))
    BY DEF Offset
  <2> QED
    BY <1>7, <2>2, <2>3
<1>16. ReaderAt(cut, p)'
  BY <1>6, <1>11, <1>15 DEF ReaderAt
<1> QED
  BY <1>1, <1>5, <1>7, <1>8, <1>10, <1>12, <1>13, <1>14, <1>16 DEF ChannelInv

LEMMA ReadEndsKeeps == ASSUME ChannelInv, ReadEnds PROVE ChannelInv'
<1>1. /\ field = "version" /\ field' = "stopped"
      /\ UNCHANGED <<wire, arrived, open, frame, written, received>>
  BY DEF ReadEnds
<1>2. PICK cut, p : p \in Nat /\ Cuts(cut) /\ InOrder(cut, p) /\ ReaderAt(cut, p)
  BY DEF ChannelInv
<1>3. Stream' = Stream
  BY <1>1 DEF Stream
<1>4. ChannelTypes' /\ Cuts(cut)' /\ InOrder(cut, p)'
  BY <1>1, <1>2, <1>3 DEF ChannelInv, ChannelTypes, Cuts, InOrder
<1>5. ReaderAt(cut, p)'
  BY <1>1, <1>2 DEF ReaderAt
<1> QED
  BY <1>2, <1>4, <1>5 DEF ChannelInv

-----------------------------------------------------------------------------
(* The refinement. *)

LEMMA InitQueue == Init => Queue!Init
BY DEF Init, Queue!Init, Pending

LEMMA WriteFramePuts == ASSUME ChannelInv, WriteFrame PROVE Queue!Put
<1>1. PICK name \in DOMAIN Codes, items \in Bodies :
         /\ ~HasObject(name) => items = << >>
         /\ written' = Append(written, Object(name, items))
  BY DEF WriteFrame
<1>2. PICK o \in Objects : o = Object(name, items)
  BY <1>1 DEF Objects, Item, Object
<1>3. written \in Seq(Objects) /\ Len(received) \in 0 .. Len(written)
  BY DEF ChannelInv, ChannelTypes
<1>4. PICK r, L : /\ r \in Nat /\ L \in Nat /\ r = Len(received) /\ L = Len(written) /\ r <= L
  BY <1>3
<1>5. received' = received
  BY DEF WriteFrame
<1>6. /\ written' = Append(written, o) /\ Len(written') = L + 1
      /\ written' \in Seq(Objects)
      /\ \A i \in 1 .. L : written'[i] = written[i]
      /\ written'[L + 1] = o
  BY <1>1, <1>2, <1>3, <1>4, AppendProperties
<1>7. SubSeq(written', r + 1, L + 1) = Append(SubSeq(written, r + 1, L), o)
  <2>1. \A i \in r + 1 .. L : written[i] \in Objects
    BY <1>3, <1>4
  <2>2. /\ SubSeq(written, r + 1, L) \in Seq(Objects)
        /\ Len(SubSeq(written, r + 1, L)) = L - r
        /\ \A i \in 1 .. L - r : SubSeq(written, r + 1, L)[i] = written[r + i]
    BY <1>4, <2>1, SubSeqProperties
  <2>3. \A i \in r + 1 .. L + 1 : written'[i] \in Objects
    BY <1>4, <1>6
  <2>4. /\ SubSeq(written', r + 1, L + 1) \in Seq(Objects)
        /\ Len(SubSeq(written', r + 1, L + 1)) = L - r + 1
        /\ \A i \in 1 .. L - r + 1 : SubSeq(written', r + 1, L + 1)[i] = written'[r + i]
    BY <1>4, <2>3, SubSeqProperties
  <2>5. PICK s \in Seq(Objects) : s = SubSeq(written, r + 1, L) /\ Len(s) = L - r
    BY <2>2
  <2>6. /\ Append(s, o) \in Seq(Objects) /\ Len(Append(s, o)) = L - r + 1
        /\ \A i \in 1 .. L - r : Append(s, o)[i] = s[i]
        /\ Append(s, o)[L - r + 1] = o
    BY <1>4, <2>5, AppendProperties
  <2>7. ASSUME NEW i \in 1 .. L - r + 1 PROVE written'[r + i] = Append(s, o)[i]
    <3>1. CASE i = L - r + 1
      BY <1>4, <1>6, <2>6, <3>1
    <3>2. CASE i \in 1 .. L - r
      BY <1>4, <1>6, <2>2, <2>5, <2>6, <3>2
    <3>3. L - r + 1 \in Nat
      BY <1>4
    <3>4. i = L - r + 1 \/ i \in 1 .. L - r
      BY <1>4
    <3> QED
      BY <3>1, <3>2, <3>4
  <2>8. PICK t \in Seq(Objects) : t = SubSeq(written', r + 1, L + 1)
    BY <2>4
  <2>9. Len(t) = Len(Append(s, o)) /\ \A i \in 1 .. Len(t) : t[i] = Append(s, o)[i]
    BY <2>4, <2>6, <2>7, <2>8
  <2>10. t = Append(s, o)
    BY <2>6, <2>9, SeqEqual
  <2> QED
    BY <2>5, <2>8, <2>10
<1>8. Pending' = Append(Pending, o)
  BY <1>4, <1>5, <1>6, <1>7 DEF Pending
<1>9. o \in Item
  BY DEF Objects
<1> QED
  BY <1>5, <1>8, <1>9 DEF Queue!Put

LEMMA FrameReadGets == ASSUME ChannelInv, FrameRead PROVE Queue!Get
<1>1. /\ Len(received) < Len(written) /\ UNCHANGED written
      /\ received' = Append(received, written[Len(received) + 1])
  BY FrameReadKeeps DEF FrameRead
<1>2. written \in Seq(Objects) /\ Len(received) \in 0 .. Len(written)
  BY DEF ChannelInv, ChannelTypes
<1>3. PICK r, L : /\ r \in Nat /\ L \in Nat /\ r = Len(received) /\ L = Len(written) /\ r < L
  BY <1>1, <1>2
<1>4. r + 1 \in 1 .. Len(written) /\ L \in r + 1 .. Len(written)
  BY <1>3
<1>5. /\ Head(SubSeq(written, r + 1, L)) = written[r + 1]
      /\ Tail(SubSeq(written, r + 1, L)) = SubSeq(written, r + 1 + 1, L)
  BY <1>2, <1>4, HeadTailOfSubSeq
<1>6. SubSeq(written, r + 1, L) # << >>
  <2>1. \A i \in r + 1 .. L : written[i] \in Objects
    BY <1>2, <1>3
  <2>2. Len(SubSeq(written, r + 1, L)) = L - r /\ L - r # 0
    BY <1>3, <2>1, SubSeqProperties
  <2>3. Len(<< >>) = 0
    OBVIOUS
  <2> QED
    BY <2>2, <2>3
<1>7. Len(received') = r + 1
  BY <1>1, <1>3
<1>8. Pending = SubSeq(written, r + 1, L) /\ Pending' = SubSeq(written, r + 1 + 1, L)
  BY <1>1, <1>3, <1>7 DEF Pending
<1> QED
  BY <1>1, <1>3, <1>5, <1>6, <1>8 DEF Queue!Get

LEMMA StepChannel ==
    ASSUME ChannelInv, [Next]_vars
    PROVE  ChannelInv' /\ [Queue!Next]_<<Pending, received>>
<1>1. CASE WriteFrame
  BY <1>1, WriteFrameKeeps, WriteFramePuts DEF Queue!Next
<1>2. CASE Arrive
  BY <1>2, ArriveKeeps DEF Arrive, Pending
<1>3. CASE Close
  BY <1>3, CloseKeeps DEF Close, Pending
<1>4. CASE ReadField
  BY <1>4, ReadFieldKeeps DEF ReadField, Pending
<1>5. CASE FrameRead
  BY <1>5, FrameReadKeeps, FrameReadGets DEF Queue!Next
<1>6. CASE ReadEnds
  BY <1>6, ReadEndsKeeps DEF ReadEnds, Pending
<1>7. CASE UNCHANGED vars
  <2>1. UNCHANGED <<wire, arrived, open, field, frame, written, received>>
    BY <1>7 DEF vars
  <2>2. PICK cut, p : p \in Nat /\ Cuts(cut) /\ InOrder(cut, p) /\ ReaderAt(cut, p)
    BY DEF ChannelInv
  <2>3. Stream' = Stream /\ Pending' = Pending
    BY <2>1 DEF Stream, Pending
  <2>4. ChannelTypes' /\ Cuts(cut)' /\ InOrder(cut, p)' /\ ReaderAt(cut, p)'
    BY <2>1, <2>2, <2>3 DEF ChannelInv, ChannelTypes, Cuts, InOrder, ReaderAt, FrameSoFar
  <2> QED
    BY <2>1, <2>2, <2>3, <2>4 DEF ChannelInv
<1> QED
  BY <1>1, <1>2, <1>3, <1>4, <1>5, <1>6, <1>7 DEF Next, Read

(* Whatever the pieces the bytes come in, the reader makes the objects of  *)
(* them that were written, in their order and none twice, although nothing *)
(* in the stream says where a frame begins (AHPChannel::writeFrame and     *)
(* readFrame, ahpchannel.cpp:12-88): for all commands, objects, widths of  *)
(* the fields and numbers of frames, and with a writer that may close or   *)
(* lose what it still had to send.                                         *)
THEOREM ChannelImplementsQueue == Spec => ImplementsQueue
<1>1. Init => ChannelInv /\ Queue!Init
  BY InitChannel, InitQueue
<1>2. ChannelInv /\ [Next]_vars => ChannelInv' /\ [Queue!Next]_<<Pending, received>>
  BY StepChannel
<1> QED
  BY <1>1, <1>2, PTL DEF Spec, ImplementsQueue, Queue!Spec
=============================================================================
