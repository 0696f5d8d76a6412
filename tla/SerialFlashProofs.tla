-------------------------- MODULE SerialFlashProofs --------------------------
(***************************************************************************)
(* The external flash answers and changes as the firmware's commands say,  *)
(* whatever the sizes of chip, sector and buffer, the bytes sent, the      *)
(* contents of uninitialised memory and the moments of resets.             *)
(***************************************************************************)
EXTENDS SerialFlash, SequenceTheorems, TLAPS

-----------------------------------------------------------------------------
(* The ring buffer: a queue that drops its oldest element, whatever its    *)
(* size and whatever is stored in it.                                      *)

\* An index less than two laps ahead wraps at most once.
LEMMA Wrap ==
    ASSUME NEW n \in Nat \ {0}, NEW a \in 0..2*n-1
    PROVE  /\ a < n => a % n = a
           /\ a >= n => a % n = a - n
           /\ a % n \in 0..n-1
<1>1. CASE a < n
  BY <1>1
<1>2. CASE a >= n
  BY <1>2
<1> QED
  BY <1>1, <1>2

LEMMA WrapSize ==
    \A a \in 0..2*Size-1 : /\ a < Size => a % Size = a
                           /\ a >= Size => a % Size = a - Size
                           /\ a % Size \in 0..Size-1
  BY Wrap, FIFOAssumption

-----------------------------------------------------------------------------
LEMMA TypeOKInit == Init => TypeOK
  BY FIFOAssumption DEF Init, TypeOK

LEMMA PushType ==
    ASSUME TypeOK, NEW elem \in Elem, Push(elem)
    PROVE  TypeOK'
<1>1. Size \in Nat \ {0} /\ head \in 0..Size-1 /\ stored \in 0..Size
  BY FIFOAssumption DEF TypeOK
<1>2. data' \in [0..Size-1 -> Elem] /\ popped' \in Elem
  BY DEF Push, TypeOK
<1>3. CASE full
  <2>1. head + 1 \in 0..2*Size-1
    BY <1>1
  <2>2. (head + 1) % Size \in 0..Size-1
    BY <1>1, <2>1, Wrap
  <2> QED
    BY <1>1, <1>2, <1>3, <2>2 DEF Push, TypeOK
<1>4. CASE ~full
  BY <1>1, <1>2, <1>4 DEF Push, TypeOK, full
<1> QED
  BY <1>3, <1>4

LEMMA PopType ==
    ASSUME TypeOK, Pop
    PROVE  TypeOK'
<1>1. Size \in Nat \ {0} /\ head \in 0..Size-1 /\ stored \in 0..Size
  BY FIFOAssumption DEF TypeOK
<1>2. CASE empty
  BY <1>2, FIFOAssumption DEF Pop, TypeOK
<1>3. CASE ~empty
  <2>1. head + 1 \in 0..2*Size-1
    BY <1>1
  <2>2. (head + 1) % Size \in 0..Size-1
    BY <1>1, <2>1, Wrap
  <2>3. data[head] \in Elem
    BY <1>1 DEF TypeOK
  <2> QED
    BY <1>1, <1>3, <2>2, <2>3 DEF Pop, TypeOK, empty
<1> QED
  BY <1>2, <1>3

\* The indices of FIFO.cpp never leave the array.
THEOREM TypeCorrect == Spec => []TypeOK
<1>1. TypeOK /\ [Next]_fifoVars => TypeOK'
  <2>1. ASSUME TypeOK, UNCHANGED fifoVars
        PROVE  TypeOK'
    BY <2>1 DEF TypeOK, fifoVars
  <2> QED
    BY <2>1, PushType, PopType DEF Next
<1> QED
  BY <1>1, TypeOKInit, PTL DEF Spec

-----------------------------------------------------------------------------
(* The elements held in an array d, from index h on, s of them.            *)

Held(d, h, s) == [i \in 1..s |-> d[(h + i - 1) % Size]]

\* Slot(h, i) is the array index of the i-th of them.
Slot(h, i) == IF h + i - 1 < Size THEN h + i - 1 ELSE h + i - 1 - Size

LEMMA SlotIndex ==
    ASSUME NEW h \in 0..Size-1, NEW i \in 1..Size+1
    PROVE  (h + i - 1) % Size = Slot(h, i) /\ Slot(h, i) \in 0..Size-1
<1>1. Size \in Nat \ {0}
  BY FIFOAssumption
<1> DEFINE a == h + i - 1
           r == a % Size
<1>2. a \in 0..2*Size-1
  BY <1>1
<1>3. (a < Size => r = a) /\ (a >= Size => r = a - Size) /\ r \in 0..Size-1
  <2> HIDE DEF a
  <2> QED
    BY <1>2, WrapSize, Zenon
<1> HIDE DEF r
<1>4. r = Slot(h, i)
  BY <1>1, <1>3 DEF Slot
<1>5. r = (h + i - 1) % Size
  BY Zenon DEF r
<1> QED
  BY <1>3, <1>4, <1>5, Zenon

LEMMA HeldIsSequence ==
    ASSUME NEW d \in [0..Size-1 -> Elem], NEW h \in 0..Size-1, NEW s \in 0..Size
    PROVE  /\ Held(d, h, s) \in Seq(Elem)
           /\ Len(Held(d, h, s)) = s
           /\ \A i \in 1..s : Held(d, h, s)[i] = d[Slot(h, i)]
<1>1. Size \in Nat \ {0}
  BY FIFOAssumption
<1>2. ASSUME NEW i \in 1..s
      PROVE  d[(h + i - 1) % Size] = d[Slot(h, i)] /\ d[Slot(h, i)] \in Elem
  <2>1. i \in 1..Size+1
    BY <1>1
  <2> QED
    BY <2>1, SlotIndex
<1>3. Held(d, h, s) \in [1..s -> Elem]
  BY <1>2 DEF Held
<1>4. Held(d, h, s) \in Seq(Elem) /\ Len(Held(d, h, s)) = s
  BY <1>1, <1>3
<1> QED
  BY <1>2, <1>4 DEF Held

\* Storing behind the last element appends, if there is room.
LEMMA HeldAppend ==
    ASSUME NEW d \in [0..Size-1 -> Elem], NEW h \in 0..Size-1, NEW s \in 0..Size-1,
           NEW elem \in Elem
    PROVE  Held([d EXCEPT ![(h + s) % Size] = elem], h, s + 1) = Append(Held(d, h, s), elem)
<1> DEFINE e == [d EXCEPT ![(h + s) % Size] = elem]
           old == Held(d, h, s)
           new == Held(e, h, s + 1)
           app == Append(old, elem)
<1>1. Size \in Nat \ {0} /\ s \in 0..Size /\ s + 1 \in 0..Size
  BY FIFOAssumption
<1>2. e = [d EXCEPT ![Slot(h, s + 1)] = elem]
  <2>1. (h + (s + 1) - 1) % Size = Slot(h, s + 1)
    BY <1>1, SlotIndex
  <2>2. h + (s + 1) - 1 = h + s
    BY <1>1
  <2> QED
    BY <2>1, <2>2
<1>3. \A i \in 1..s+1 : Slot(h, i) \in 0..Size-1 /\ (i <= s => Slot(h, i) # Slot(h, s + 1))
  BY <1>1 DEF Slot
<1> HIDE DEF e
<1>4. e \in [0..Size-1 -> Elem]
  BY <1>2
<1>5. old \in Seq(Elem) /\ Len(old) = s /\ \A i \in 1..s : old[i] = d[Slot(h, i)]
  BY <1>1, HeldIsSequence
<1>6. new \in Seq(Elem) /\ Len(new) = s + 1 /\ \A i \in 1..s+1 : new[i] = e[Slot(h, i)]
  BY <1>1, <1>4, HeldIsSequence
<1> HIDE DEF old, new
<1>7. /\ app \in Seq(Elem)
      /\ Len(app) = s + 1
      /\ \A i \in 1..s : app[i] = old[i]
      /\ app[s + 1] = elem
  BY <1>5, AppendProperties
<1> HIDE DEF app
<1>8. ASSUME NEW i \in 1..s+1
      PROVE  new[i] = app[i]
  <2>1. CASE i = s + 1
    BY <1>1, <1>2, <1>3, <1>6, <1>7, <2>1
  <2>2. CASE i # s + 1
    <3>1. i \in 1..s /\ i <= s
      BY <1>1, <2>2
    <3> QED
      BY <1>2, <1>3, <1>5, <1>6, <1>7, <3>1
  <2> QED
    BY <2>1, <2>2
<1>9. new = app
  BY <1>6, <1>7, <1>8, SeqEqual
<1> QED
  BY <1>9 DEF new, app, old, e

\* Moving past the oldest element takes it off.
LEMMA HeldTail ==
    ASSUME NEW d \in [0..Size-1 -> Elem], NEW h \in 0..Size-1, NEW s \in 1..Size
    PROVE  /\ Held(d, h, s) # <<>>
           /\ Head(Held(d, h, s)) = d[h]
           /\ (h + 1) % Size \in 0..Size-1
           /\ Tail(Held(d, h, s)) = Held(d, (h + 1) % Size, s - 1)
<1> DEFINE k == (h + 1) % Size
           old == Held(d, h, s)
           new == Held(d, k, s - 1)
<1>1. Size \in Nat \ {0} /\ s \in 0..Size /\ s - 1 \in 0..Size
  BY FIFOAssumption
<1>2. (h + 1 < Size => k = h + 1) /\ (h + 1 = Size => k = 0)
  <2> DEFINE a == h + 1
  <2>1. a \in 0..2*Size-1
    BY <1>1
  <2>2. (a < Size => k = a) /\ (a >= Size => k = a - Size)
    <3>1. k = a % Size
      OBVIOUS
    <3> HIDE DEF a, k
    <3> QED
      BY <2>1, <3>1, WrapSize, Zenon
  <2> HIDE DEF k
  <2> QED
    BY <1>1, <2>2
<1> HIDE DEF k
<1>3. k \in 0..Size-1
  BY <1>1, <1>2
<1>4. \A i \in 1..s-1 : Slot(k, i) = Slot(h, i + 1)
  BY <1>1, <1>2 DEF Slot
<1>5. old \in Seq(Elem) /\ Len(old) = s /\ \A i \in 1..s : old[i] = d[Slot(h, i)]
  BY <1>1, HeldIsSequence
<1>6. new \in Seq(Elem) /\ Len(new) = s - 1 /\ \A i \in 1..s-1 : new[i] = d[Slot(k, i)]
  BY <1>1, <1>3, HeldIsSequence
<1> HIDE DEF old, new
<1>7. old # <<>>
  BY <1>1, <1>5
<1>8. /\ Tail(old) \in Seq(Elem)
      /\ Len(Tail(old)) = s - 1
      /\ \A i \in 1..s-1 : Tail(old)[i] = old[i + 1]
  BY <1>5, <1>7, HeadTailProperties
<1>9. ASSUME NEW i \in 1..s-1
      PROVE  Tail(old)[i] = new[i]
  <2>1. i + 1 \in 1..s
    BY <1>1
  <2> QED
    BY <1>4, <1>5, <1>6, <1>8, <2>1
<1>10. Tail(old) = new
  BY <1>6, <1>8, <1>9, SeqEqual
<1>11. Head(old) = d[h]
  <2>1. Head(old) = old[1] /\ 1 \in 1..s
    BY <1>1, <1>5, <1>7
  <2>2. Slot(h, 1) = h
    BY <1>1 DEF Slot
  <2> QED
    BY <1>5, <2>1, <2>2
<1> QED
  BY <1>3, <1>7, <1>10, <1>11 DEF k, old, new

-----------------------------------------------------------------------------
(* Every operation of the ring buffer is the queue's.                      *)

LEMMA PushIsPush ==
    ASSUME TypeOK, NEW elem \in Elem, Push(elem)
    PROVE  Queue!Push(elem)
<1>1. Size \in Nat \ {0} /\ data \in [0..Size-1 -> Elem] /\ head \in 0..Size-1 /\ stored \in 0..Size
  BY FIFOAssumption DEF TypeOK
<1>2. Contents = Held(data, head, stored) /\ Contents' = Held(data', head', stored')
  BY DEF Contents, Held
<1>3. Len(Contents) = stored
  BY <1>1, <1>2, HeldIsSequence
<1>4. CASE full
  <2> DEFINE k == (head + 1) % Size
  <2>1. /\ k \in 0..Size-1
        /\ Tail(Contents) = Held(data, k, Size - 1)
    <3>1. Size \in 1..Size /\ Contents = Held(data, head, Size)
      BY <1>1, <1>2, <1>4 DEF full
    <3> QED
      BY <1>1, <3>1, HeldTail
  <2>2. (head + stored) % Size = (k + (Size - 1)) % Size
    <3> DEFINE a == head + Size
               c == head + 1
    <3>1. a \in 0..2*Size-1 /\ c \in 0..2*Size-1 /\ a >= Size
      BY <1>1
    <3>2. a % Size = a - Size /\ (c < Size => k = c) /\ (c >= Size => k = c - Size)
      <4>1. k = c % Size
        OBVIOUS
      <4> HIDE DEF a, c, k
      <4> QED
        BY <3>1, <4>1, WrapSize, Zenon
    <3>3. a - Size = head
      BY <1>1
    <3> HIDE DEF k
    <3> DEFINE b == k + (Size - 1)
    <3>4. b \in 0..2*Size-1 /\ (b < Size => b = head) /\ (b >= Size => b - Size = head)
      BY <1>1, <3>2
    <3>5. (b < Size => b % Size = b) /\ (b >= Size => b % Size = b - Size)
      <4> HIDE DEF b
      <4> QED
        BY <3>4, WrapSize, Zenon
    <3>6. b < Size \/ b >= Size
      BY <1>1, <3>4
    <3>7. b % Size = head
      BY <3>4, <3>5, <3>6, Zenon
    <3>8. stored = Size
      BY <1>4 DEF full
    <3> QED
      BY <3>2, <3>3, <3>7, <3>8, Zenon
  <2>3. data' = [data EXCEPT ![(k + (Size - 1)) % Size] = elem] /\ head' = k /\ stored' = Size
    BY <1>4, <2>2 DEF Push, full
  <2> HIDE DEF k
  <2> DEFINE s == Size - 1
  <2>4. s \in 0..Size-1 /\ s + 1 = Size
    BY <1>1
  <2>5. Contents' = Append(Tail(Contents), elem)
    <3>1. Contents' = Held([data EXCEPT ![(k + s) % Size] = elem], k, Size)
      BY <1>2, <2>3
    <3>2. Tail(Contents) = Held(data, k, s)
      BY <2>1
    <3> HIDE DEF s
    <3>3. Held([data EXCEPT ![(k + s) % Size] = elem], k, s + 1) = Append(Held(data, k, s), elem)
      BY <1>1, <2>1, <2>4, HeldAppend
    <3> QED
      BY <2>4, <3>1, <3>2, <3>3, Zenon
  <2> QED
    BY <1>3, <1>1, <1>4, <2>5 DEF Queue!Push, full, Push
<1>5. CASE ~full
  <2>1. stored \in 0..Size-1
    BY <1>1, <1>5 DEF full
  <2>2. Contents' = Append(Contents, elem)
    <3>1. data' = [data EXCEPT ![(head + stored) % Size] = elem] /\ head' = head /\ stored' = stored + 1
      BY <1>5 DEF Push
    <3>2. Contents' = Held([data EXCEPT ![(head + stored) % Size] = elem], head, stored + 1)
      BY <1>2, <3>1, Zenon
    <3> QED
      BY <1>1, <1>2, <2>1, <3>2, HeldAppend
  <2> QED
    BY <1>3, <1>1, <2>1, <1>5, <2>2 DEF Queue!Push, Push
<1> QED
  BY <1>4, <1>5

LEMMA PopIsPop ==
    ASSUME TypeOK, Pop
    PROVE  Queue!Pop
<1>1. Size \in Nat \ {0} /\ data \in [0..Size-1 -> Elem] /\ head \in 0..Size-1 /\ stored \in 0..Size
  BY FIFOAssumption DEF TypeOK
<1>2. Contents = Held(data, head, stored) /\ Contents' = Held(data', head', stored')
  BY DEF Contents, Held
<1>3. CASE empty
  <2>1. Contents \in Seq(Elem) /\ Len(Contents) = 0
    BY <1>1, <1>2, <1>3, HeldIsSequence DEF empty
  <2>2. Contents = <<>>
    BY <2>1, EmptySeq
  <2>3. Contents' = Contents /\ popped' = 0
    BY <1>2, <1>3 DEF Pop
  <2> QED
    BY <2>2, <2>3 DEF Queue!Pop
<1>4. CASE ~empty
  <2>1. stored \in 1..Size
    BY <1>1, <1>4 DEF empty
  <2>2. /\ Contents # <<>>
        /\ Head(Contents) = data[head]
        /\ Tail(Contents) = Held(data, (head + 1) % Size, stored - 1)
    BY <1>1, <1>2, <2>1, HeldTail
  <2>3. popped' = data[head] /\ Contents' = Tail(Contents)
    BY <1>2, <1>4, <2>2 DEF Pop
  <2> QED
    BY <2>2, <2>3 DEF Queue!Pop
<1> QED
  BY <1>3, <1>4

\* FIFO::push and FIFO::pop implement the queue that drops its oldest element
\* on overflow and answers 0 when empty, for every size of buffer.
THEOREM Refinement == Spec => IsLossyQueue
<1>1. Init => Queue!Init
  <2>1. SUFFICES ASSUME Init
                 PROVE  Contents = <<>> /\ popped = 0
    BY DEF Queue!Init
  <2>2. TypeOK /\ stored = 0 /\ popped = 0
    BY <2>1, TypeOKInit DEF Init
  <2>3. Contents = Held(data, head, stored)
    BY DEF Contents, Held
  <2>4. stored \in 0..Size
    BY <2>2 DEF TypeOK
  <2>5. Contents \in Seq(Elem) /\ Len(Contents) = 0
    BY <2>2, <2>3, <2>4, HeldIsSequence DEF TypeOK
  <2> QED
    BY <2>2, <2>5, EmptySeq
<1>2. TypeOK /\ [Next]_fifoVars => [Queue!Next]_<<Contents, popped>>
  <2>1. ASSUME TypeOK, UNCHANGED fifoVars
        PROVE  UNCHANGED <<Contents, popped>>
    BY <2>1 DEF fifoVars, Contents
  <2> QED
    BY <2>1, PushIsPush, PopIsPop DEF Next, Queue!Next
<1> QED
  BY <1>1, <1>2, TypeCorrect, PTL DEF Spec, IsLossyQueue, Queue!Spec

-----------------------------------------------------------------------------
(* The flash chip and its commands.                                        *)

LEMMA BaseFacts ==
    /\ ByteBase \in Nat \ {0}
    /\ Elem = Byte
    /\ 0 \in Byte /\ Erased \in Byte
    /\ Byte \subseteq Nat
    /\ MemSize \in Nat
    /\ Code["READ_DATA_SLOW"] \in Byte \ {0}
    /\ Code["PROGRAM_PAGE"] \in Byte \ {0}
    /\ Code["ERASE_SECTOR_4K"] \in Byte \ {0}
    /\ Code["READ_DATA_SLOW"] # Code["PROGRAM_PAGE"]
    /\ Code["READ_DATA_SLOW"] # Code["ERASE_SECTOR_4K"]
    /\ Code["PROGRAM_PAGE"] # Code["ERASE_SECTOR_4K"]
    /\ CsPin \in Pin
    /\ Garbage \subseteq Byte
    /\ Stored \subseteq [0..MemSize-1 -> Byte]
  BY SerialFlashAssumption DEF Byte, Erased

LEMMA StreamIsBytes ==
    ASSUME NEW i \in 1..Len(Stream), NEW byte \in Stream[i]
    PROVE  byte \in Byte
<1>1. Stream \in Seq(SUBSET Byte)
  BY SerialFlashAssumption
<1>2. Stream[i] \in SUBSET Byte
  BY <1>1
<1> QED
  BY <1>2

-----------------------------------------------------------------------------
(* The address in a stream of bytes.                                       *)

LEMMA ProductIsNat ==
    ASSUME NEW m \in Nat, NEW n \in Nat
    PROVE  m * n \in Nat
  OBVIOUS

\* The three places of an address.
LEMMA Places ==
    ASSUME NEW byte \in Byte
    PROVE  /\ Shifted(byte, 1) = byte * (ByteBase * ByteBase)
           /\ Shifted(byte, 2) = byte * ByteBase
           /\ Shifted(byte, 3) = byte
           /\ byte * (ByteBase * ByteBase) \in Nat
           /\ byte * ByteBase \in Nat
           /\ byte \in Nat
<1>1. byte \in Nat /\ ByteBase \in Nat
  BY BaseFacts
<1>2. ByteBase * ByteBase \in Nat /\ byte * ByteBase \in Nat
  BY <1>1, ProductIsNat
<1>3. byte * (ByteBase * ByteBase) \in Nat
  BY <1>1, <1>2, ProductIsNat
<1>4. 2 # 1 /\ 3 # 1 /\ 3 # 2
  OBVIOUS
<1> QED
  BY <1>1, <1>2, <1>3, <1>4, Zenon DEF Shifted

LEMMA ShiftedIsNat ==
    ASSUME NEW byte \in Byte, NEW i \in 1..3
    PROVE  Shifted(byte, i) \in Nat
<1>1. i = 1 \/ i = 2 \/ i = 3
  OBVIOUS
<1> QED
  BY <1>1, Places, Zenon

LEMMA AddressOfEmpty == AddressOf(<<>>) = 0
  BY DEF AddressOf

LEMMA AddressOfIsNat ==
    ASSUME NEW s \in Seq(Byte)
    PROVE  AddressOf(s) \in Nat
<1> DEFINE a2 == IF Len(s) >= 2 THEN s[2] * (ByteBase * ByteBase) ELSE 0
           a3 == IF Len(s) >= 3 THEN s[3] * ByteBase ELSE 0
           a4 == IF Len(s) >= 4 THEN s[4] ELSE 0
<1>1. /\ Len(s) >= 2 => s[2] \in Byte
      /\ Len(s) >= 3 => s[3] \in Byte
      /\ Len(s) >= 4 => s[4] \in Byte
  BY BaseFacts
<1>2. 0 \in Nat
  OBVIOUS
<1>3. a2 \in Nat
  BY <1>1, <1>2, Places, Zenon
<1>4. a3 \in Nat
  BY <1>1, <1>2, Places, Zenon
<1>5. a4 \in Nat
  BY <1>1, <1>2, Places, Zenon
<1>6. AddressOf(s) = a2 + a3 + a4
  BY DEF AddressOf
<1> HIDE DEF a2, a3, a4
<1> QED
  BY <1>3, <1>4, <1>5, <1>6

\* One more byte is shifted to its place, and the bytes after the fourth do not count.
LEMMA AddressOfAppend ==
    ASSUME NEW s \in Seq(Byte), NEW byte \in Byte
    PROVE  /\ Len(s) = 0 => AddressOf(Append(s, byte)) = 0
           /\ Len(s) \in 1..3 => AddressOf(Append(s, byte)) = AddressOf(s) + Shifted(byte, Len(s))
           /\ Len(s) >= 4 => AddressOf(Append(s, byte)) = AddressOf(s)
<1> DEFINE t == Append(s, byte)
<1>1. /\ t \in Seq(Byte) /\ Len(t) = Len(s) + 1
      /\ \A i \in 1..Len(s) : t[i] = s[i]
      /\ t[Len(s) + 1] = byte
  BY AppendProperties
<1>2. Len(s) \in Nat
  OBVIOUS
<1> HIDE DEF t
<1>3. CASE Len(s) = 0
  <2>1. AddressOf(t) = 0 + 0 + 0
    BY <1>1, <1>2, <1>3 DEF AddressOf
  <2> QED
    BY <1>2, <1>3, <2>1 DEF t
<1>4. CASE Len(s) = 1
  <2>1. t[2] = byte
    BY <1>1, <1>4
  <2> DEFINE p == byte * (ByteBase * ByteBase)
  <2>2. AddressOf(t) = p + 0 + 0 /\ AddressOf(s) = 0
    BY <1>1, <1>4, <2>1 DEF AddressOf
  <2>3. Shifted(byte, Len(s)) = p /\ p \in Nat
    BY <1>4, Places, Zenon
  <2> HIDE DEF p
  <2> QED
    BY <1>4, <2>2, <2>3 DEF t
<1>5. CASE Len(s) = 2
  <2>1. t[2] = s[2] /\ t[3] = byte /\ s[2] \in Byte
    <3>1. 2 \in 1..Len(s) /\ Len(s) + 1 = 3
      BY <1>5
    <3> QED
      BY <1>1, <3>1
  <2> DEFINE p == s[2] * (ByteBase * ByteBase)
             q == byte * ByteBase
  <2>2. AddressOf(t) = p + q + 0 /\ AddressOf(s) = p + 0 + 0
    BY <1>1, <1>5, <2>1 DEF AddressOf
  <2>3. Shifted(byte, Len(s)) = q /\ q \in Nat
    BY <1>5, Places, Zenon
  <2>4. p \in Nat
    BY <2>1, Places, Zenon
  <2> HIDE DEF p, q
  <2> QED
    BY <1>5, <2>2, <2>3, <2>4 DEF t
<1>6. CASE Len(s) = 3
  <2>1. t[2] = s[2] /\ t[3] = s[3] /\ t[4] = byte /\ s[2] \in Byte /\ s[3] \in Byte
    BY <1>1, <1>6
  <2> DEFINE p == s[2] * (ByteBase * ByteBase)
             q == s[3] * ByteBase
  <2>2. AddressOf(t) = p + q + byte /\ AddressOf(s) = p + q + 0
    BY <1>1, <1>6, <2>1 DEF AddressOf
  <2>3. Shifted(byte, Len(s)) = byte /\ byte \in Nat
    BY <1>6, Places, Zenon
  <2>4. p \in Nat /\ q \in Nat
    BY <2>1, Places, Zenon
  <2> HIDE DEF p, q
  <2> QED
    BY <1>6, <2>2, <2>3, <2>4 DEF t
<1>7. CASE Len(s) >= 4
  <2>1. t[2] = s[2] /\ t[3] = s[3] /\ t[4] = s[4]
    BY <1>1, <1>2, <1>7
  <2>2. /\ Len(s) >= 2 /\ Len(s) >= 3 /\ Len(s) >= 4
        /\ Len(t) >= 2 /\ Len(t) >= 3 /\ Len(t) >= 4
        /\ Len(s) # 0 /\ Len(s) \notin 1..3
    BY <1>1, <1>2, <1>7
  <2>3. AddressOf(t) = AddressOf(s)
    BY <2>1, <2>2, Zenon DEF AddressOf
  <2> QED
    BY <2>2, <2>3, Zenon DEF t
<1> QED
  BY <1>2, <1>3, <1>4, <1>5, <1>6, <1>7

-----------------------------------------------------------------------------
(* One operation of the chip.                                              *)

LEMMA ChangedDataType ==
    ASSUME NEW m \in [0..MemSize-1 -> Byte], NEW c \in Nat, NEW byte \in Byte
    PROVE  [m EXCEPT ![c] = byte] \in [0..MemSize-1 -> Byte]
  OBVIOUS

LEMMA ExchangeDataType ==
    ASSUME NEW f \in ChipState
    PROVE  exchange_data(f) \in Byte
<1>1. /\ f.cmd_offset \in Nat /\ f.addr \in Nat
      /\ f.data \in [0..MemSize-1 -> Byte]
  BY DEF ChipState
<1>2. ASSUME f.cmd_offset >= 4, Cell(f) < MemSize
      PROVE  f.data[Cell(f)] \in Byte
  <2>1. Cell(f) \in 0..MemSize-1
    BY <1>1, <1>2, BaseFacts DEF Cell
  <2> QED
    BY <1>1, <2>1
<1> QED
  BY <1>2, BaseFacts DEF exchange_data

LEMMA ChipUpdates ==
    ASSUME NEW f \in ChipState, NEW n \in Nat, NEW a \in Nat,
           NEW m \in [0..MemSize-1 -> Byte]
    PROVE  /\ [f EXCEPT !.cmd_offset = n] \in ChipState
           /\ [f EXCEPT !.addr = a, !.cmd_offset = n] \in ChipState
           /\ [f EXCEPT !.data = m, !.cmd_offset = n] \in ChipState
<1> DEFINE D == [0..MemSize-1 -> Byte]
<1>1. m \in D /\ f \in [ cmd_offset : Nat, cmd : Byte, addr : Nat, data : D ]
  BY DEF ChipState
<1>2. ChipState = [ cmd_offset : Nat, cmd : Byte, addr : Nat, data : D ]
  BY DEF ChipState
<1> HIDE DEF D
<1>3. [f EXCEPT !.cmd_offset = n] \in ChipState
  BY <1>1, <1>2
<1>4. [f EXCEPT !.addr = a, !.cmd_offset = n] \in ChipState
  BY <1>1, <1>2
<1>5. [f EXCEPT !.data = m, !.cmd_offset = n] \in ChipState
  BY <1>1, <1>2
<1> QED
  BY <1>3, <1>4, <1>5

LEMMA ExchangeBytesType ==
    ASSUME NEW f \in ChipState, NEW byte \in Byte
    PROVE  exchange_bytes(f, byte) \in ChipState
<1>1. /\ f.cmd_offset \in Nat /\ f.addr \in Nat /\ f.cmd \in Byte
      /\ f.data \in [0..MemSize-1 -> Byte]
  BY DEF ChipState
<1>2. f.cmd_offset + 1 \in Nat
  BY <1>1
<1>3. CASE f.cmd_offset = 0
  BY <1>1, <1>3 DEF exchange_bytes, ChipState
<1>4. CASE f.cmd_offset \in 1..3
  <2> DEFINE a == f.addr + Shifted(byte, f.cmd_offset)
  <2>1. a \in Nat
    BY <1>1, <1>4, ShiftedIsNat
  <2>2. exchange_bytes(f, byte) = [f EXCEPT !.addr = a, !.cmd_offset = f.cmd_offset + 1]
    <3>1. f.cmd_offset # 0 /\ f.cmd_offset < 4
      BY <1>4
    <3> QED
      BY <3>1, Zenon DEF exchange_bytes
  <2> HIDE DEF a
  <2>3. [f EXCEPT !.addr = a, !.cmd_offset = f.cmd_offset + 1] \in ChipState
    BY <1>1, <1>2, <2>1, ChipUpdates
  <2> QED
    BY <2>2, <2>3
<1>5. CASE f.cmd_offset >= 4
  <2> DEFINE m == [f.data EXCEPT ![Cell(f)] = byte]
  <2>1. m \in [0..MemSize-1 -> Byte]
    BY <1>1
  <2>2. \/ exchange_bytes(f, byte) = [f EXCEPT !.data = m, !.cmd_offset = f.cmd_offset + 1]
        \/ exchange_bytes(f, byte) = [f EXCEPT !.cmd_offset = f.cmd_offset + 1]
    <3>1. f.cmd_offset # 0 /\ ~(f.cmd_offset < 4)
      BY <1>1, <1>5
    <3> QED
      BY <3>1, Zenon DEF exchange_bytes
  <2> HIDE DEF m
  <2>3. /\ [f EXCEPT !.data = m, !.cmd_offset = f.cmd_offset + 1] \in ChipState
        /\ [f EXCEPT !.cmd_offset = f.cmd_offset + 1] \in ChipState
    BY <1>1, <1>2, <2>1, ChipUpdates
  <2> QED
    BY <2>2, <2>3
<1> QED
  BY <1>1, <1>3, <1>4, <1>5

LEMMA EdgeType ==
    ASSUME NEW f \in ChipState
    PROVE  on_cs_fall(f) \in ChipState /\ on_cs_rise(f) \in ChipState
<1>1. f.data \in [0..MemSize-1 -> Byte]
  BY DEF ChipState
<1>2. erase_page(f) \in [0..MemSize-1 -> Byte]
  <2>1. [c \in 0..MemSize-1 |-> IF c < SectorSize THEN Erased ELSE f.data[c]]
           \in [0..MemSize-1 -> Byte]
    BY <1>1, BaseFacts
  <2> QED
    BY <1>1, <2>1, Zenon DEF erase_page
<1>3. on_cs_fall(f) \in ChipState
  BY BaseFacts DEF on_cs_fall, ChipState
<1>4. on_cs_rise(f) \in ChipState
  BY <1>1, <1>2, BaseFacts DEF on_cs_rise, ChipState
<1> QED
  BY <1>3, <1>4

\* The chip's position, command and address are those of the bytes sent.
Decodes(f, s) ==
    /\ f.cmd_offset = Len(s)
    /\ f.cmd = IF s = <<>> THEN 0 ELSE s[1]
    /\ f.addr = AddressOf(s)

LEMMA EdgeDecodes ==
    ASSUME NEW f \in ChipState
    PROVE  Decodes(on_cs_fall(f), <<>>) /\ Decodes(on_cs_rise(f), <<>>)
  BY AddressOfEmpty DEF Decodes, on_cs_fall, on_cs_rise, ChipState

LEMMA ExchangeDecodes ==
    ASSUME NEW f \in ChipState, NEW s \in Seq(Byte), NEW byte \in Byte, Decodes(f, s)
    PROVE  Decodes(exchange_bytes(f, byte), Append(s, byte))
<1> DEFINE t == Append(s, byte)
           g == exchange_bytes(f, byte)
<1>1. /\ t \in Seq(Byte) /\ Len(t) = Len(s) + 1 /\ t # <<>>
      /\ \A i \in 1..Len(s) : t[i] = s[i]
      /\ t[Len(s) + 1] = byte
  BY AppendProperties
<1>2. Len(s) \in Nat /\ (s = <<>> <=> Len(s) = 0)
  BY EmptySeq
<1>3. /\ Len(s) = 0 => AddressOf(t) = 0
      /\ Len(s) \in 1..3 => AddressOf(t) = AddressOf(s) + Shifted(byte, Len(s))
      /\ Len(s) >= 4 => AddressOf(t) = AddressOf(s)
  BY AddressOfAppend
<1> HIDE DEF t
<1>4. CASE Len(s) = 0
  <2>1. g.cmd_offset = 1 /\ g.cmd = byte /\ g.addr = 0
    BY <1>4 DEF exchange_bytes, ChipState, Decodes
  <2> HIDE DEF g
  <2>2. t[1] = byte
    BY <1>1, <1>4
  <2>3. Decodes(g, t)
    BY <1>1, <1>3, <1>4, <2>1, <2>2 DEF Decodes
  <2> QED
    BY <2>3 DEF g, t
<1>5. CASE Len(s) # 0
  <2>1. t[1] = s[1] /\ s # <<>>
    BY <1>1, <1>2, <1>5
  <2>2. /\ g.cmd = f.cmd /\ g.cmd_offset = Len(s) + 1
        /\ g.addr = IF Len(s) < 4 THEN f.addr + Shifted(byte, Len(s)) ELSE f.addr
    BY <1>2, <1>5 DEF exchange_bytes, ChipState, Decodes
  <2> HIDE DEF g
  <2>3. g.addr = AddressOf(t)
    <3>1. CASE Len(s) < 4
      <4>1. \A n \in Nat : n # 0 /\ n < 4 => n \in 1..3
        OBVIOUS
      <4>2. Len(s) \in 1..3
        BY <1>2, <1>5, <3>1, <4>1, Zenon
      <4> QED
        BY <1>3, <2>2, <3>1, <4>2, Zenon DEF Decodes
    <3>2. CASE Len(s) >= 4
      BY <1>2, <1>3, <1>5, <2>2, <3>2 DEF Decodes
    <3> QED
      BY <1>2, <3>1, <3>2
  <2>4. Decodes(g, t)
    BY <1>1, <2>1, <2>2, <2>3 DEF Decodes
  <2> QED
    BY <2>4 DEF g, t
<1> QED
  BY <1>4, <1>5

\* The chip answers a byte as the bytes sent ask for.
LEMMA ExchangeAnswers ==
    ASSUME NEW f \in ChipState, NEW s \in Seq(Byte), NEW byte \in Byte, Decodes(f, s)
    PROVE  exchange_data(f) = Answer(Append(s, byte), f.data, Len(s) + 1)
<1> DEFINE t == Append(s, byte)
<1>1. Len(s) \in Nat /\ AddressOf(s) \in Nat
  BY AddressOfIsNat
<1>2. CASE Len(s) >= 4
  <2>1. t[1] = s[1] /\ s # <<>>
    BY <1>1, <1>2, AppendProperties
  <2>2. AddressOf(t) = AddressOf(s)
    BY <1>2, AddressOfAppend
  <2> HIDE DEF t
  <2>3. f.cmd = s[1] /\ f.cmd_offset = Len(s) /\ f.addr = AddressOf(s)
    BY <2>1 DEF Decodes
  <2>4. Cell(f) = AddressOf(t) + ((Len(s) + 1) - 5)
    BY <1>1, <1>2, <2>2, <2>3 DEF Cell
  <2>5. Len(s) + 1 >= 5
    BY <1>1, <1>2
  <2>6. exchange_data(f) = Answer(t, f.data, Len(s) + 1)
    BY <1>2, <2>1, <2>3, <2>4, <2>5, Zenon DEF exchange_data, Answer
  <2> QED
    BY <2>6 DEF t
<1>3. CASE Len(s) < 4
  <2>1. ~(Len(s) + 1 >= 5) /\ ~(f.cmd_offset >= 4)
    BY <1>1, <1>3 DEF Decodes
  <2> QED
    BY <2>1, Zenon DEF exchange_data, Answer
<1> QED
  BY <1>1, <1>2, <1>3

\* Only a program command's data bytes change the memory.
LEMMA ExchangeChanges ==
    ASSUME NEW f \in ChipState, NEW s \in Seq(Byte), NEW byte \in Byte, Decodes(f, s),
           exchange_bytes(f, byte).data # f.data
    PROVE  /\ Len(s) >= 4 /\ s[1] = Code["PROGRAM_PAGE"]
           /\ exchange_bytes(f, byte).data
                = [f.data EXCEPT ![AddressOf(s) + (Len(s) - 4)] = byte]
<1> DEFINE m == [f.data EXCEPT ![Cell(f)] = byte]
<1>1. Len(s) \in Nat /\ f.cmd_offset = Len(s)
  BY DEF Decodes
<1>2. f.cmd_offset # 0 /\ ~(f.cmd_offset < 4) /\ f.cmd = Code["PROGRAM_PAGE"]
  BY DEF exchange_bytes, ChipState
<1>3. exchange_bytes(f, byte) = [f EXCEPT !.data = m, !.cmd_offset = f.cmd_offset + 1]
  <2>1. Cell(f) < MemSize
    <3>1. SUFFICES ASSUME ~(Cell(f) < MemSize)
                   PROVE  FALSE
      BY Zenon
    <3>2. exchange_bytes(f, byte) = [f EXCEPT !.cmd_offset = f.cmd_offset + 1]
      BY <1>2, <3>1, Zenon DEF exchange_bytes
    <3> QED
      BY <3>2 DEF ChipState
  <2> QED
    BY <1>2, <2>1, Zenon DEF exchange_bytes
<1>4. exchange_bytes(f, byte).data = m
  <2> HIDE DEF m
  <2> QED
    BY <1>3 DEF ChipState
<1>5. Len(s) >= 4 /\ s # <<>>
  BY <1>1, <1>2
<1>6. f.cmd = s[1] /\ Cell(f) = AddressOf(s) + (Len(s) - 4)
  BY <1>5 DEF Decodes, Cell
<1> QED
  BY <1>2, <1>4, <1>5, <1>6

\* What was answered stays the right answer when another byte is sent.
LEMMA AnswersStand ==
    ASSUME NEW f \in ChipState, NEW s \in Seq(Byte), NEW byte \in Byte, Decodes(f, s),
           NEW k \in 1..Len(s)
    PROVE  Answer(Append(s, byte), exchange_bytes(f, byte).data, k) = Answer(s, f.data, k)
<1> DEFINE t == Append(s, byte)
           m == exchange_bytes(f, byte).data
<1>1. t[1] = s[1]
  BY AppendProperties
<1>2. k >= 5 => AddressOf(t) = AddressOf(s)
  BY AddressOfAppend
<1>3. s[1] = Code["READ_DATA_SLOW"] => m = f.data
  BY ExchangeChanges, BaseFacts
<1> HIDE DEF t, m
<1>4. Answer(t, m, k) = Answer(s, f.data, k)
  BY <1>1, <1>2, <1>3, Zenon DEF Answer
<1> QED
  BY <1>4 DEF t, m

LEMMA AnswerOfByteSent ==
    ASSUME NEW f \in ChipState, NEW s \in Seq(Byte), NEW byte \in Byte, Decodes(f, s)
    PROVE  Answer(Append(s, byte), exchange_bytes(f, byte).data, Len(s) + 1) = exchange_data(f)
<1> DEFINE t == Append(s, byte)
           m == exchange_bytes(f, byte).data
<1>1. exchange_data(f) = Answer(t, f.data, Len(s) + 1)
  BY ExchangeAnswers
<1>2. Len(s) + 1 >= 5 => t[1] = s[1]
  BY AppendProperties
<1>3. s[1] = Code["READ_DATA_SLOW"] => m = f.data
  BY ExchangeChanges, BaseFacts
<1> HIDE DEF t, m
<1>4. Answer(t, m, Len(s) + 1) = Answer(t, f.data, Len(s) + 1)
  BY <1>2, <1>3, Zenon DEF Answer
<1> QED
  BY <1>1, <1>4 DEF t, m

-----------------------------------------------------------------------------
(* The receive buffer c holds the answers to the bytes of s after the first r. *)

Accounts(c, s, m, r) ==
    /\ Len(s) = r + Len(c)
    /\ \A i \in 1..Len(c) : c[i] = Answer(s, m, r + i)

LEMMA AccountsAppend ==
    ASSUME NEW f \in ChipState, NEW s \in Seq(Byte), NEW byte \in Byte, Decodes(f, s),
           NEW c \in Seq(Byte), NEW r \in Nat, Accounts(c, s, f.data, r)
    PROVE  Accounts(Append(c, exchange_data(f)), Append(s, byte),
                    exchange_bytes(f, byte).data, r)
<1> DEFINE e == exchange_data(f)
           t == Append(s, byte)
           d == Append(c, e)
           m == exchange_bytes(f, byte).data
<1>1. e \in Byte
  BY ExchangeDataType
<1>2. \A k \in 1..Len(s) : Answer(t, m, k) = Answer(s, f.data, k)
  BY AnswersStand
<1>3. Answer(t, m, Len(s) + 1) = e
  BY AnswerOfByteSent
<1> HIDE DEF e, m
<1>4. /\ Len(d) = Len(c) + 1 /\ d[Len(c) + 1] = e
      /\ \A i \in 1..Len(c) : d[i] = c[i]
      /\ Len(t) = Len(s) + 1
  BY <1>1, AppendProperties
<1> HIDE DEF d, t
<1>5. Len(s) \in Nat /\ Len(c) \in Nat /\ Len(s) = r + Len(c)
  BY DEF Accounts
<1>6. ASSUME NEW i \in 1..Len(d)
      PROVE  d[i] = Answer(t, m, r + i)
  <2>1. CASE i = Len(c) + 1
    <3>1. r + i = Len(s) + 1
      BY <1>5, <2>1
    <3> QED
      BY <1>3, <1>4, <2>1, <3>1
  <2>2. CASE i # Len(c) + 1
    <3>1. i \in 1..Len(c) /\ r + i \in 1..Len(s)
      BY <1>4, <1>5, <2>2
    <3> QED
      BY <1>2, <1>4, <3>1 DEF Accounts
  <2> QED
    BY <2>1, <2>2
<1>7. Accounts(d, t, m, r)
  BY <1>4, <1>5, <1>6 DEF Accounts
<1> QED
  BY <1>7 DEF d, e, t, m

LEMMA AccountsTail ==
    ASSUME NEW s, NEW m, NEW c \in Seq(Byte), c # <<>>, NEW r \in Nat, Accounts(c, s, m, r)
    PROVE  /\ Head(c) = Answer(s, m, r + 1)
           /\ Accounts(Tail(c), s, m, r + 1)
<1>1. /\ Len(c) \in Nat \ {0} /\ Head(c) = c[1]
      /\ Tail(c) \in Seq(Byte) /\ Len(Tail(c)) = Len(c) - 1
      /\ \A i \in 1..Len(c)-1 : Tail(c)[i] = c[i + 1]
  BY HeadTailProperties, EmptySeq
<1>2. 1 \in 1..Len(c)
  BY <1>1
<1>3. Head(c) = Answer(s, m, r + 1)
  BY <1>1, <1>2 DEF Accounts
<1>4. ASSUME NEW i \in 1..Len(Tail(c))
      PROVE  Tail(c)[i] = Answer(s, m, (r + 1) + i)
  <2>1. i \in 1..Len(c)-1 /\ i + 1 \in 1..Len(c) /\ r + (i + 1) = (r + 1) + i
    BY <1>1
  <2> QED
    BY <1>1, <2>1 DEF Accounts
<1>5. Len(s) = (r + 1) + Len(Tail(c))
  BY <1>1 DEF Accounts
<1> QED
  BY <1>3, <1>4, <1>5 DEF Accounts

-----------------------------------------------------------------------------
(* The inductive invariant.                                                *)

\* From the first edge on the chip has decoded exactly the bytes sent since the
\* last one, and the receive buffer holds exactly the answers not yet read.
IInv ==
    /\ SpiTypeOK
    /\ driver.known => Decodes(flash, driver.sent)
    /\ driver.phase = "idle" => empty
    /\ driver.phase = "busy" => Accounts(Contents, driver.sent, flash.data, driver.read)

LEMMA ContentsIsSequence ==
    ASSUME TypeOK
    PROVE  Contents \in Seq(Byte) /\ Len(Contents) = stored
<1>1. data \in [0..Size-1 -> Elem] /\ head \in 0..Size-1 /\ stored \in 0..Size
  BY DEF TypeOK
<1>2. Contents = Held(data, head, stored)
  BY DEF Contents, Held
<1> QED
  BY <1>1, <1>2, HeldIsSequence, BaseFacts

LEMMA InitIInv == SpiInit => IInv
<1> SUFFICES ASSUME SpiInit
             PROVE  IInv
  OBVIOUS
<1>1. TypeOK
  BY TypeOKInit DEF SpiInit
<1>2. flash \in ChipState
  BY BaseFacts DEF SpiInit, ChipState
<1>3. driver = [ phase |-> "boot", sent |-> <<>>, read |-> 0, known |-> FALSE ]
  BY DEF SpiInit
<1>4. pin_mask \subseteq Pin
  BY DEF SpiInit
<1>5. SpiTypeOK
  BY <1>1, <1>2, <1>3, <1>4 DEF SpiTypeOK, Phase
<1> QED
  BY <1>3, <1>5 DEF IInv

LEMMA TypeFacts ==
    ASSUME SpiTypeOK
    PROVE  /\ TypeOK
           /\ flash \in ChipState
           /\ pin_mask \subseteq Pin
           /\ driver \in [ phase : Phase, sent : Seq(Byte), read : Nat, known : BOOLEAN ]
           /\ driver.sent \in Seq(Byte) /\ driver.read \in Nat
  BY DEF SpiTypeOK

\* A write to the port: the chip sees an edge of its pin, or nothing.
LEMMA PortWrite ==
    ASSUME SpiTypeOK, NEW mask \in SUBSET Pin, set_pin_mask(mask)
    PROVE  /\ pin_mask' = mask
           /\ flash' \in ChipState
           /\ (CsPin \in pin_mask) # (CsPin \in mask) => Decodes(flash', <<>>)
           /\ (CsPin \in pin_mask) = (CsPin \in mask) => flash' = flash
<1>1. flash \in ChipState
  BY TypeFacts
<1>2. \/ flash' = flash /\ (CsPin \in pin_mask) = (CsPin \in mask)
      \/ (flash' = on_cs_rise(flash) \/ flash' = on_cs_fall(flash))
         /\ (CsPin \in pin_mask) # (CsPin \in mask)
  BY DEF set_pin_mask, PinChanges
<1>3. /\ on_cs_fall(flash) \in ChipState /\ on_cs_rise(flash) \in ChipState
      /\ Decodes(on_cs_fall(flash), <<>>) /\ Decodes(on_cs_rise(flash), <<>>)
  BY <1>1, EdgeType, EdgeDecodes
<1> QED
  BY <1>1, <1>2, <1>3, Zenon DEF set_pin_mask

\* An edge: the observer starts a new account.
LEMMA EdgeStep ==
    ASSUME IInv, NEW phase \in {"drain", "busy"}, AtEdge(phase),
           TypeOK', flash' \in ChipState, pin_mask' \subseteq Pin, Decodes(flash', <<>>),
           phase = "drain" => CsPin \in pin_mask',
           phase = "busy" => CsPin \notin pin_mask' /\ stored' = 0
    PROVE  IInv'
<1>1. driver' = [ phase |-> phase, sent |-> <<>>, read |-> 0, known |-> TRUE ]
  BY DEF AtEdge
<1>2. driver' \in [ phase : Phase, sent : Seq(Byte), read : Nat, known : BOOLEAN ]
  BY <1>1 DEF Phase
<1>3. SpiTypeOK'
  BY <1>1, <1>2 DEF SpiTypeOK
<1>4. (driver.known => Decodes(flash, driver.sent))'
  BY <1>1 DEF Decodes
<1>5. (driver.phase = "busy" => Accounts(Contents, driver.sent, flash.data, driver.read))'
  <2>1. SUFFICES ASSUME phase = "busy"
                 PROVE  Accounts(Contents', <<>>, flash'.data, 0)
    BY <1>1 DEF Accounts
  <2>2. Len(Contents') = stored'
    <3>1. data' \in [0..Size-1 -> Elem] /\ head' \in 0..Size-1 /\ stored' \in 0..Size
      BY DEF TypeOK
    <3>2. Contents' = Held(data', head', stored')
      BY DEF Contents, Held
    <3> QED
      BY <3>1, <3>2, HeldIsSequence
  <2> QED
    BY <2>1, <2>2 DEF Accounts
<1>6. (driver.phase = "idle" => empty)'
  BY <1>1
<1> QED
  BY <1>3, <1>4, <1>5, <1>6 DEF IInv

\* A step that leaves the port, the chip and the account alone.
LEMMA QuietStep ==
    ASSUME IInv, UNCHANGED <<flash, pin_mask>>, TypeOK',
           driver'.sent = driver.sent, driver'.known = driver.known,
           driver' \in [ phase : Phase, sent : Seq(Byte), read : Nat, known : BOOLEAN ],
           driver'.phase \in {"drain", "idle"} => CsPin \in pin_mask,
           driver'.phase = "idle" => stored' = 0,
           driver'.phase # "busy"
    PROVE  IInv'
<1>1. SpiTypeOK'
  BY TypeFacts DEF IInv, SpiTypeOK
<1>2. (driver.known => Decodes(flash, driver.sent))'
  BY Zenon DEF IInv, Decodes
<1> QED
  BY <1>1, <1>2 DEF IInv, empty

\* A byte is exchanged while the chip is selected.
LEMMA ExchangeStep ==
    ASSUME IInv, driver.phase = "busy", NEW byte \in Byte, WriteDR(byte),
           driver'.sent = Append(driver.sent, byte),
           \/ ~full /\ driver' = [driver EXCEPT !.sent = Append(driver.sent, byte)]
           \/ full /\ driver' = [driver EXCEPT !.sent = Append(driver.sent, byte),
                                              !.read = driver.read + 1]
    PROVE  IInv'
<1> DEFINE e == exchange_data(flash)
           s == driver.sent
           t == Append(s, byte)
           m == exchange_bytes(flash, byte).data
           r == driver.read
<1>1. /\ TypeOK /\ flash \in ChipState /\ s \in Seq(Byte) /\ r \in Nat
      /\ pin_mask \subseteq Pin /\ CsPin \notin pin_mask /\ driver.known
      /\ Decodes(flash, s) /\ Accounts(Contents, s, flash.data, r)
      /\ driver \in [ phase : Phase, sent : Seq(Byte), read : Nat, known : BOOLEAN ]
  BY TypeFacts DEF IInv, SpiTypeOK
<1>2. e \in Byte /\ e \in Elem /\ Push(e)
  BY <1>1, ExchangeDataType, BaseFacts DEF WriteDR
<1>3. TypeOK' /\ Queue!Push(e)
  BY <1>1, <1>2, PushType, PushIsPush
<1>4. flash' = exchange_bytes(flash, byte) /\ flash' \in ChipState /\ pin_mask' = pin_mask
  BY <1>1, ExchangeBytesType DEF WriteDR
<1>5. t \in Seq(Byte)
  BY <1>1
<1>6. Decodes(flash', t)
  BY <1>1, <1>4, ExchangeDecodes
<1>7. Contents \in Seq(Byte) /\ Len(Contents) = stored
  BY <1>1, ContentsIsSequence
<1>8. Size \in Nat \ {0} /\ stored \in 0..Size
  BY <1>1, FIFOAssumption DEF TypeOK
<1> HIDE DEF e, t, m
<1>9. Accounts(Contents', t, flash'.data, driver'.read)
  <2>1. CASE ~full
    <3>1. Contents' = Append(Contents, e)
      BY <1>3, <1>7, <1>8, <2>1 DEF Queue!Push, full
    <3>2. Accounts(Append(Contents, e), t, m, r)
      BY <1>1, <1>7, AccountsAppend DEF e, t, m
    <3>3. driver'.read = r /\ flash'.data = m
      BY <1>1, <1>4, <2>1 DEF m
    <3> QED
      BY <3>1, <3>2, <3>3
  <2>2. CASE full
    <3>1. Contents' = Append(Tail(Contents), e)
      BY <1>3, <1>7, <1>8, <2>2 DEF Queue!Push, full
    <3>2. Contents # <<>> /\ Tail(Contents) \in Seq(Byte)
      BY <1>7, <1>8, <2>2, HeadTailProperties, EmptySeq DEF full
    <3>3. Accounts(Tail(Contents), s, flash.data, r + 1)
      BY <1>1, <1>7, <3>2, AccountsTail
    <3>4. r + 1 \in Nat
      BY <1>1
    <3>5. Accounts(Append(Tail(Contents), e), t, m, r + 1)
      BY <1>1, <3>2, <3>3, <3>4, AccountsAppend DEF e, t, m
    <3>6. driver'.read = r + 1 /\ flash'.data = m
      BY <1>1, <1>4, <2>2 DEF m
    <3> QED
      BY <3>1, <3>5, <3>6
  <2> QED
    BY <2>1, <2>2
<1>10. /\ driver'.sent = t /\ driver'.phase = "busy" /\ driver'.known
       /\ driver' \in [ phase : Phase, sent : Seq(Byte), read : Nat, known : BOOLEAN ]
  <2>1. r + 1 \in Nat
    BY <1>1
  <2>2. \/ driver' = [driver EXCEPT !.sent = t]
        \/ driver' = [driver EXCEPT !.sent = t, !.read = r + 1]
    BY DEF t
  <2> QED
    BY <1>1, <1>5, <2>1, <2>2
<1>11. SpiTypeOK'
  BY <1>1, <1>3, <1>4, <1>10 DEF SpiTypeOK
<1> QED
  BY <1>6, <1>9, <1>10, <1>11 DEF IInv

\* The firmware reads while the chip is selected.
LEMMA ReceiveStep ==
    ASSUME IInv, Receive
    PROVE  /\ IInv'
           /\ popped' = Answer(driver.sent, flash.data, driver.read + 1)
<1> DEFINE s == driver.sent
           r == driver.read
<1>1. /\ TypeOK /\ flash \in ChipState /\ s \in Seq(Byte) /\ r \in Nat
      /\ pin_mask \subseteq Pin /\ CsPin \notin pin_mask /\ driver.known
      /\ Decodes(flash, s) /\ Accounts(Contents, s, flash.data, r)
      /\ driver \in [ phase : Phase, sent : Seq(Byte), read : Nat, known : BOOLEAN ]
  BY TypeFacts DEF IInv, SpiTypeOK, Receive
<1>2. Pop /\ ~empty /\ UNCHANGED <<flash, pin_mask>> /\ driver' = [driver EXCEPT !.read = r + 1]
  BY DEF Receive, ReadDR, get_status_flags
<1>3. TypeOK' /\ Queue!Pop
  BY <1>1, <1>2, PopType, PopIsPop
<1>4. Contents \in Seq(Byte) /\ Len(Contents) = stored
  BY <1>1, ContentsIsSequence
<1>5. Contents # <<>>
  BY <1>1, <1>2, <1>4, EmptySeq DEF empty, TypeOK
<1>6. popped' = Head(Contents) /\ Contents' = Tail(Contents)
  BY <1>3, <1>5 DEF Queue!Pop
<1>7. Head(Contents) = Answer(s, flash.data, r + 1) /\ Accounts(Tail(Contents), s, flash.data, r + 1)
  BY <1>1, <1>4, <1>5, AccountsTail
<1>8. /\ driver'.sent = s /\ driver'.phase = "busy" /\ driver'.known /\ driver'.read = r + 1
      /\ driver' \in [ phase : Phase, sent : Seq(Byte), read : Nat, known : BOOLEAN ]
  BY <1>1, <1>2 DEF Receive
<1>9. SpiTypeOK'
  BY <1>1, <1>2, <1>3, <1>8 DEF SpiTypeOK
<1>10. Decodes(flash', driver'.sent)
  BY <1>1, <1>2, <1>8
<1>11. Accounts(Contents', driver'.sent, flash'.data, driver'.read)
  BY <1>2, <1>6, <1>7, <1>8
<1> QED
  BY <1>6, <1>7, <1>8, <1>9, <1>10, <1>11 DEF IInv

\* Raising the select pin, from a firmware that has just been (re)started or at the
\* end of a command.
LEMMA RaiseStep ==
    ASSUME IInv, WriteSETTX({CsPin}), UNCHANGED fifoVars,
           \/ /\ CsPin \in pin_mask
              /\ driver' = [driver EXCEPT !.phase = "drain"]
           \/ CsPin \notin pin_mask /\ AtEdge("drain")
    PROVE  IInv'
<1> DEFINE mask == pin_mask \cup {CsPin}
<1>1. SpiTypeOK /\ TypeOK /\ mask \in SUBSET Pin /\ set_pin_mask(mask)
  BY TypeFacts, BaseFacts DEF IInv, WriteSETTX
<1>2. /\ pin_mask' = mask /\ flash' \in ChipState
      /\ CsPin \notin pin_mask => Decodes(flash', <<>>)
      /\ CsPin \in pin_mask => flash' = flash
  BY <1>1, PortWrite
<1>3. TypeOK'
  BY <1>1 DEF TypeOK, fifoVars
<1>4. CASE CsPin \in pin_mask
  <2>1. /\ driver \in [ phase : Phase, sent : Seq(Byte), read : Nat, known : BOOLEAN ]
        /\ driver' = [driver EXCEPT !.phase = "drain"]
    BY <1>1, <1>4, TypeFacts DEF AtEdge
  <2>2. /\ driver' \in [ phase : Phase, sent : Seq(Byte), read : Nat, known : BOOLEAN ]
        /\ driver'.sent = driver.sent /\ driver'.known = driver.known
        /\ driver'.phase = "drain"
    BY <2>1 DEF Phase
  <2>3. pin_mask' = pin_mask
    BY <1>2, <1>4
  <2> QED
    BY <1>2, <1>3, <1>4, <2>2, <2>3, QuietStep
<1>5. CASE CsPin \notin pin_mask
  <2>1. AtEdge("drain") /\ Decodes(flash', <<>>) /\ pin_mask' \subseteq Pin /\ CsPin \in pin_mask'
    BY <1>1, <1>2, <1>5
  <2> QED
    BY <1>2, <1>3, <2>1, EdgeStep
<1> QED
  BY <1>4, <1>5

LEMMA SelectStep ==
    ASSUME IInv, Select
    PROVE  IInv'
<1> DEFINE mask == pin_mask \ {CsPin}
<1>1. /\ SpiTypeOK /\ TypeOK /\ mask \in SUBSET Pin /\ set_pin_mask(mask)
      /\ CsPin \in pin_mask /\ stored = 0
  BY TypeFacts DEF IInv, SpiTypeOK, Select, WriteCLRTX, empty
<1>2. pin_mask' = mask /\ flash' \in ChipState /\ Decodes(flash', <<>>)
  BY <1>1, PortWrite
<1>3. TypeOK' /\ stored' = 0 /\ AtEdge("busy")
  BY <1>1 DEF TypeOK, fifoVars, Select
<1> QED
  BY <1>1, <1>2, <1>3, EdgeStep

\* A write of another pin is no edge of the select pin.
LEMMA OtherPinStep ==
    ASSUME IInv, NEW pin \in Pin, OtherPin(pin)
    PROVE  IInv' /\ flash' = flash
<1> DEFINE mask == IF pin \in pin_mask THEN pin_mask \ {pin} ELSE pin_mask \cup {pin}
<1>1. /\ SpiTypeOK /\ TypeOK /\ mask \in SUBSET Pin /\ set_pin_mask(mask)
      /\ (CsPin \in pin_mask) = (CsPin \in mask)
  BY TypeFacts DEF IInv, OtherPin, WriteRXTX
<1>2. pin_mask' = mask /\ flash' = flash
  BY <1>1, PortWrite
<1>3. UNCHANGED fifoVars /\ UNCHANGED driver
  BY DEF OtherPin
<1>4. SpiTypeOK'
  BY <1>1, <1>2, <1>3 DEF SpiTypeOK, TypeOK, fifoVars
<1> QED
  BY <1>2, <1>3, <1>4 DEF IInv, Decodes, Accounts, Contents, empty, fifoVars

\* What is left in the receive buffer is read and thrown away.
LEMMA DrainStep ==
    ASSUME IInv, Drain
    PROVE  IInv'
<1>1. /\ TypeOK /\ Pop /\ UNCHANGED <<flash, pin_mask, driver>> /\ driver.phase = "drain"
      /\ driver \in [ phase : Phase, sent : Seq(Byte), read : Nat, known : BOOLEAN ]
      /\ CsPin \in pin_mask
  BY TypeFacts DEF IInv, SpiTypeOK, Drain, ReadDR
<1>2. TypeOK'
  BY <1>1, PopType
<1> QED
  BY <1>1, <1>2, QuietStep

LEMMA DrainedStep ==
    ASSUME IInv, Drained
    PROVE  IInv'
<1>1. /\ TypeOK /\ UNCHANGED <<flash, pin_mask>> /\ UNCHANGED fifoVars /\ driver.phase = "drain"
      /\ driver \in [ phase : Phase, sent : Seq(Byte), read : Nat, known : BOOLEAN ]
      /\ CsPin \in pin_mask /\ stored = 0
      /\ driver' = [driver EXCEPT !.phase = "idle"]
  BY TypeFacts DEF IInv, SpiTypeOK, Drained, get_status_flags, empty
<1>2. TypeOK' /\ stored' = 0
  BY <1>1 DEF TypeOK, fifoVars
<1>3. /\ driver' \in [ phase : Phase, sent : Seq(Byte), read : Nat, known : BOOLEAN ]
      /\ driver'.sent = driver.sent /\ driver'.known = driver.known /\ driver'.phase = "idle"
  BY <1>1 DEF Phase
<1> QED
  BY <1>1, <1>2, <1>3, QuietStep

LEMMA RestartStep ==
    ASSUME IInv, Restart
    PROVE  IInv'
<1>1. /\ TypeOK /\ UNCHANGED <<flash, pin_mask>> /\ UNCHANGED fifoVars
      /\ driver \in [ phase : Phase, sent : Seq(Byte), read : Nat, known : BOOLEAN ]
      /\ driver' = [driver EXCEPT !.phase = "boot"]
  BY TypeFacts DEF IInv, SpiTypeOK, Restart
<1>2. TypeOK'
  BY <1>1 DEF TypeOK, fifoVars
<1>3. /\ driver' \in [ phase : Phase, sent : Seq(Byte), read : Nat, known : BOOLEAN ]
      /\ driver'.sent = driver.sent /\ driver'.known = driver.known /\ driver'.phase = "boot"
  BY <1>1 DEF Phase
<1> QED
  BY <1>1, <1>2, <1>3, QuietStep

LEMMA SendNextStep ==
    ASSUME IInv, SendNext
    PROVE  IInv'
<1>1. PICK byte \in Stream[Len(driver.sent) + 1] : Send(byte) \/ SendBlindly(byte)
  BY DEF SendNext
<1>2. byte \in Byte
  <2>1. Len(driver.sent) + 1 \in 1..Len(Stream)
    BY TypeFacts, SerialFlashAssumption DEF IInv, SendNext
  <2> QED
    BY <2>1, StreamIsBytes
<1>3. driver \in [ phase : Phase, sent : Seq(Byte), read : Nat, known : BOOLEAN ]
  BY TypeFacts DEF IInv
<1>4. /\ driver.phase = "busy" /\ WriteDR(byte)
      /\ \/ ~full /\ driver' = [driver EXCEPT !.sent = Append(driver.sent, byte)]
         \/ full /\ driver' = [driver EXCEPT !.sent = Append(driver.sent, byte),
                                            !.read = driver.read + 1]
  BY <1>1 DEF Send, SendBlindly, get_status_flags
<1>5. driver'.sent = Append(driver.sent, byte)
  BY <1>3, <1>4
<1> QED
  BY <1>2, <1>4, <1>5, ExchangeStep

LEMMA StepIInv == IInv /\ [SpiNext]_spiVars => IInv'
<1> SUFFICES ASSUME IInv, [SpiNext]_spiVars
             PROVE  IInv'
  OBVIOUS
<1>1. CASE RaiseSelect
  BY <1>1, RaiseStep DEF RaiseSelect
<1>2. CASE Drain
  BY <1>2, DrainStep
<1>3. CASE Drained
  BY <1>3, DrainedStep
<1>4. CASE Select
  BY <1>4, SelectStep
<1>5. CASE SendNext
  BY <1>5, SendNextStep
<1>6. CASE Receive
  BY <1>6, ReceiveStep
<1>7. CASE Deselect
  <2>1. CsPin \notin pin_mask
    BY <1>7 DEF IInv, SpiTypeOK, Deselect
  <2> QED
    BY <1>7, <2>1, RaiseStep DEF Deselect
<1>8. CASE \E pin \in Pin : OtherPin(pin)
  BY <1>8, OtherPinStep
<1>9. CASE Restart
  BY <1>9, RestartStep
<1>10. CASE UNCHANGED spiVars
  BY <1>10 DEF IInv, SpiTypeOK, TypeOK, Decodes, Accounts, Contents, empty, spiVars
<1> QED
  BY <1>1, <1>2, <1>3, <1>4, <1>5, <1>6, <1>7, <1>8, <1>9, <1>10 DEF SpiNext

\* The inductive invariant of the controller, the chip and the firmware.
THEOREM SpiInvariant == SpiSpec => []IInv
  BY InitIInv, StepIInv, PTL DEF SpiSpec

-----------------------------------------------------------------------------
(* The properties.                                                         *)

\* The buffer's indices, the chip's position and the select pin stay in range.
THEOREM SpiTypeCorrect == SpiSpec => []SpiTypeOK
<1>1. IInv => SpiTypeOK
  BY DEF IInv
<1> QED
  BY <1>1, SpiInvariant, PTL

\* SPI_module and its firmware use the ring buffer through push and pop only: under
\* them, too, it is the queue that drops its oldest element.
THEOREM BufferIsLossyQueue == SpiSpec => IsLossyQueue
<1>1. IInv /\ [SpiNext]_spiVars => [Next]_fifoVars
  <2> SUFFICES ASSUME IInv, SpiNext
               PROVE  [Next]_fifoVars
    BY DEF spiVars, fifoVars
  <2>1. SendNext => Next
    <3>1. ASSUME NEW byte, WriteDR(byte)
          PROVE  Next
      BY <3>1, TypeFacts, ExchangeDataType, BaseFacts DEF IInv, WriteDR, Next
    <3> QED
      BY <3>1 DEF SendNext, Send, SendBlindly
  <2>2. Drain \/ Receive => Next
    BY DEF Drain, Receive, ReadDR, Next
  <2>3. RaiseSelect \/ Drained \/ Select \/ Deselect \/ Restart => UNCHANGED fifoVars
    BY DEF RaiseSelect, Drained, Select, Deselect, Restart
  <2>4. (\E pin \in Pin : OtherPin(pin)) => UNCHANGED fifoVars
    BY DEF OtherPin
  <2> QED
    BY <2>1, <2>2, <2>3, <2>4 DEF SpiNext
<1>2. SpiInit => Init
  BY DEF SpiInit
<1>3. SpiSpec => Spec
  BY <1>1, <1>2, SpiInvariant, PTL DEF SpiSpec, Spec
<1> QED
  BY <1>3, Refinement

\* With the chip selected the firmware reads the answers to its bytes, in order.
THEOREM ReadsAnswered == SpiSpec => ReadsAreAnswers
<1>1. IInv /\ [SpiNext]_spiVars
        => [ driver.phase = "busy" /\ stored' < stored
             => popped' = Answer(driver.sent, flash.data, driver.read + 1) ]_spiVars
  <2> SUFFICES ASSUME IInv, SpiNext, driver.phase = "busy", stored' < stored
               PROVE  popped' = Answer(driver.sent, flash.data, driver.read + 1)
    OBVIOUS
  <2>1. stored \in Nat
    BY FIFOAssumption DEF IInv, SpiTypeOK, TypeOK
  <2>2. ~ UNCHANGED fifoVars
    BY <2>1 DEF fifoVars
  <2>3. ~SendNext
    <3>1. ASSUME NEW byte, WriteDR(byte)
          PROVE  FALSE
      <4>1. Push(exchange_data(flash))
        BY <3>1 DEF WriteDR
      <4>2. stored' = stored \/ stored' = stored + 1
        BY <4>1, Zenon DEF Push
      <4> QED
        BY <2>1, <4>2
    <3> QED
      BY <3>1 DEF SendNext, Send, SendBlindly
  <2>4. ~(\E pin \in Pin : OtherPin(pin))
    BY <2>2 DEF OtherPin
  <2>5. ~(RaiseSelect \/ Drained \/ Select \/ Deselect \/ Restart)
    BY <2>2 DEF RaiseSelect, Drained, Select, Deselect, Restart
  <2>6. ~Drain
    BY DEF Drain
  <2>7. Receive
    BY <2>3, <2>4, <2>5, <2>6 DEF SpiNext
  <2> QED
    BY <2>7, ReceiveStep
<1> QED
  BY <1>1, SpiInvariant, PTL DEF SpiSpec, ReadsAreAnswers

\* From the first edge of the select pin on, only a program command's data byte or
\* the end of an erase command changes the memory.
THEOREM ChangesCommanded == SpiSpec => ChangesAreCommanded
<1>1. IInv /\ [SpiNext]_spiVars
        => [ driver.known /\ flash.data' # flash.data => Programs \/ Erases ]_spiVars
  <2> SUFFICES ASSUME IInv, SpiNext, driver.known, flash.data' # flash.data
               PROVE  Programs \/ Erases
    BY Zenon
  <2>1. /\ flash \in ChipState /\ driver.sent \in Seq(Byte) /\ Decodes(flash, driver.sent)
        /\ driver \in [ phase : Phase, sent : Seq(Byte), read : Nat, known : BOOLEAN ]
    BY TypeFacts DEF IInv
  <2>2. CASE SendNext
    <3>1. PICK byte \in Stream[Len(driver.sent) + 1] : Send(byte) \/ SendBlindly(byte)
      BY <2>2 DEF SendNext
    <3>2. byte \in Byte
      <4>1. Len(driver.sent) + 1 \in 1..Len(Stream)
        BY <2>1, <2>2, SerialFlashAssumption DEF SendNext
      <4> QED
        BY <4>1, StreamIsBytes
    <3>3. flash' = exchange_bytes(flash, byte) /\ driver'.sent = Append(driver.sent, byte)
      BY <2>1, <3>1 DEF Send, SendBlindly, WriteDR
    <3> DEFINE s == driver.sent
               t == Append(s, byte)
    <3>4. /\ Len(s) >= 4 /\ s[1] = Code["PROGRAM_PAGE"]
          /\ flash'.data = [flash.data EXCEPT ![AddressOf(s) + (Len(s) - 4)] = byte]
      BY <2>1, <3>2, <3>3, ExchangeChanges
    <3>5. /\ Len(t) = Len(s) + 1 /\ t[1] = s[1] /\ t[Len(t)] = byte
          /\ AddressOf(t) = AddressOf(s) /\ Len(s) \in Nat
      BY <2>1, <3>2, <3>4, AppendProperties, AddressOfAppend
    <3> HIDE DEF t
    <3>6. Len(t) >= 5 /\ Len(t) - 5 = Len(s) - 4
      BY <3>4, <3>5
    <3>7. driver'.sent = t
      BY <3>3 DEF t
    <3> QED
      BY <3>4, <3>5, <3>6, <3>7 DEF Programs
  <2>3. CASE WriteSETTX({CsPin}) /\ (RaiseSelect \/ Deselect)
    <3>1. set_pin_mask(pin_mask \cup {CsPin})
      BY <2>3 DEF WriteSETTX
    <3>2. CsPin \notin pin_mask /\ CsPin \in pin_mask' /\ flash' = on_cs_rise(flash)
      BY <3>1 DEF set_pin_mask, PinChanges
    <3>3. flash.cmd = Code["ERASE_SECTOR_4K"] /\ flash'.data = erase_page(flash)
      BY <3>2, Zenon DEF on_cs_rise
    <3>4. driver.sent # <<>> /\ driver.sent[1] = Code["ERASE_SECTOR_4K"]
      BY <2>1, <3>3, BaseFacts DEF Decodes
    <3>5. \A c \in 0..MemSize-1 : flash'.data[c] \in {flash.data[c], Erased}
      BY <3>3 DEF erase_page
    <3> QED
      BY <3>2, <3>4, <3>5 DEF Erases, Ends
  <2>4. CASE Select
    <3>1. set_pin_mask(pin_mask \ {CsPin})
      BY <2>4 DEF Select, WriteCLRTX
    <3>2. flash' = flash \/ flash' = on_cs_fall(flash)
      BY <3>1 DEF set_pin_mask
    <3>3. flash'.data = flash.data
      BY <2>1, <3>2 DEF on_cs_fall, ChipState
    <3> QED
      BY <3>3
  <2>5. CASE \E pin \in Pin : OtherPin(pin)
    BY <2>5, OtherPinStep
  <2>6. CASE Drain \/ Receive \/ Drained \/ Restart
    BY <2>6 DEF Drain, Receive, ReadDR, Drained, Restart
  <2> QED
    BY <2>2, <2>3, <2>4, <2>5, <2>6 DEF SpiNext, RaiseSelect, Deselect
<1> QED
  BY <1>1, SpiInvariant, PTL DEF SpiSpec, ChangesAreCommanded
=============================================================================
