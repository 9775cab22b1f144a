-------------------------- MODULE SerializerProofs ---------------------------
(***************************************************************************)
(* The reader of Serializer.tla stays inside the array, whatever bytes are *)
(* in it, for any values, any sizes of the types, any width of a byte and  *)
(* any memory that an unsigned can count.                                  *)
(*                                                                         *)
(* Each read has been allowed by CanRead() or by the test of available()   *)
(* in popTypeSignature().  These say what they are meant to say as long as *)
(* m_index is not beyond the end, where size() - m_index would wrap        *)
(* around; and m_index does not get there, as each read was allowed.  The  *)
(* two are shown together, with the types of what is read and written.     *)
(*                                                                         *)
(* The second part shows that the serializer is a tape of values           *)
(* (ValueTape.tla): SerializerIsTape, at the end.  Lay() says that the     *)
(* bytes between two places are as pushValue() writes them, Expects() what *)
(* a popValue() under way still has to read, and Laid, the invariant, that *)
(* where a value is to be read, the bytes of what is expected are there.   *)
(***************************************************************************)
EXTENDS Serializer, SequenceTheorems, FiniteSetTheorems, TLAPS

Inside ==
  /\ m_byteArray \in Seq(Byte)
  /\ Size <= MaxBytes
  /\ m_index \in Nat
  /\ ReadsInside
  /\ todo \in Seq(Values)

-----------------------------------------------------------------------------
LEMMA ModSmall ==
  ASSUME NEW a \in Nat, NEW b \in Nat, a < b
  PROVE  a % b = a
BY SMT

LEMMA ModRange ==
  ASSUME NEW a \in Nat, NEW b \in Nat \ {0}
  PROVE  a % b \in 0 .. b - 1
BY SMT

LEMMA ModAtMost ==
  ASSUME NEW a \in Nat, NEW b \in Nat \ {0}
  PROVE  a % b \in Nat /\ a % b <= a
BY SMT

LEMMA DivNat ==
  ASSUME NEW a \in Nat, NEW b \in Nat \ {0}
  PROVE  a \div b \in Nat
BY SMT

LEMMA ConstantTypes ==
  /\ Base \in Nat \ {0, 1}
  /\ Unsigned \in Nat \ {0}
  /\ SizeT \in Nat /\ MaxBytes \in Nat
  /\ MaxBytes < Unsigned /\ MaxBytes < SizeT
  /\ \A t \in Scalars : SizeOf[t] \in Nat
  /\ \A t \in Types : Signature[t] \in Byte
<1>1. Base \in Nat \ {0, 1}
  BY SerializerAssumption
<1>2. Base * Base \in Nat \ {0}
  BY SMT, <1>1
<1> QED
  BY <1>1, <1>2, SerializerAssumption DEF Unsigned

(* A byte, and the two of an unsigned.                                     *)
LEMMA UnsignedBytesType ==
  ASSUME NEW n \in Nat
  PROVE  UnsignedBytes(n) \in Seq(Byte)
<1>1. Base \in Nat \ {0}
  BY ConstantTypes
<1>2. n % Base \in Byte /\ n \div Base \in Nat
  BY <1>1, ModRange, DivNat DEF Byte
<1>3. (n \div Base) % Base \in Byte
  BY <1>1, <1>2, ModRange DEF Byte
<1> QED
  BY <1>2, <1>3 DEF UnsignedBytes

LEMMA SubSeqType ==
  ASSUME NEW S, NEW s \in Seq(S), NEW first \in Nat \ {0}, NEW last \in Nat,
         last <= Len(s)
  PROVE  /\ SubSeq(s, first, last) \in Seq(S)
         /\ first <= last + 1 => Len(SubSeq(s, first, last)) = last - first + 1
<1>1. \A i \in first .. last : s[i] \in S
  BY ElementOfSeq
<1> QED
  BY <1>1, SubSeqProperties

LEMMA ValueType ==
  ASSUME NEW v \in Values
  PROVE  v.type \in Types /\ v.raw \in Seq(Byte) /\ v.items \in Seq(Values)
BY SerializerAssumption

(* What one pushValue() writes is bytes.                                   *)
LEMMA HeaderType ==
  ASSUME NEW v \in Values
  PROVE  Header(v) \in Seq(Byte)
<1>1. v.type \in Types /\ v.raw \in Seq(Byte) /\ v.items \in Seq(Values)
  BY ValueType
<1>2. Len(v.raw) \in Nat /\ Len(v.items) \in Nat
  BY <1>1, LenProperties
<1>3. SubSeq(v.raw, 1, Len(v.raw) % Unsigned) \in Seq(Byte)
  <2>1. Len(v.raw) % Unsigned \in Nat /\ Len(v.raw) % Unsigned <= Len(v.raw)
    BY <1>2, ConstantTypes, ModAtMost
  <2> QED
    BY <1>1, <2>1, SubSeqType
<1>4. Len(v.items) \div 2 \in Nat
  <2> DEFINE n == Len(v.items)
  <2>1. n \in Nat
    BY <1>2
  <2> HIDE DEF n
  <2>2. n \div 2 \in Nat
    BY SMT, <2>1
  <2> QED
    BY <2>2 DEF n
<1>5. /\ UnsignedBytes(Len(v.raw)) \in Seq(Byte)
      /\ UnsignedBytes(Len(v.items)) \in Seq(Byte)
      /\ UnsignedBytes(Len(v.items) \div 2) \in Seq(Byte)
  BY <1>2, <1>4, UnsignedBytesType
<1>6. UnsignedBytes(Len(v.raw)) \o SubSeq(v.raw, 1, Len(v.raw) % Unsigned)
        \in Seq(Byte)
  BY <1>3, <1>5, ConcatProperties
<1>7. Payload(v) \in Seq(Byte)
  BY <1>1, <1>5, <1>6, EmptySeq DEF Payload
<1>8. <<Signature[v.type]>> \in Seq(Byte)
  BY <1>1, ConstantTypes
<1> QED
  BY <1>7, <1>8, ConcatProperties DEF Header

-----------------------------------------------------------------------------
(* What CanRead() allows is inside the array.                              *)
LEMMA ReadAllowed ==
  ASSUME Inside, NEW index \in Nat, index <= Size, NEW size \in Nat,
         CanRead(index, size)
  PROVE  index + size \in Nat /\ index + size <= Size
<1>1. Size \in Nat
  BY LenProperties DEF Inside, Size
<1>2. Size - index \in Nat /\ Size - index < SizeT
  BY <1>1, ConstantTypes DEF Inside
<1>3. Available(index) = Size - index
  BY <1>2, ConstantTypes, ModSmall DEF Available
<1> QED
  BY <1>1, <1>3 DEF CanRead

LEMMA SignatureAllowed ==
  ASSUME Inside, NEW type, Signed(type)
  PROVE  m_index + 1 \in Nat /\ m_index + 1 <= Size
<1>1. Size \in Nat /\ m_index \in Nat /\ m_index <= Size
  BY LenProperties DEF Inside, Size, ReadsInside
<1>2. Size - m_index \in Nat /\ Size - m_index < SizeT
  BY <1>1, ConstantTypes DEF Inside
<1>3. Available(m_index) = Size - m_index
  BY <1>2, ConstantTypes, ModSmall DEF Available
<1> QED
  BY <1>1, <1>3 DEF Signed

LEMMA LengthType ==
  ASSUME Inside, NEW index \in Nat, index + 2 <= Size
  PROVE  ReadUnsigned(index) \in Nat
<1>1. m_byteArray[index + 1] \in Byte /\ m_byteArray[index + 2] \in Byte
  BY ElementOfSeq DEF Inside, Size
<1>2. /\ Base \in Nat
      /\ m_byteArray[index + 1] \in Nat /\ m_byteArray[index + 2] \in Nat
  BY <1>1, ConstantTypes DEF Byte
<1>3. Base * m_byteArray[index + 2] \in Nat
  BY SMT, <1>2
<1> QED
  BY <1>2, <1>3 DEF ReadUnsigned

(* The index is moved to a place inside the array.                         *)
MovesInside ==
  /\ m_index' \in Nat
  /\ m_index' <= Size

LEMMA Moves ==
  ASSUME Inside, NEW index \in Nat, index <= Size, MoveTo(index)
  PROVE  MovesInside
<1>1. Size \in Nat /\ index < Unsigned
  BY LenProperties, ConstantTypes DEF Inside, Size
<1>2. index % Unsigned = index
  BY <1>1, ConstantTypes, ModSmall
<1> QED
  BY <1>2 DEF MoveTo, MovesInside

LEMMA FailsInside ==
  ASSUME Inside, NEW index \in Nat, index <= Size, Fails(index)
  PROVE  MovesInside
BY Moves DEF Fails

LEMMA DeliversInside ==
  ASSUME Inside, NEW index \in Nat, index <= Size, NEW v, NEW callers,
         Delivers(v, index, callers)
  PROVE  MovesInside
BY Moves, FailsInside DEF Delivers

(* A step of popValue() changes neither the array nor what is to be        *)
(* written, so that Inside is kept if the index moves inside.              *)
LEMMA ReadingKeeps ==
  ASSUME Inside, MovesInside, UNCHANGED <<m_byteArray, todo>>
  PROVE  Inside'
BY DEF Inside, MovesInside, ReadsInside, Size

-----------------------------------------------------------------------------
(* What is appended is bytes, as many as there is memory for.              *)
LEMMA AppendKeeps ==
  ASSUME Inside, NEW bytes \in Seq(Byte), Size + Len(bytes) <= MaxBytes,
         Append_(bytes), m_index' = m_index, todo' \in Seq(Values)
  PROVE  Inside'
<1>1. /\ m_byteArray' \in Seq(Byte)
      /\ Len(m_byteArray') = Len(m_byteArray) + Len(bytes)
  BY ConcatProperties DEF Inside, Append_
<1>2. Len(m_byteArray) \in Nat /\ Len(bytes) \in Nat
  BY LenProperties DEF Inside
<1> QED
  BY <1>1, <1>2 DEF Inside, Size, ReadsInside

LEMMA PushingKeeps ==
  ASSUME Inside, PushValue
  PROVE  Inside'
<1>1. Head(todo) \in Values /\ Tail(todo) \in Seq(Values)
  BY HeadTailProperties DEF Inside, PushValue
<1>2. Header(Head(todo)) \in Seq(Byte)
  BY <1>1, HeaderType
<1>3. Head(todo).items \o Tail(todo) \in Seq(Values)
  BY <1>1, ValueType, ConcatProperties
<1> QED
  BY <1>2, <1>3, AppendKeeps DEF PushValue

LEMMA ThrowingKeeps ==
  ASSUME Inside, PushThrows
  PROVE  Inside'
<1> DEFINE bytes == Header(Head(todo))
<1>1. Head(todo) \in Values
  BY HeadTailProperties DEF Inside, PushThrows
<1>2. bytes \in Seq(Byte) /\ Len(bytes) \in Nat /\ Size \in Nat
  BY <1>1, HeaderType, LenProperties DEF Inside, Size
<1>3. PICK n \in 0 .. MaxBytes - Size : Append_(SubSeq(bytes, 1, n))
  BY DEF PushThrows
<1>4. n \in Nat /\ n <= Len(bytes) /\ Size + n <= MaxBytes
  BY <1>2, <1>3, ConstantTypes DEF PushThrows, Inside
<1>5. SubSeq(bytes, 1, n) \in Seq(Byte) /\ Len(SubSeq(bytes, 1, n)) = n
  BY <1>2, <1>4, SubSeqType
<1>6. todo' \in Seq(Values)
  BY EmptySeq DEF PushThrows
<1> QED
  BY <1>3, <1>4, <1>5, <1>6, AppendKeeps DEF PushThrows

LEMMA CuttingKeeps ==
  ASSUME Inside, NEW begin \in 0 .. Size, NEW size \in 0 .. Size - begin,
         InitWith(begin, size)
  PROVE  Inside'
<1>1. Size \in Nat /\ m_byteArray \in Seq(Byte)
  BY LenProperties DEF Inside, Size
<1>2. /\ SubSeq(m_byteArray, begin + 1, begin + size) \in Seq(Byte)
      /\ Len(SubSeq(m_byteArray, begin + 1, begin + size)) = size
  BY <1>1, SubSeqType DEF Size
<1>3. m_byteArray' \in Seq(Byte) /\ Size' = size
  BY <1>2 DEF InitWith, Slice, Size
<1>4. m_index' = 0 /\ todo' = todo
  BY DEF InitWith
<1> QED
  BY <1>1, <1>3, <1>4, ConstantTypes DEF Inside, ReadsInside

-----------------------------------------------------------------------------
LEMMA PopUnsignedInside ==
  ASSUME Inside, PopUnsigned
  PROVE  MovesInside
BY FailsInside DEF PopUnsigned, Inside, ReadsInside

LEMMA PopEmptyInside ==
  ASSUME Inside, NEW type, PopEmpty(type)
  PROVE  MovesInside
BY SignatureAllowed, DeliversInside DEF PopEmpty

LEMMA PopScalarInside ==
  ASSUME Inside, NEW type \in Scalars, PopScalar(type)
  PROVE  MovesInside
<1>1. m_index + 1 \in Nat /\ m_index + 1 <= Size
  BY SignatureAllowed DEF PopScalar
<1>2. SizeOf[type] \in Nat
  BY ConstantTypes
<1>3. CASE /\ CanRead(m_index + 1, SizeOf[type])
           /\ \E raw \in Loaded(type, Slice(m_index + 1, SizeOf[type])) :
                Delivers(Variant(type, raw, <<>>), m_index + 1 + SizeOf[type], frames)
  BY <1>1, <1>2, <1>3, ReadAllowed, DeliversInside
<1>4. CASE Fails(m_index + 1)
  BY <1>1, <1>4, FailsInside
<1> QED
  BY <1>3, <1>4 DEF PopScalar

LEMMA PopStringInside ==
  ASSUME Inside, PopString
  PROVE  MovesInside
<1> DEFINE length == ReadUnsigned(m_index + 1)
<1>1. m_index + 1 \in Nat /\ m_index + 1 <= Size
  BY SignatureAllowed DEF PopString
<1>2. CASE Fails(m_index + 1)
  BY <1>1, <1>2, FailsInside
<1>3. CASE CanRead(m_index + 1, 2)
  <2>1. m_index + 3 \in Nat /\ m_index + 3 <= Size
    BY <1>1, <1>3, ReadAllowed DEF Inside
  <2>2. length \in Nat
    BY <1>1, <2>1, LengthType DEF Inside
  <2>3. CASE Fails(m_index + 3)
    BY <2>1, <2>3, FailsInside
  <2>4. CASE /\ CanRead(m_index + 3, length)
             /\ Delivers(Variant("String", Slice(m_index + 3, length), <<>>),
                         m_index + 3 + length, frames)
    BY <2>1, <2>2, <2>4, ReadAllowed, DeliversInside
  <2> QED
    BY <1>2, <1>3, <2>3, <2>4 DEF PopString
<1> QED
  BY <1>2, <1>3 DEF PopString

LEMMA PopContainerInside ==
  ASSUME Inside, NEW type, PopContainer(type)
  PROVE  MovesInside
<1>1. m_index + 1 \in Nat /\ m_index + 1 <= Size
  BY SignatureAllowed DEF PopContainer
<1>2. CASE Fails(m_index + 1)
  BY <1>1, <1>2, FailsInside
<1>3. CASE CanRead(m_index + 1, 2) /\ MoveTo(m_index + 3)
  <2>1. m_index + 3 \in Nat /\ m_index + 3 <= Size
    BY <1>1, <1>3, ReadAllowed DEF Inside
  <2> QED
    BY <1>3, <2>1, Moves
<1> QED
  BY <1>2, <1>3 DEF PopContainer

LEMMA PopContainerEndsInside ==
  ASSUME Inside, PopContainerEnds
  PROVE  MovesInside
BY DeliversInside DEF PopContainerEnds, Inside, ReadsInside

-----------------------------------------------------------------------------
LEMMA InsideInit == SerializerInit => Inside
<1> SUFFICES ASSUME SerializerInit PROVE Inside
  OBVIOUS
<1>1. m_byteArray \in Seq(Byte) /\ Size = 0 /\ todo \in Seq(Values)
  BY EmptySeq DEF SerializerInit, Size
<1> QED
  BY <1>1, ConstantTypes DEF SerializerInit, Inside, ReadsInside

LEMMA InsideStep == Inside /\ [SerializerNext]_serializerVars => Inside'
<1> SUFFICES ASSUME Inside, [SerializerNext]_serializerVars PROVE Inside'
  OBVIOUS
<1>1. CASE \E v \in Arguments : PushCall(v)
  <2>1. PICK v \in Arguments : PushCall(v)
    BY <1>1
  <2>2. todo' \in Seq(Values)
    BY <2>1, SerializerAssumption DEF PushCall
  <2> QED
    BY <2>1, <2>2 DEF PushCall, Inside, ReadsInside, Size
<1>2. CASE PushValue
  BY <1>2, PushingKeeps
<1>3. CASE PushThrows
  BY <1>3, ThrowingKeeps
<1>4. CASE PushReturn
  BY <1>4 DEF PushReturn, Inside, ReadsInside, Size
<1>5. CASE PopCall
  BY <1>5 DEF PopCall, Inside, ReadsInside, Size
<1>6. CASE PopUnsigned
  BY <1>6, PopUnsignedInside, ReadingKeeps DEF PopUnsigned, Popping
<1>7. CASE PopString
  BY <1>7, PopStringInside, ReadingKeeps DEF PopString, Popping
<1>8. CASE PopContainerEnds
  BY <1>8, PopContainerEndsInside, ReadingKeeps DEF PopContainerEnds
<1>9. CASE \E type \in {"Invalid", "Null"} : PopEmpty(type)
  BY <1>9, PopEmptyInside, ReadingKeeps DEF PopEmpty, Popping
<1>10. CASE \E type \in Scalars : PopScalar(type)
  BY <1>10, PopScalarInside, ReadingKeeps DEF PopScalar, Popping
<1>11. CASE \E type \in Containers : PopContainer(type)
  BY <1>11, PopContainerInside, ReadingKeeps DEF PopContainer, Popping
<1>12. CASE Reset
  <2>1. Size \in Nat
    BY LenProperties DEF Inside, Size
  <2> QED
    BY <1>12, <2>1 DEF Reset, history, Inside, ReadsInside, Size
<1>13. CASE \E begin \in ({0, m_index} \cup Cuts) \cap (0 .. Size) :
              \E size \in 0 .. Size - begin : InitWith(begin, size)
  BY <1>13, CuttingKeeps
<1>14. CASE UNCHANGED serializerVars
  BY <1>14 DEF serializerVars, Inside, ReadsInside, Size
<1> QED
  BY <1>1, <1>2, <1>3, <1>4, <1>5, <1>6, <1>7, <1>8, <1>9, <1>10, <1>11, <1>12,
     <1>13, <1>14 DEF SerializerNext

(* No read of popValue() goes beyond the end of the array, and the number  *)
(* of bytes available never wraps around (ByteArraySerializer.cpp:43, 72,  *)
(* 287), for every array of bytes and every sequence of calls.             *)
THEOREM ReaderStaysInside == SerializerSpec => []ReadsInside
<1>1. Inside => ReadsInside
  BY DEF Inside
<1> QED
  BY <1>1, InsideInit, InsideStep, PTL DEF SerializerSpec

-----------------------------------------------------------------------------
(* The popList() and popMap() under way: all but the innermost one wait    *)
(* for a value that they have asked for.                                   *)
Frame(f) ==
  /\ f = [type |-> f.type, left |-> f.left, key |-> f.key, items |-> f.items]
  /\ f.type \in Containers
  /\ f.left \in Nat
  /\ Len(f.key) <= 1

Stack(fs) ==
  /\ \E S : fs \in Seq(S)
  /\ \A i \in DOMAIN fs : Frame(fs[i]) /\ (i > 1 => fs[i].left > 0)

Asking(fs) == fs # <<>> => Head(fs).left > 0

LEMMA StackEmpty == Stack(<<>>) /\ Asking(<<>>)
<1>1. <<>> \in Seq({}) /\ DOMAIN <<>> = {}
  OBVIOUS
<1> QED
  BY <1>1 DEF Stack, Asking

LEMMA StackTail ==
  ASSUME NEW fs, Stack(fs), fs # <<>>
  PROVE  Frame(Head(fs)) /\ Stack(Tail(fs)) /\ Asking(Tail(fs))
<1>1. PICK S : fs \in Seq(S)
  BY DEF Stack
<1> DEFINE rest_ == Tail(fs)
<1>2. /\ rest_ \in Seq(S) /\ Len(rest_) = Len(fs) - 1 /\ Len(fs) \in Nat \ {0}
      /\ \A i \in 1 .. Len(rest_) : rest_[i] = fs[i + 1]
  BY <1>1, HeadTailProperties, EmptySeq
<1>3. Head(fs) = fs[1] /\ DOMAIN fs = 1 .. Len(fs)
  BY <1>1, LenProperties
<1> HIDE DEF rest_
<1>4. Len(rest_) \in Nat /\ DOMAIN rest_ = 1 .. Len(rest_)
  BY <1>2, LenProperties
<1>5. \A i \in DOMAIN rest_ : Frame(rest_[i]) /\ rest_[i].left > 0
  BY <1>2, <1>3, <1>4 DEF Stack
<1>6. rest_ # <<>> => Head(rest_) = rest_[1] /\ 1 \in DOMAIN rest_
  BY <1>2, <1>4, EmptySeq
<1>7. Stack(rest_)
  BY <1>2, <1>5 DEF Stack
<1>8. Asking(rest_)
  BY <1>5, <1>6 DEF Asking
<1>9. Frame(Head(fs))
  BY <1>2, <1>3 DEF Stack
<1> QED
  BY <1>7, <1>8, <1>9 DEF rest_

LEMMA StackPush ==
  ASSUME NEW fs, Stack(fs), Asking(fs), NEW f, Frame(f)
  PROVE  Stack(<<f>> \o fs)
<1>1. PICK S : fs \in Seq(S)
  BY DEF Stack
<1> DEFINE both == <<f>> \o fs
<1>2. <<f>> \in Seq(S \cup {f}) /\ fs \in Seq(S \cup {f}) /\ Len(<<f>>) = 1
  BY <1>1
<1>3. /\ both \in Seq(S \cup {f}) /\ Len(both) = 1 + Len(fs)
      /\ \A i \in 1 .. 1 + Len(fs) : both[i] = IF i <= 1 THEN <<f>>[i] ELSE fs[i - 1]
  BY <1>2, ConcatProperties
<1> HIDE DEF both
<1>4. /\ DOMAIN both = 1 .. 1 + Len(fs) /\ DOMAIN fs = 1 .. Len(fs) /\ Len(fs) \in Nat
      /\ <<f>>[1] = f
  BY <1>1, <1>3, LenProperties
<1>5. 1 \in DOMAIN fs => Head(fs) = fs[1] /\ fs # <<>>
  BY <1>1, <1>4, EmptySeq
<1>6. ASSUME NEW i \in DOMAIN both PROVE Frame(both[i]) /\ (i > 1 => both[i].left > 0)
  <2>1. CASE i = 1
    BY <1>3, <1>4, <2>1
  <2>2. CASE i > 1
    <3>1. i - 1 \in DOMAIN fs /\ both[i] = fs[i - 1] /\ i \in Nat
      BY <1>3, <1>4, <2>2
    <3>2. CASE i = 2
      BY <1>5, <3>1, <3>2 DEF Stack, Asking
    <3>3. CASE i > 2
      BY <3>1, <3>3 DEF Stack
    <3> QED
      BY <2>2, <3>1, <3>2, <3>3
  <2> QED
    BY <1>4, <2>1, <2>2
<1> QED
  BY <1>3, <1>6 DEF both, Stack

(* The frame that gets a value wanted one.                                 *)
LEMMA ReceivedTyped ==
  ASSUME NEW f, Frame(f), f.left > 0, NEW v
  PROVE  Frame(Received(f, v))
<1>1. f.left - 1 \in Nat
  BY DEF Frame
<1>2. Len(<<>>) <= 1 /\ Len(<<v>>) <= 1
  OBVIOUS
<1>3. ASSUME NEW left \in Nat, NEW key, Len(key) <= 1, NEW items
      PROVE  Frame([type |-> f.type, left |-> left, key |-> key, items |-> items])
  BY <1>3 DEF Frame
<1>4. CASE f.type = "List"
  <2>1. Received(f, v) = [f EXCEPT !.items = Append(@, v), !.left = @ - 1]
    BY <1>4 DEF Received
  <2>2. Received(f, v) = [type |-> f.type, left |-> f.left - 1, key |-> f.key,
                          items |-> Append(f.items, v)]
    BY <2>1 DEF Frame
  <2> QED
    BY <1>1, <1>3, <2>2 DEF Frame
<1>5. CASE f.type = "Map" /\ f.key = <<>>
  <2>1. Received(f, v) = [f EXCEPT !.key = <<v>>]
    BY <1>5 DEF Received
  <2>2. Received(f, v) = [type |-> f.type, left |-> f.left, key |-> <<v>>,
                          items |-> f.items]
    BY <2>1 DEF Frame
  <2>3. f.left \in Nat
    BY DEF Frame
  <2>4. Frame([type |-> f.type, left |-> f.left, key |-> <<v>>, items |-> f.items])
    BY <1>2, <1>3, <2>3, Zenon
  <2> QED
    BY <2>2, <2>4, Zenon
<1>6. CASE f.type = "Map" /\ f.key # <<>>
  <2>1. Received(f, v) = [f EXCEPT !.items = Put(@, f.key[1], v), !.left = @ - 1,
                                   !.key = <<>>]
    BY <1>6 DEF Received
  <2>2. Received(f, v) = [type |-> f.type, left |-> f.left - 1, key |-> <<>>,
                          items |-> Put(f.items, f.key[1], v)]
    BY <2>1 DEF Frame
  <2>3. Frame([type |-> f.type, left |-> f.left - 1, key |-> <<>>,
               items |-> Put(f.items, f.key[1], v)])
    BY <1>1, <1>2, <1>3, Zenon
  <2> QED
    BY <2>2, <2>3, Zenon
<1> QED
  BY <1>4, <1>5, <1>6 DEF Frame, Containers

StackKept ==
  /\ Stack(frames)
  /\ doing \in {"nothing", "push", "pop"}
  /\ todo # <<>> => doing = "push"
  /\ frames # <<>> => doing = "pop"

LEMMA FailsTyped ==
  ASSUME StackKept, todo = <<>>, NEW index, Fails(index), todo' = todo
  PROVE  StackKept'
BY StackEmpty DEF StackKept, Fails, PopReturns

LEMMA DeliversTyped ==
  ASSUME StackKept, doing = "pop", NEW v, NEW index, NEW callers,
         Stack(callers), Asking(callers), Delivers(v, index, callers), todo' = todo
  PROVE  StackKept'
<1>1. todo = <<>>
  BY DEF StackKept
<1>2. CASE callers = <<>> /\ PopReturns([returned |-> "true", value |-> v])
  BY <1>1, <1>2, StackEmpty DEF StackKept, PopReturns
<1>3. CASE Fails(index)
  BY <1>1, <1>3, FailsTyped
<1>4. CASE /\ callers # <<>> /\ UNCHANGED doing
           /\ frames' = <<Received(Head(callers), v)>> \o Tail(callers)
  <2>1. Frame(Head(callers)) /\ Stack(Tail(callers)) /\ Asking(Tail(callers))
    BY <1>4, StackTail
  <2>2. Frame(Received(Head(callers), v))
    BY <1>4, <2>1, ReceivedTyped DEF Asking
  <2>3. Stack(frames')
    BY <1>4, <2>1, <2>2, StackPush
  <2> QED
    BY <1>1, <1>4, <2>3 DEF StackKept
<1> QED
  BY <1>2, <1>3, <1>4 DEF Delivers

LEMMA StackStep ==
  ASSUME Inside, StackKept, [SerializerNext]_serializerVars
  PROVE  StackKept'
<1>1. CASE \E v \in Arguments : PushCall(v)
  BY <1>1 DEF PushCall, StackKept
<1>2. CASE PushValue \/ PushThrows \/ PushReturn
  BY <1>2 DEF PushValue, PushThrows, PushReturn, StackKept, history
<1>3. CASE PopCall \/ Reset \/ UNCHANGED serializerVars
  BY <1>3 DEF PopCall, Reset, serializerVars, StackKept, history
<1>4. CASE \E begin \in ({0, m_index} \cup Cuts) \cap (0 .. Size) :
             \E size \in 0 .. Size - begin : InitWith(begin, size)
  BY <1>4 DEF InitWith, StackKept
<1>5. Popping => doing = "pop" /\ todo = <<>> /\ todo' = todo /\ Stack(frames) /\ Asking(frames)
  BY DEF Popping, StackKept, Asking
<1>6. CASE PopUnsigned
  BY <1>5, <1>6, FailsTyped DEF PopUnsigned
<1>7. CASE \E type \in {"Invalid", "Null"} : PopEmpty(type)
  BY <1>5, <1>7, DeliversTyped DEF PopEmpty
<1>8. CASE \E type \in Scalars : PopScalar(type)
  BY <1>5, <1>8, DeliversTyped, FailsTyped DEF PopScalar
<1>9. CASE PopString
  BY <1>5, <1>9, DeliversTyped, FailsTyped DEF PopString
<1>10. ASSUME NEW type \in Containers, PopContainer(type) PROVE StackKept'
  <2> DEFINE f == [type |-> type, left |-> ReadUnsigned(m_index + 1),
                   key |-> <<>>, items |-> <<>>]
  <2>1. CASE Fails(m_index + 1)
    BY <1>5, <1>10, <2>1, FailsTyped DEF PopContainer
  <2>2. CASE /\ CanRead(m_index + 1, 2) /\ frames' = <<f>> \o frames
             /\ UNCHANGED doing
    <3>1. m_index + 1 \in Nat /\ m_index + 1 <= Size
      BY <1>10, SignatureAllowed DEF PopContainer
    <3>2. ReadUnsigned(m_index + 1) \in Nat
      BY <2>2, <3>1, ReadAllowed, LengthType
    <3>3. Frame(f)
      BY <3>2 DEF Frame
    <3> HIDE DEF f
    <3>4. Stack(frames')
      BY <1>5, <1>10, <2>2, <3>3, StackPush DEF PopContainer
    <3> QED
      BY <1>5, <1>10, <2>2, <3>4 DEF PopContainer, StackKept
  <2> QED
    BY <1>10, <2>1, <2>2 DEF PopContainer
<1>11. CASE PopContainerEnds
  <2>1. /\ doing = "pop" /\ todo' = todo /\ frames # <<>>
        /\ Delivers(Variant(Head(frames).type, <<>>, Head(frames).items),
                    m_index, Tail(frames))
    BY <1>11 DEF PopContainerEnds, StackKept
  <2>2. Stack(Tail(frames)) /\ Asking(Tail(frames))
    BY <2>1, StackTail DEF StackKept
  <2> QED
    BY <2>1, <2>2, DeliversTyped
<1> QED
  BY <1>1, <1>2, <1>3, <1>4, <1>6, <1>7, <1>8, <1>9, <1>10, <1>11 DEF SerializerNext

(* The array holds bytes, and each popList() and popMap() under way still  *)
(* has as many values to read as it says: the inner ones never take one    *)
(* from a caller that has none left.                                       *)
THEOREM SerializerTyped == SerializerSpec => []SerializerTypeOK
<1>1. SerializerInit => Inside /\ StackKept
  BY InsideInit, StackEmpty DEF SerializerInit, StackKept
<1>2. Inside /\ StackKept /\ [SerializerNext]_serializerVars => Inside' /\ StackKept'
  BY InsideStep, StackStep
<1>3. Inside /\ StackKept => SerializerTypeOK
  BY DEF Inside, StackKept, Stack, Frame, SerializerTypeOK
<1> QED
  BY <1>1, <1>2, <1>3, PTL DEF SerializerSpec

-----------------------------------------------------------------------------
(* Bytes that are as pushValue() writes them.                              *)

(* The array a, as far as it goes, has the bytes h after the first p.      *)
Agree(a, p, h) == \A j \in 1 .. Len(h) : p + j <= Len(a) => a[p + j] = h[j]

(* One pushValue(), with s still to be written, and then t.                *)
Written(a, p, s, q, t) ==
  /\ s # <<>>
  /\ t = Head(s).items \o Tail(s)
  /\ q = p + Len(Header(Head(s)))
  /\ Agree(a, p, Header(Head(s)))

(* So have as many of them as take s to t, from p to q.                    *)
Path(a, n, ss, ps) ==
  /\ ss \in [0 .. n -> Seq(Values)]
  /\ ps \in [0 .. n -> Nat]
  /\ \A i, j \in 0 .. n : i <= j => ps[i] <= ps[j]
  /\ \A i \in 0 .. n - 1 : Written(a, ps[i], ss[i], ps[i + 1], ss[i + 1])

Lay(a, p, s, q, t) ==
  \E n \in Nat : \E ss, ps :
    /\ Path(a, n, ss, ps)
    /\ ss[0] = s /\ ps[0] = p
    /\ ss[n] = t /\ ps[n] = q

LEMMA LayNothing ==
  ASSUME NEW a, NEW p \in Nat, NEW s \in Seq(Values)
  PROVE  Lay(a, p, s, p, s)
<1> DEFINE ss == [i \in 0 .. 0 |-> s]
           ps == [i \in 0 .. 0 |-> p]
<1>1. ss \in [0 .. 0 -> Seq(Values)] /\ ps \in [0 .. 0 -> Nat] /\ ss[0] = s /\ ps[0] = p
  OBVIOUS
<1>2. \A i \in 0 .. 0 - 1 : FALSE
  OBVIOUS
<1>3. Path(a, 0, ss, ps)
  BY <1>1, <1>2 DEF Path
<1> HIDE DEF ss, ps
<1> QED
  BY <1>1, <1>3 DEF Lay

LEMMA LayTypes ==
  ASSUME NEW a, NEW p, NEW s, NEW q, NEW t, Lay(a, p, s, q, t)
  PROVE  p \in Nat /\ q \in Nat /\ p <= q /\ s \in Seq(Values) /\ t \in Seq(Values)
<1>0. PICK n \in Nat : \E ss, ps :
        /\ Path(a, n, ss, ps) /\ ss[0] = s /\ ps[0] = p /\ ss[n] = t /\ ps[n] = q
  BY DEF Lay
<1>1. PICK ss, ps :
        /\ Path(a, n, ss, ps) /\ ss[0] = s /\ ps[0] = p /\ ss[n] = t /\ ps[n] = q
  BY <1>0
<1>2. 0 \in 0 .. n /\ n \in 0 .. n /\ 0 <= n
  OBVIOUS
<1> QED
  BY <1>1, <1>2 DEF Path

LEMMA LayLast ==
  ASSUME NEW a, NEW p, NEW s, NEW q, NEW t, Lay(a, p, s, q, t),
         NEW r \in Nat, NEW u \in Seq(Values), Written(a, q, t, r, u), q <= r
  PROVE  Lay(a, p, s, r, u)
<1>0. PICK n \in Nat : \E ss, ps :
        /\ Path(a, n, ss, ps) /\ ss[0] = s /\ ps[0] = p /\ ss[n] = t /\ ps[n] = q
  BY DEF Lay
<1>1. PICK ss, ps :
        /\ Path(a, n, ss, ps) /\ ss[0] = s /\ ps[0] = p /\ ss[n] = t /\ ps[n] = q
  BY <1>0
<1> DEFINE us == [i \in 0 .. n + 1 |-> IF i <= n THEN ss[i] ELSE u]
           rs == [i \in 0 .. n + 1 |-> IF i <= n THEN ps[i] ELSE r]
<1>2. /\ ss \in [0 .. n -> Seq(Values)] /\ ps \in [0 .. n -> Nat]
      /\ \A i, j \in 0 .. n : i <= j => ps[i] <= ps[j]
      /\ \A i \in 0 .. n - 1 : Written(a, ps[i], ss[i], ps[i + 1], ss[i + 1])
  BY <1>1 DEF Path
<1>3. us \in [0 .. n + 1 -> Seq(Values)] /\ rs \in [0 .. n + 1 -> Nat]
  BY <1>2
<1>4. /\ \A i \in 0 .. n : us[i] = ss[i] /\ rs[i] = ps[i]
      /\ us[n + 1] = u /\ rs[n + 1] = r
  OBVIOUS
<1> HIDE DEF us, rs
<1>5. \A i, j \in 0 .. n + 1 : i <= j => rs[i] <= rs[j]
  <2>1. ASSUME NEW i \in 0 .. n PROVE rs[i] = ps[i] /\ rs[i] <= r
    <3>1. rs[i] = ps[i] /\ ps[i] \in Nat /\ ps[i] <= q
      BY <1>1, <1>2, <1>4
    <3>2. q \in Nat
      BY LayTypes
    <3> QED
      BY <3>1, <3>2
  <2>2. rs[n + 1] = r
    BY <1>4
  <2>3. ASSUME NEW i \in 0 .. n + 1, NEW j \in 0 .. n + 1, i <= j
        PROVE  rs[i] <= rs[j]
    <3>1. CASE j \in 0 .. n
      <4>1. i \in 0 .. n
        BY <2>3, <3>1
      <4>2. ps[i] <= ps[j]
        BY <1>2, <2>3, <3>1, <4>1
      <4> QED
        BY <2>1, <3>1, <4>1, <4>2
    <3>2. CASE j = n + 1 /\ i \in 0 .. n
      BY <2>1, <2>2, <3>2
    <3>3. CASE i = n + 1 /\ j = n + 1
      BY <2>2, <3>3
    <3> QED
      BY <2>3, <3>1, <3>2, <3>3
  <2> QED
    BY <2>3
<1>6. ASSUME NEW i \in 0 .. n
      PROVE  Written(a, rs[i], us[i], rs[i + 1], us[i + 1])
  <2>1. CASE i = n
    BY <1>1, <1>4, <2>1
  <2>2. CASE i \in 0 .. n - 1
    <3>1. i + 1 \in 0 .. n
      BY <2>2
    <3> QED
      BY <1>2, <1>4, <2>2, <3>1
  <2> QED
    BY <2>1, <2>2
<1>7. Path(a, n + 1, us, rs)
  BY <1>3, <1>5, <1>6 DEF Path
<1>8. us[0] = s /\ rs[0] = p
  BY <1>1, <1>4
<1> QED
  BY <1>4, <1>7, <1>8 DEF Lay

LEMMA LayFirst ==
  ASSUME NEW a, NEW p, NEW s, NEW q, NEW t, Lay(a, p, s, q, t), p # q \/ s # t
  PROVE  /\ s # <<>>
         /\ Agree(a, p, Header(Head(s)))
         /\ Lay(a, p + Len(Header(Head(s))), Head(s).items \o Tail(s), q, t)
<1>0. PICK n \in Nat : \E ss, ps :
        /\ Path(a, n, ss, ps) /\ ss[0] = s /\ ps[0] = p /\ ss[n] = t /\ ps[n] = q
  BY DEF Lay
<1>1. PICK ss, ps :
        /\ Path(a, n, ss, ps) /\ ss[0] = s /\ ps[0] = p /\ ss[n] = t /\ ps[n] = q
  BY <1>0
<1>2. /\ ss \in [0 .. n -> Seq(Values)] /\ ps \in [0 .. n -> Nat]
      /\ \A i, j \in 0 .. n : i <= j => ps[i] <= ps[j]
      /\ \A i \in 0 .. n - 1 : Written(a, ps[i], ss[i], ps[i + 1], ss[i + 1])
  BY <1>1 DEF Path
<1>3. n # 0 /\ n - 1 \in Nat
  BY <1>1
<1>4. Written(a, p, s, ps[1], ss[1])
  BY <1>1, <1>2, <1>3
<1> DEFINE us == [i \in 0 .. n - 1 |-> ss[i + 1]]
           rs == [i \in 0 .. n - 1 |-> ps[i + 1]]
<1>5. us \in [0 .. n - 1 -> Seq(Values)] /\ rs \in [0 .. n - 1 -> Nat]
  BY <1>2
<1>6. \A i \in 0 .. n - 1 : us[i] = ss[i + 1] /\ rs[i] = ps[i + 1]
  OBVIOUS
<1> HIDE DEF us, rs
<1>7. \A i, j \in 0 .. n - 1 : i <= j => rs[i] <= rs[j]
  BY <1>2, <1>6
<1>8. ASSUME NEW i \in 0 .. (n - 1) - 1
      PROVE  Written(a, rs[i], us[i], rs[i + 1], us[i + 1])
  <2>1. i + 1 \in 0 .. n - 1 /\ i \in 0 .. n - 1 /\ (i + 1) + 1 = i + 2
    BY <1>3
  <2>2. Written(a, ps[i + 1], ss[i + 1], ps[(i + 1) + 1], ss[(i + 1) + 1])
    BY <1>2, <2>1
  <2> QED
    BY <1>6, <2>1, <2>2
<1>9. Path(a, n - 1, us, rs)
  BY <1>5, <1>7, <1>8 DEF Path
<1>10. us[0] = ss[1] /\ rs[0] = ps[1] /\ us[n - 1] = t /\ rs[n - 1] = q
  BY <1>1, <1>3, <1>6
<1>11. Lay(a, ps[1], ss[1], q, t)
  BY <1>3, <1>9, <1>10 DEF Lay
<1> QED
  BY <1>4, <1>11 DEF Written

(* The bytes between p and q are those b places before in c, as far as c   *)
(* goes.                                                                   *)
LEMMA LayMoved ==
  ASSUME NEW a, NEW p, NEW s, NEW q, NEW t, Lay(a, p, s, q, t),
         NEW c, Len(c) \in Nat, NEW b \in Nat, b <= p,
         \A i \in p + 1 .. q : i - b <= Len(c) => i <= Len(a) /\ c[i - b] = a[i]
  PROVE  Lay(c, p - b, s, q - b, t)
<1>0. PICK n \in Nat : \E ss, ps :
        /\ Path(a, n, ss, ps) /\ ss[0] = s /\ ps[0] = p /\ ss[n] = t /\ ps[n] = q
  BY DEF Lay
<1>1. PICK ss, ps :
        /\ Path(a, n, ss, ps) /\ ss[0] = s /\ ps[0] = p /\ ss[n] = t /\ ps[n] = q
  BY <1>0
<1>2. /\ ss \in [0 .. n -> Seq(Values)] /\ ps \in [0 .. n -> Nat]
      /\ \A i, j \in 0 .. n : i <= j => ps[i] <= ps[j]
      /\ \A i \in 0 .. n - 1 : Written(a, ps[i], ss[i], ps[i + 1], ss[i + 1])
  BY <1>1 DEF Path
<1>3. \A i \in 0 .. n : ps[i] \in Nat /\ p <= ps[i] /\ ps[i] <= q
  BY <1>1, <1>2
<1> DEFINE rs == [i \in 0 .. n |-> ps[i] - b]
<1>4. rs \in [0 .. n -> Nat]
  <2>1. p \in Nat
    BY LayTypes
  <2>2. ASSUME NEW i \in 0 .. n PROVE ps[i] - b \in Nat
    BY <1>3, <2>1
  <2> QED
    BY <2>2
<1>5. \A i \in 0 .. n : rs[i] = ps[i] - b
  OBVIOUS
<1> HIDE DEF rs
<1>6. \A i, j \in 0 .. n : i <= j => rs[i] <= rs[j]
  BY <1>2, <1>3, <1>5
<1>7. ASSUME NEW i \in 0 .. n - 1
      PROVE  Written(c, rs[i], ss[i], rs[i + 1], ss[i + 1])
  <2> DEFINE h == Header(Head(ss[i]))
  <2>1. i \in 0 .. n /\ i + 1 \in 0 .. n
    OBVIOUS
  <2>2. /\ ss[i] # <<>> /\ ss[i + 1] = Head(ss[i]).items \o Tail(ss[i])
        /\ ps[i + 1] = ps[i] + Len(h) /\ Agree(a, ps[i], h)
    BY <1>2 DEF Written
  <2>3. Len(h) \in Nat
    <3>1. ss[i] \in Seq(Values)
      BY <1>2, <2>1
    <3>2. Header(Head(ss[i])) \in Seq(Byte)
      BY <2>2, <3>1, HeadTailProperties, HeaderType
    <3> QED
      BY <3>2, LenProperties
  <2> HIDE DEF h
  <2>4. rs[i + 1] = rs[i] + Len(h)
    BY <1>3, <1>5, <2>1, <2>2, <2>3
  <2>5. ASSUME NEW j \in 1 .. Len(h), rs[i] + j <= Len(c) PROVE c[rs[i] + j] = h[j]
    <3>0. /\ ps[i] \in Nat /\ p <= ps[i] /\ p \in Nat /\ q \in Nat
          /\ rs[i] = ps[i] - b /\ ps[i] + Len(h) <= q
      BY <1>3, <1>5, <2>1, <2>2, LayTypes
    <3>1. ps[i] + j \in p + 1 .. q /\ (ps[i] + j) - b = rs[i] + j
      BY <2>3, <3>0
    <3>2. ps[i] + j <= Len(a) /\ c[rs[i] + j] = a[ps[i] + j]
      BY <2>5, <3>1
    <3> QED
      BY <2>2, <3>2 DEF Agree
  <2> QED
    BY <2>2, <2>4, <2>5 DEF Written, Agree, h
<1>8. Path(c, n, ss, rs)
  BY <1>2, <1>4, <1>6, <1>7 DEF Path
<1>9. rs[0] = p - b /\ rs[n] = q - b
  BY <1>1, <1>5
<1> QED
  BY <1>1, <1>8, <1>9 DEF Lay

-----------------------------------------------------------------------------
(* Where the whole values end.                                             *)
Recorded == [value : {Kept[v] : v \in Values}, end : Nat]

EndOf(w, k) == IF k = 0 THEN 0 ELSE w[k].end

Entries(w) ==
  /\ w \in Seq(Recorded)
  /\ \A j, k \in 0 .. Len(w) : j < k => EndOf(w, j) < EndOf(w, k)

BeforeIn(w, at) == Cardinality({i \in DOMAIN w : w[i].end <= at})
BoundaryIn(w, at) == at = 0 \/ \E i \in DOMAIN w : w[i].end = at
PositionIn(w, at) == IF BoundaryIn(w, at) THEN BeforeIn(w, at) ELSE -1

LEMMA EndType ==
  ASSUME NEW w, Entries(w), NEW k \in 0 .. Len(w)
  PROVE  EndOf(w, k) \in Nat /\ (k # 0 => w[k] \in Recorded /\ EndOf(w, k) = w[k].end)
<1>1. w \in Seq(Recorded)
  BY DEF Entries
<1>2. CASE k # 0
  <2>1. k \in 1 .. Len(w)
    BY <1>1, <1>2, LenProperties
  <2>2. w[k] \in Recorded
    BY <1>1, <2>1, ElementOfSeq
  <2> QED
    BY <1>2, <2>2 DEF EndOf, Recorded
<1> QED
  BY <1>2 DEF EndOf

LEMMA FirstOnes ==
  ASSUME NEW n \in Nat
  PROVE  IsFiniteSet(1 .. n) /\ Cardinality(1 .. n) = n
<1>1. IsFiniteSet(1 .. n) /\ Cardinality(1 .. n) = IF 1 > n THEN 0 ELSE n - 1 + 1
  BY FS_Interval
<1> QED
  BY <1>1

(* The number of values that end at a place or before tells which.         *)
LEMMA BeforeIs ==
  ASSUME NEW w, Entries(w), NEW at \in Nat
  PROVE  /\ BeforeIn(w, at) \in 0 .. Len(w)
         /\ \A k \in 0 .. Len(w) : EndOf(w, k) <= at <=> k <= BeforeIn(w, at)
<1> DEFINE S == {i \in DOMAIN w : w[i].end <= at}
           c == Cardinality(S)
<1>1. Len(w) \in Nat /\ DOMAIN w = 1 .. Len(w)
  BY LenProperties DEF Entries
<1>2. S \subseteq 1 .. Len(w)
  BY <1>1
<1>3. \A k \in 1 .. Len(w) : k \in S <=> EndOf(w, k) <= at
  BY <1>1 DEF EndOf
<1> HIDE DEF S
<1>4. IsFiniteSet(S) /\ c \in Nat /\ c <= Len(w)
  <2>1. IsFiniteSet(1 .. Len(w)) /\ Cardinality(1 .. Len(w)) = Len(w)
    BY <1>1, FirstOnes
  <2>2. IsFiniteSet(S) /\ c <= Len(w)
    BY <1>2, <2>1, FS_Subset
  <2> QED
    BY <2>2, FS_CardinalityType
<1>5. ASSUME NEW k \in 1 .. Len(w), EndOf(w, k) <= at PROVE k <= c
  <2>1. ASSUME NEW j \in 1 .. k PROVE j \in S
    <3>1. j \in 1 .. Len(w) /\ j \in 0 .. Len(w) /\ k \in 0 .. Len(w)
      BY <1>1
    <3>2. EndOf(w, j) \in Nat /\ EndOf(w, k) \in Nat
      BY <3>1, EndType
    <3>3. j # k => EndOf(w, j) < EndOf(w, k)
      BY <3>1 DEF Entries
    <3> QED
      BY <1>3, <1>5, <3>1, <3>2, <3>3
  <2>2. (1 .. k) \in SUBSET S
    BY <2>1
  <2>3. Cardinality(1 .. k) <= c
    BY <1>4, <2>2, FS_Subset
  <2>4. Cardinality(1 .. k) = k
    BY FirstOnes
  <2> QED
    BY <2>3, <2>4
<1>6. ASSUME NEW k \in 1 .. Len(w), ~(EndOf(w, k) <= at) PROVE c <= k - 1
  <2>1. ASSUME NEW j \in S PROVE j \in 1 .. k - 1
    <3>1. j \in 1 .. Len(w) /\ j \in 0 .. Len(w) /\ k \in 0 .. Len(w) /\ EndOf(w, j) <= at
      BY <1>1, <1>2, <1>3
    <3>2. EndOf(w, j) \in Nat /\ EndOf(w, k) \in Nat
      BY <3>1, EndType
    <3>3. k < j => EndOf(w, k) < EndOf(w, j)
      BY <3>1 DEF Entries
    <3> QED
      BY <1>6, <3>1, <3>2, <3>3
  <2>2. S \in SUBSET (1 .. k - 1)
    BY <2>1
  <2>3. IsFiniteSet(1 .. k - 1) /\ Cardinality(1 .. k - 1) = k - 1
    BY FirstOnes
  <2> QED
    BY <2>2, <2>3, FS_Subset
<1>7. EndOf(w, 0) <= at /\ 0 <= c
  BY <1>4 DEF EndOf
<1>8. BeforeIn(w, at) = c
  BY DEF BeforeIn, S
<1>9. \A k \in 0 .. Len(w) : EndOf(w, k) <= at <=> k <= c
  <2>1. ASSUME NEW k \in 1 .. Len(w) PROVE EndOf(w, k) <= at <=> k <= c
    BY <1>4, <1>5, <1>6
  <2> QED
    BY <1>7, <2>1
<1> QED
  BY <1>1, <1>4, <1>8, <1>9

LEMMA BoundaryIs ==
  ASSUME NEW w, Entries(w), NEW at
  PROVE  BoundaryIn(w, at) <=> \E k \in 0 .. Len(w) : EndOf(w, k) = at
<1>1. Len(w) \in Nat /\ DOMAIN w = 1 .. Len(w)
  BY LenProperties DEF Entries
<1> QED
  BY <1>1 DEF BoundaryIn, EndOf

LEMMA PositionOfEnd ==
  ASSUME NEW w, Entries(w), NEW k \in 0 .. Len(w)
  PROVE  BeforeIn(w, EndOf(w, k)) = k /\ PositionIn(w, EndOf(w, k)) = k
<1> DEFINE at == EndOf(w, k)
           b == BeforeIn(w, at)
<1>1. at \in Nat /\ Len(w) \in Nat
  BY EndType, LenProperties DEF Entries
<1>2. b \in 0 .. Len(w) /\ \A j \in 0 .. Len(w) : EndOf(w, j) <= at <=> j <= b
  BY <1>1, BeforeIs
<1>3. k <= b
  BY <1>1, <1>2
<1>4. EndOf(w, b) <= at /\ EndOf(w, b) \in Nat
  BY <1>2, EndType
<1>5. k < b => at < EndOf(w, b)
  BY <1>2 DEF Entries
<1>6. b = k
  BY <1>1, <1>2, <1>3, <1>4, <1>5
<1>7. BoundaryIn(w, at)
  BY BoundaryIs
<1> QED
  BY <1>6, <1>7 DEF PositionIn

LEMMA PositionIs ==
  ASSUME NEW w, Entries(w), NEW at
  PROVE  \/ PositionIn(w, at) = -1 /\ ~BoundaryIn(w, at)
         \/ PositionIn(w, at) \in 0 .. Len(w) /\ EndOf(w, PositionIn(w, at)) = at
<1>1. CASE ~BoundaryIn(w, at)
  BY <1>1 DEF PositionIn
<1>2. CASE BoundaryIn(w, at)
  <2>1. PICK k \in 0 .. Len(w) : EndOf(w, k) = at
    BY <1>2, BoundaryIs
  <2> QED
    BY <2>1, PositionOfEnd
<1> QED
  BY <1>1, <1>2

LEMMA PositionBeyond ==
  ASSUME NEW w, Entries(w), NEW at \in Nat, EndOf(w, Len(w)) < at
  PROVE  PositionIn(w, at) = -1
<1>1. Len(w) \in 0 .. Len(w)
  BY LenProperties DEF Entries
<1>2. EndOf(w, Len(w)) \in Nat
  BY <1>1, EndType
<1>3. ASSUME NEW k \in 0 .. Len(w) PROVE EndOf(w, k) # at
  <2>1. EndOf(w, k) \in Nat /\ (k # Len(w) => k < Len(w))
    BY EndType, <1>1
  <2>2. k < Len(w) => EndOf(w, k) < EndOf(w, Len(w))
    BY <1>1 DEF Entries
  <2> QED
    BY <1>2, <2>1, <2>2
<1>4. ~BoundaryIn(w, at)
  BY <1>3, BoundaryIs
<1> QED
  BY <1>4 DEF PositionIn

-----------------------------------------------------------------------------
(* The equation that defines Kept has one solution, as no Variant is       *)
(* inside itself.                                                          *)
Kept_(of, v) ==
  Variant(v.type,
          IF v.type = "String" THEN SubSeq(v.raw, 1, Len(v.raw) % Unsigned)
                               ELSE v.raw,
          [i \in DOMAIN v.items |-> of[v.items[i]]])

Closed(S) == \A v \in S : \A i \in DOMAIN v.items : v.items[i] \in S
Solves(S, of) == of = [v \in S |-> of[v]] /\ \A v \in S : of[v] = Kept_(of, v)

LEMMA KeptSame ==
  ASSUME NEW v, NEW of, NEW to, \A i \in DOMAIN v.items : of[v.items[i]] = to[v.items[i]]
  PROVE  Kept_(of, v) = Kept_(to, v)
<1>1. [i \in DOMAIN v.items |-> of[v.items[i]]] = [i \in DOMAIN v.items |-> to[v.items[i]]]
  OBVIOUS
<1> QED
  BY <1>1 DEF Kept_

LEMMA SolutionsAgree ==
  ASSUME NEW S \in SUBSET Values, NEW T \in SUBSET Values, Closed(S), Closed(T),
         NEW of, Solves(S, of), NEW to, Solves(T, to)
  PROVE  \A v \in S \cap T : of[v] = to[v]
<1> DEFINE X == {v \in S \cap T : of[v] # to[v]}
<1> SUFFICES ASSUME X # {} PROVE FALSE
  OBVIOUS
<1>1. X \in (SUBSET Values) \ {{}}
  OBVIOUS
<1>2. PICK v \in X : \A i \in DOMAIN v.items : v.items[i] \notin X
  <2> HIDE DEF X
  <2> QED
    BY <1>1, ValuesGrounded
<1>3. \A i \in DOMAIN v.items : of[v.items[i]] = to[v.items[i]]
  BY <1>2 DEF Closed
<1>4. Kept_(of, v) = Kept_(to, v)
  BY <1>3, KeptSame
<1>5. of[v] = Kept_(of, v) /\ to[v] = Kept_(to, v)
  BY DEF Solves
<1> QED
  BY <1>4, <1>5

LEMMA SolutionExists == \E of : Solves(Values, of)
<1> DEFINE Local(v, S, of) == v \in S /\ S \subseteq Values /\ Closed(S) /\ Solves(S, of)
           G == {v \in Values : \E S, of : Local(v, S, of)}
           At(v, x) == \E S, of : Local(v, S, of) /\ x = of[v]
           W == [v \in G |-> CHOOSE x : At(v, x)]
<1>1. ASSUME NEW S, NEW of, S \subseteq Values, Closed(S), Solves(S, of)
      PROVE  S \subseteq G /\ \A v \in S : W[v] = of[v]
  <2>1. ASSUME NEW v \in S PROVE v \in G /\ W[v] = of[v]
    <3>1. Local(v, S, of) /\ v \in G
      BY <1>1
    <3>2. At(v, of[v])
      BY <3>1
    <3>3. ASSUME NEW x, At(v, x) PROVE x = of[v]
      <4>1. PICK T, to : Local(v, T, to) /\ x = to[v]
        BY <3>3
      <4>2. S \in SUBSET Values /\ T \in SUBSET Values /\ v \in S \cap T
        BY <1>1, <4>1
      <4>3. of[v] = to[v]
        BY ONLY <1>1, <4>1, <4>2, SolutionsAgree
      <4> QED
        BY <4>1, <4>3
    <3>4. W[v] = CHOOSE x : At(v, x)
      BY <3>1
    <3> HIDE DEF At, W, Local
    <3> QED
      BY <3>1, <3>2, <3>3, <3>4
  <2> QED
    BY <2>1
<1>2. G \subseteq Values /\ Closed(G) /\ Solves(G, W)
  <2>1. ASSUME NEW v \in G
        PROVE  /\ \A i \in DOMAIN v.items : v.items[i] \in G
               /\ W[v] = Kept_(W, v)
    <3>1. PICK S, of : Local(v, S, of)
      OBVIOUS
    <3>2. v \in S /\ S \subseteq Values /\ Closed(S) /\ Solves(S, of)
      BY <3>1
    <3>3. (\A i \in DOMAIN v.items : v.items[i] \in S) /\ of[v] = Kept_(of, v)
      BY <3>2 DEF Closed, Solves
    <3> HIDE DEF W, G
    <3>4. S \subseteq G /\ \A u \in S : W[u] = of[u]
      BY ONLY <1>1, <3>2
    <3>5. Kept_(of, v) = Kept_(W, v)
      BY <3>3, <3>4, KeptSame
    <3> QED
      BY <3>2, <3>3, <3>4, <3>5
  <2>2. W = [v \in G |-> W[v]]
    OBVIOUS
  <2>3. G \subseteq Values
    OBVIOUS
  <2> HIDE DEF G, W
  <2> QED
    BY <2>1, <2>2, <2>3 DEF Closed, Solves
<1>3. G = Values
  <2> DEFINE T == Values \ G
  <2> SUFFICES ASSUME T # {} PROVE FALSE
    BY <1>2
  <2>1. T \in (SUBSET Values) \ {{}}
    OBVIOUS
  <2>2. PICK c \in T : \A i \in DOMAIN c.items : c.items[i] \notin T
    <3> HIDE DEF T
    <3> QED
      BY <2>1, ValuesGrounded
  <2>3. c \in Values /\ c \notin G /\ \A i \in DOMAIN c.items : c.items[i] \in G
    <3>1. c \in Values /\ c.items \in Seq(Values)
      BY ValueType
    <3>2. \A i \in DOMAIN c.items : c.items[i] \in Values
      BY <3>1, LenProperties, ElementOfSeq
    <3> QED
      BY <2>2, <3>1, <3>2
  <2> DEFINE S == G \cup {c}
             of == [v \in S |-> IF v = c THEN Kept_(W, c) ELSE W[v]]
  <2>4. S \subseteq Values /\ Closed(S) /\ c \in S
    BY <1>2, <2>3 DEF Closed
  <2>5. \A v \in G : of[v] = W[v]
    BY <2>3
  <2>6. of[c] = Kept_(W, c) /\ of = [v \in S |-> of[v]]
    OBVIOUS
  <2>7. \A v \in G : W[v] = Kept_(W, v)
    BY <1>2 DEF Solves
  <2> HIDE DEF G, W, of
  <2>8. ASSUME NEW v \in S PROVE of[v] = Kept_(of, v)
    <3>1. \A i \in DOMAIN v.items : v.items[i] \in G
      BY <1>2, <2>3 DEF Closed
    <3>2. Kept_(of, v) = Kept_(W, v)
      BY <2>5, <3>1, KeptSame
    <3> QED
      BY <2>5, <2>6, <2>7, <3>2
  <2>9. Solves(S, of)
    BY <2>6, <2>8 DEF Solves
  <2>10. c \in G
    BY <2>3, <2>4, <2>9 DEF G
  <2> QED
    BY <2>3, <2>10
<1> HIDE DEF G, W
<1>4. Solves(Values, W)
  BY <1>2, <1>3
<1> QED
  BY <1>4

LEMMA KeptIs ==
  ASSUME NEW v \in Values
  PROVE  Kept[v] = Kept_(Kept, v)
<1> DEFINE Equation(of) ==
      of = [u \in Values |->
              Variant(u.type,
                      IF u.type = "String" THEN SubSeq(u.raw, 1, Len(u.raw) % Unsigned)
                                           ELSE u.raw,
                      [i \in DOMAIN u.items |-> of[u.items[i]]])]
<1>1. \E of : Equation(of)
  <2>1. PICK of : Solves(Values, of)
    BY SolutionExists
  <2>2. Equation(of)
    BY <2>1 DEF Solves, Kept_
  <2> HIDE DEF Equation
  <2> QED
    BY <2>2
<1>2. Kept = CHOOSE of : Equation(of)
  BY DEF Kept
<1>3. Equation(Kept)
  <2> HIDE DEF Equation
  <2> QED
    BY <1>1, <1>2
<1> QED
  BY <1>3 DEF Kept_

-----------------------------------------------------------------------------
(* A list or a map, and the keys of a map, have fewer elements and         *)
(* characters than an unsigned can count.                                  *)
Count(v) == IF v.type = "Map" THEN Len(v.items) \div 2 ELSE Len(v.items)

Short(v) ==
  /\ Count(v) < Unsigned
  /\ v.type = "Map" => \A i \in DOMAIN v.items :
                         i % 2 = 1 => Len(v.items[i].raw) < Unsigned

AllShort == \A v \in Values : Short(v)

LEMMA KeptFields ==
  ASSUME NEW v \in Values
  PROVE  /\ Kept[v].type = v.type
         /\ Kept[v].raw = IF v.type = "String" THEN SubSeq(v.raw, 1, Len(v.raw) % Unsigned)
                                               ELSE v.raw
         /\ Kept[v] = Variant(Kept[v].type, Kept[v].raw, Kept[v].items)
         /\ Kept[v].items \in Seq({Kept[u] : u \in Values})
         /\ Len(Kept[v].items) = Len(v.items)
         /\ \A i \in 1 .. Len(v.items) :
              v.items[i] \in Values /\ Kept[v].items[i] = Kept[v.items[i]]
<1> DEFINE items == [i \in DOMAIN v.items |-> Kept[v.items[i]]]
<1>1. v.items \in Seq(Values)
  BY ValueType
<1>2. DOMAIN v.items = 1 .. Len(v.items) /\ Len(v.items) \in Nat
  BY <1>1, LenProperties
<1>3. \A i \in 1 .. Len(v.items) : v.items[i] \in Values
  BY <1>1, ElementOfSeq
<1>4. /\ Kept[v].type = v.type
      /\ Kept[v].raw = IF v.type = "String" THEN SubSeq(v.raw, 1, Len(v.raw) % Unsigned)
                                            ELSE v.raw
      /\ Kept[v].items = items
      /\ Kept[v] = Variant(Kept[v].type, Kept[v].raw, Kept[v].items)
  <2>1. Kept[v] = Variant(v.type,
                          IF v.type = "String" THEN SubSeq(v.raw, 1, Len(v.raw) % Unsigned)
                                               ELSE v.raw, items)
    BY KeptIs DEF Kept_
  <2> HIDE DEF items
  <2> QED
    BY <2>1 DEF Variant
<1>5. items = [i \in 1 .. Len(v.items) |-> Kept[v.items[i]]]
  BY <1>2
<1>6. items \in Seq({Kept[u] : u \in Values}) /\ Len(items) = Len(v.items)
  BY <1>2, <1>3, <1>5
<1>7. \A i \in 1 .. Len(v.items) : items[i] = Kept[v.items[i]]
  BY <1>5
<1> QED
  BY <1>3, <1>4, <1>6, <1>7

LEMMA VariantOfType ==
  ASSUME NEW v \in Values
  PROVE  IsVariant(v)
BY SerializerAssumption

LEMMA LessIrreflexive ==
  ASSUME NEW a \in Seq(Byte), NEW b \in Seq(Byte), Less(a, b)
  PROVE  a # b
<1> SUFFICES ASSUME a = b PROVE FALSE
  OBVIOUS
<1>1. PICK n \in 0 .. Len(b) - 1 : n < Len(a) => a[n + 1] < b[n + 1]
  BY DEF Less
<1>2. Len(b) \in Nat
  BY LenProperties
<1>3. n < Len(a) /\ n + 1 \in 1 .. Len(b)
  BY <1>1, <1>2
<1>4. b[n + 1] \in Byte /\ Base \in Nat
  BY <1>3, ElementOfSeq, ConstantTypes
<1>5. b[n + 1] \in Int
  BY <1>4 DEF Byte
<1> QED
  BY <1>1, <1>3, <1>5

(* The keys of a map come in their order, and are not cut.                 *)
LEMMA KeyIs ==
  ASSUME AllShort, NEW w \in Values, w.type = "Map", NEW i \in 1 .. Len(w.items), i % 2 = 1
  PROVE  Kept[w].items[i].type = "String" /\ Kept[w].items[i].raw = w.items[i].raw
<1> DEFINE k == w.items[i]
<1>1. DOMAIN w.items = 1 .. Len(w.items) /\ k \in Values /\ Kept[w].items[i] = Kept[k]
  BY KeptFields, ValueType, LenProperties
<1>2. k.type = "String"
  BY <1>1, VariantOfType DEF IsVariant
<1>3. Len(k.raw) < Unsigned
  BY <1>1 DEF AllShort, Short
<1>4. k.raw \in Seq(Byte) /\ Len(k.raw) \in Nat
  BY <1>1, ValueType, LenProperties
<1>5. Len(k.raw) % Unsigned = Len(k.raw)
  BY <1>3, <1>4, ConstantTypes, ModSmall
<1>6. SubSeq(k.raw, 1, Len(k.raw)) = k.raw
  BY <1>4, SubSeqFull
<1>7. Kept[k].type = "String" /\ Kept[k].raw = k.raw
  <2> HIDE DEF k
  <2> QED
    BY <1>1, <1>2, <1>5, <1>6, KeptFields
<1> QED
  BY <1>1, <1>7

LEMMA KeysAscend ==
  ASSUME AllShort, NEW w \in Values, w.type = "Map",
         NEW i \in 1 .. Len(w.items), i % 2 = 1,
         NEW j \in 1 .. Len(w.items), j % 2 = 1, i < j
  PROVE  /\ Less(Kept[w].items[i].raw, Kept[w].items[j].raw)
         /\ Kept[w].items[i] # Kept[w].items[j]
<1>1. DOMAIN w.items = 1 .. Len(w.items) /\ Len(w.items) \in Nat
  BY ValueType, LenProperties
<1>2. j \in i + 1 .. Len(w.items)
  BY <1>1
<1>3. Less(w.items[i].raw, w.items[j].raw)
  BY <1>1, <1>2, VariantOfType DEF IsVariant
<1>4. w.items[i].raw \in Seq(Byte) /\ w.items[j].raw \in Seq(Byte)
  BY KeptFields, ValueType
<1>5. w.items[i].raw # w.items[j].raw
  BY <1>3, <1>4, LessIrreflexive
<1> QED
  BY <1>3, <1>5, KeyIs

(* map[key] = v adds the key and its value to those that came before.      *)
LEMMA PutNext ==
  ASSUME AllShort, NEW w \in Values, w.type = "Map",
         NEW m \in Nat, 2 * m + 2 <= Len(w.items),
         NEW K, K = Kept[w].items
  PROVE  Put(SubSeq(K, 1, 2 * m), K[2 * m + 1], K[2 * m + 2]) = SubSeq(K, 1, 2 * m + 2)
<1> DEFINE items == SubSeq(K, 1, 2 * m)
           key == K[2 * m + 1]
           v == K[2 * m + 2]
           S == {Kept[u] : u \in Values}
<1>1. Len(w.items) \in Nat
  BY ValueType, LenProperties
<1>2. K \in Seq(S) /\ Len(K) = Len(w.items)
  BY KeptFields
<1> HIDE DEF S
<1>3. items \in Seq(S) /\ Len(items) = 2 * m
  BY <1>1, <1>2, SubSeqType
<1>4. \A i \in 1 .. 2 * m : items[i] = K[i]
  BY <1>1, <1>2
<1>5. Len(items) \div 2 = m
  BY <1>3
<1>6. ASSUME NEW i \in 1 .. m
      PROVE  Less(items[2 * i - 1].raw, key.raw) /\ items[2 * i - 1] # key
  <2>1. /\ 2 * i - 1 \in 1 .. Len(w.items) /\ 2 * m + 1 \in 1 .. Len(w.items)
        /\ (2 * i - 1) % 2 = 1 /\ (2 * m + 1) % 2 = 1
        /\ 2 * i - 1 < 2 * m + 1 /\ 2 * i - 1 \in 1 .. 2 * m
    BY <1>1
  <2>2. items[2 * i - 1] = K[2 * i - 1]
    BY <1>4, <2>1
  <2> QED
    BY <2>1, <2>2, KeysAscend
<1> HIDE DEF items, key, v
<1> DEFINE less == {i \in 1 .. Len(items) \div 2 : Less(items[2 * i - 1].raw, key.raw)}
           same == {i \in 1 .. Len(items) \div 2 : items[2 * i - 1] = key}
<1>7. less = 1 .. m /\ same = {}
  BY <1>5, <1>6
<1>8. Cardinality(1 .. m) = m /\ Cardinality({}) = 0
  BY FirstOnes, FS_EmptySet
<1>9. Put(items, key, v)
        = SubSeq(items, 1, 2 * Cardinality(less)) \o <<key, v>>
            \o SubSeq(items, 2 * Cardinality(less) + 2 * Cardinality(same) + 1, Len(items))
  BY DEF Put
<1> HIDE DEF less, same
<1>10. Put(items, key, v) = SubSeq(items, 1, 2 * m) \o <<key, v>>
                              \o SubSeq(items, 2 * m + 2 * 0 + 1, 2 * m)
  BY <1>3, <1>7, <1>8, <1>9
<1>11. SubSeq(items, 1, 2 * m) = items
  BY <1>3, SubSeqFull
<1>12. SubSeq(items, 2 * m + 2 * 0 + 1, 2 * m) = <<>>
  <2>1. 2 * m + 2 * 0 + 1 \in Int /\ 2 * m \in Int /\ 2 * m < 2 * m + 2 * 0 + 1
    OBVIOUS
  <2> QED
    BY <2>1, SubSeqEmpty
<1>13. key \in S /\ v \in S
  BY <1>1, <1>2, ElementOfSeq DEF key, v
<1>14. <<key, v>> \in Seq(S) /\ items \o <<key, v>> \in Seq(S)
  BY <1>3, <1>13, ConcatProperties
<1>15. Put(items, key, v) = items \o <<key, v>>
  BY <1>10, <1>11, <1>12, <1>14, ConcatEmptySeq
<1>16. SubSeq(K, 2 * m + 1, 2 * m + 2) = <<key, v>>
  <2>1. /\ SubSeq(K, 2 * m + 1, 2 * m + 2) \in Seq(S)
        /\ Len(SubSeq(K, 2 * m + 1, 2 * m + 2)) = 2
    BY <1>1, <1>2, SubSeqType
  <2>2. /\ SubSeq(K, 2 * m + 1, 2 * m + 2)[1] = key
        /\ SubSeq(K, 2 * m + 1, 2 * m + 2)[2] = v
    BY <1>1, <1>2 DEF key, v
  <2>3. Len(<<key, v>>) = 2 /\ <<key, v>>[1] = key /\ <<key, v>>[2] = v
    OBVIOUS
  <2>4. \A i \in 1 .. 2 : SubSeq(K, 2 * m + 1, 2 * m + 2)[i] = <<key, v>>[i]
    BY <2>2, <2>3
  <2> QED
    BY <1>14, <2>1, <2>3, <2>4, SeqEqual
<1>17. items \o SubSeq(K, 2 * m + 1, 2 * m + 2) = SubSeq(K, 1, 2 * m + 2)
  <2>1. /\ 1 \in 1 .. Len(K) + 1 /\ 2 * m \in 0 .. Len(K)
        /\ 2 * m + 2 \in 2 * m .. Len(K)
    BY <1>1, <1>2
  <2> QED
    BY <1>2, <2>1, ConcatAdjacentSubSeq DEF items
<1> QED
  BY <1>15, <1>16, <1>17 DEF items, key, v

-----------------------------------------------------------------------------
(* popList() or popMap(), reading w, has got n of what is in it.           *)
FrameOf(w, n) ==
  [type |-> w.type,
   left |-> IF w.type = "Map" THEN Len(w.items) \div 2 - n \div 2 ELSE Len(w.items) - n,
   key |-> IF w.type = "Map" /\ n % 2 = 1 THEN <<Kept[w].items[n]>> ELSE <<>>,
   items |-> SubSeq(Kept[w].items, 1, IF w.type = "Map" THEN n - (n % 2) ELSE n)]

LEMMA HalfNat ==
  ASSUME NEW n \in Nat
  PROVE  n \div 2 \in Nat /\ n % 2 \in {0, 1}
BY SMT

LEMMA EvenOne ==
  ASSUME NEW n \in Nat, n % 2 = 0
  PROVE  (n + 1) % 2 = 1 /\ (n + 1) \div 2 = n \div 2 /\ (n + 1) - 1 = n /\ n - 0 = n
BY SMT

LEMMA OddOne ==
  ASSUME NEW n \in Nat, n % 2 = 1
  PROVE  \E m \in Nat : /\ n = 2 * m + 1 /\ n \div 2 = m /\ n - 1 = 2 * m
                        /\ (n + 1) % 2 = 0 /\ (n + 1) - 0 = 2 * m + 2
                        /\ (n + 1) \div 2 = m + 1
<1>1. n \div 2 \in Nat /\ n = 2 * (n \div 2) + 1 /\ n - 1 = 2 * (n \div 2)
  BY SMT
<1>2. /\ (n + 1) % 2 = 0 /\ (n + 1) - 0 = 2 * (n \div 2) + 2
      /\ (n + 1) \div 2 = n \div 2 + 1
  BY SMT
<1> QED
  BY <1>1, <1>2

LEMMA MapSize ==
  ASSUME NEW w \in Values, w.type = "Map"
  PROVE  \E h \in Nat : Len(w.items) = 2 * h /\ Len(w.items) \div 2 = h
<1>1. Len(w.items) \in Nat /\ Len(w.items) % 2 = 0
  BY ValueType, LenProperties, VariantOfType DEF IsVariant
<1> DEFINE n == Len(w.items)
<1> HIDE DEF n
<1>2. n \in Nat /\ n % 2 = 0
  BY <1>1 DEF n
<1>3. n \div 2 \in Nat /\ n = 2 * (n \div 2)
  BY <1>2
<1> QED
  BY <1>3 DEF n

LEMMA FrameStarts ==
  ASSUME NEW w \in Values
  PROVE  FrameOf(w, 0) = [type |-> w.type, left |-> Count(w), key |-> <<>>, items |-> <<>>]
<1>1. Len(w.items) \in Nat /\ Len(w.items) \div 2 \in Nat
  <2>1. Len(w.items) \in Nat
    BY ValueType, LenProperties
  <2> QED
    BY <2>1, HalfNat
<1>2. SubSeq(Kept[w].items, 1, 0) = <<>>
  BY SubSeqEmpty
<1>3. 0 % 2 = 0 /\ 0 \div 2 = 0 /\ 0 - 0 = 0 /\ 0 # 1
  OBVIOUS
<1>4. (IF w.type = "Map" THEN Len(w.items) \div 2 - 0 ELSE Len(w.items) - 0) = Count(w)
  BY <1>1 DEF Count
<1>5. FrameOf(w, 0) =
        [type |-> w.type,
         left |-> IF w.type = "Map" THEN Len(w.items) \div 2 - 0 ELSE Len(w.items) - 0,
         key |-> <<>>,
         items |-> SubSeq(Kept[w].items, 1, 0)]
  BY <1>3 DEF FrameOf
<1> QED
  BY <1>2, <1>4, <1>5

LEMMA FrameLeft ==
  ASSUME NEW w \in Values, NEW n \in 0 .. Len(w.items)
  PROVE  /\ n < Len(w.items) => FrameOf(w, n).left > 0
         /\ n = Len(w.items) => FrameOf(w, n).left = 0
<1>1. Len(w.items) \in Nat
  BY ValueType, LenProperties
<1>2. CASE w.type = "Map"
  <2>1. PICK h \in Nat : Len(w.items) = 2 * h /\ Len(w.items) \div 2 = h
    BY <1>2, MapSize
  <2>2. (n < 2 * h => n \div 2 < h /\ n \div 2 \in Nat) /\ (n = 2 * h => n \div 2 = h)
    BY <1>1
  <2>3. FrameOf(w, n).left = h - n \div 2
    BY <1>2, <2>1 DEF FrameOf
  <2> QED
    BY <2>1, <2>2, <2>3
<1>3. CASE w.type # "Map"
  <2>1. FrameOf(w, n).left = Len(w.items) - n
    BY <1>3 DEF FrameOf
  <2> QED
    BY <1>1, <2>1
<1> QED
  BY <1>2, <1>3

LEMMA FrameEnds ==
  ASSUME NEW w \in Values, w.type \in Containers
  PROVE  Variant(w.type, <<>>, FrameOf(w, Len(w.items)).items) = Kept[w]
<1>1. Len(w.items) \in Nat /\ (w.type = "Map" => Len(w.items) % 2 = 0)
  BY ValueType, LenProperties, VariantOfType DEF IsVariant
<1>2. FrameOf(w, Len(w.items)).items = SubSeq(Kept[w].items, 1, Len(w.items))
  <2>1. Len(w.items) - 0 = Len(w.items)
    BY <1>1
  <2> QED
    BY <1>1, <2>1 DEF FrameOf
<1>3. SubSeq(Kept[w].items, 1, Len(w.items)) = Kept[w].items
  BY KeptFields, SubSeqFull
<1>4. Kept[w].raw = <<>> /\ Kept[w].type = w.type
  <2>1. w.type # "String" /\ w.raw = <<>>
    BY VariantOfType DEF IsVariant, Containers, Scalars
  <2> QED
    BY <2>1, KeptFields
<1> QED
  BY <1>2, <1>3, <1>4, KeptFields

LEMMA FrameReceives ==
  ASSUME AllShort, NEW w \in Values, w.type \in Containers,
         NEW n \in 0 .. Len(w.items), n < Len(w.items)
  PROVE  /\ w.items[n + 1] \in Values
         /\ WantsKey(FrameOf(w, n)) => w.items[n + 1].type = "String"
         /\ Received(FrameOf(w, n), Kept[w.items[n + 1]]) = FrameOf(w, n + 1)
<1> DEFINE K == Kept[w].items
           S == {Kept[u] : u \in Values}
           v == Kept[w.items[n + 1]]
           f == FrameOf(w, n)
           size == Len(w.items)
<1>1. size \in Nat /\ n + 1 \in 1 .. size /\ n \in Nat /\ n < size
  BY ValueType, LenProperties
<1>2. K \in Seq(S) /\ Len(K) = size /\ w.items[n + 1] \in Values /\ K[n + 1] = v
  BY <1>1, KeptFields
<1>3. CASE w.type = "List"
  <2>1. f = [type |-> "List", left |-> size - n, key |-> <<>>, items |-> SubSeq(K, 1, n)]
    BY <1>3 DEF FrameOf
  <2>2. Received(f, v) = [f EXCEPT !.items = Append(@, v), !.left = @ - 1]
    BY <2>1 DEF Received
  <2>3. FrameOf(w, n + 1) = [type |-> "List", left |-> size - (n + 1), key |-> <<>>,
                             items |-> SubSeq(K, 1, n + 1)]
    BY <1>3 DEF FrameOf
  <2> HIDE DEF K, S, v, f, size
  <2>4. Received(f, v) = [type |-> "List", left |-> (size - n) - 1, key |-> <<>>,
                          items |-> Append(SubSeq(K, 1, n), v)]
    BY <2>1, <2>2
  <2>5. Append(SubSeq(K, 1, n), v) = SubSeq(K, 1, n + 1)
    <3>1. n + 1 \in 1 .. Len(K) /\ 1 \in 1 .. Len(K) /\ n + 1 \in 1 .. Len(K)
      BY <1>1, <1>2
    <3>2. SubSeq(K, 1, n + 1) = SubSeq(K, 1, (n + 1) - 1) \o <<K[n + 1]>>
      BY <1>2, <3>1, SubSeqRecursiveSecond
    <3>3. SubSeq(K, 1, n) \in Seq(S) /\ v \in S /\ (n + 1) - 1 = n
      BY <1>1, <1>2, SubSeqType, ElementOfSeq
    <3> QED
      BY <1>2, <3>2, <3>3, AppendIsConcat
  <2>6. (size - n) - 1 = size - (n + 1)
    BY <1>1
  <2>7. ~WantsKey(f)
    BY <2>1 DEF WantsKey
  <2>8. Received(f, v) = FrameOf(w, n + 1)
    BY <2>3, <2>4, <2>5, <2>6
  <2> QED
    BY <1>2, <2>7, <2>8 DEF v, f
<1>4. CASE w.type = "Map" /\ n % 2 = 0
  <2> DEFINE left == size \div 2 - n \div 2
  <2>1. (n + 1) % 2 = 1 /\ (n + 1) \div 2 = n \div 2 /\ (n + 1) - 1 = n /\ n - 0 = n
         /\ 0 # 1
    BY <1>1, <1>4, EvenOne
  <2>2. f = [type |-> "Map", left |-> left, key |-> <<>>, items |-> SubSeq(K, 1, n)]
    BY <1>4, <2>1 DEF FrameOf
  <2>3. Received(f, v) = [f EXCEPT !.key = <<v>>]
    BY <2>2 DEF Received
  <2>4. FrameOf(w, n + 1) = [type |-> "Map", left |-> left, key |-> <<K[n + 1]>>,
                             items |-> SubSeq(K, 1, n)]
    BY <1>4, <2>1 DEF FrameOf
  <2>5. v.type = "String" /\ w.items[n + 1].type = "String"
    <3>1. K[n + 1].type = "String"
      BY <1>1, <1>4, <2>1, KeyIs
    <3> QED
      BY <1>2, <3>1, KeptFields
  <2> HIDE DEF K, S, v, f, left, size
  <2>6. Received(f, v) = [type |-> "Map", left |-> left, key |-> <<v>>,
                          items |-> SubSeq(K, 1, n)]
    BY <2>2, <2>3
  <2>7. Received(f, v) = FrameOf(w, n + 1)
    BY <1>2, <2>4, <2>6
  <2> QED
    BY <1>2, <2>5, <2>7 DEF v, f
<1>5. CASE w.type = "Map" /\ n % 2 = 1
  <2>1. PICK m \in Nat : /\ n = 2 * m + 1 /\ n \div 2 = m /\ n - 1 = 2 * m
                         /\ (n + 1) % 2 = 0 /\ (n + 1) - 0 = 2 * m + 2
                         /\ (n + 1) \div 2 = m + 1
    BY <1>1, <1>5, OddOne
  <2> DEFINE half == size \div 2
             key == K[2 * m + 1]
             items == SubSeq(K, 1, 2 * m)
             next == SubSeq(K, 1, 2 * m + 2)
  <2>2. f = [type |-> "Map", left |-> half - m, key |-> <<key>>, items |-> items]
    BY <1>5, <2>1 DEF FrameOf
  <2>3. <<key>> # <<>> /\ <<key>>[1] = key
    OBVIOUS
  <2>4. FrameOf(w, n + 1) = [type |-> "Map", left |-> half - (m + 1), key |-> <<>>,
                             items |-> next]
    <3>1. 0 # 1
      OBVIOUS
    <3> QED
      BY <1>5, <2>1, <3>1 DEF FrameOf
  <2>5. half \in Nat
    BY <1>1, HalfNat
  <2>6. v = K[2 * m + 2] /\ 2 * m + 2 <= size
    <3>1. n + 1 = 2 * m + 2
      BY <2>1
    <3> QED
      BY <1>1, <1>2, <3>1
  <2>7. Put(items, key, v) = next
    BY <1>5, <2>6, PutNext
  <2> HIDE DEF K, S, v, f, half, key, items, next, size
  <2>8. Received(f, v) = [f EXCEPT !.items = Put(@, f.key[1], v), !.left = @ - 1,
                                   !.key = <<>>]
    BY <2>2, <2>3 DEF Received
  <2>9. Received(f, v) = [type |-> "Map", left |-> (half - m) - 1, key |-> <<>>,
                          items |-> Put(items, <<key>>[1], v)]
    BY <2>2, <2>8
  <2>10. (half - m) - 1 = half - (m + 1)
    BY <2>5
  <2>11. Received(f, v) = FrameOf(w, n + 1)
    BY <2>3, <2>4, <2>7, <2>9, <2>10
  <2>12. ~WantsKey(f)
    BY <2>2, <2>3 DEF WantsKey
  <2> QED
    BY <1>2, <2>11, <2>12 DEF v, f
<1>6. n % 2 \in {0, 1}
  BY <1>1, HalfNat
<1> QED
  BY <1>3, <1>4, <1>5, <1>6 DEF Containers

-----------------------------------------------------------------------------
(* What is still to be read.                                               *)
LEMMA ConsIs ==
  ASSUME NEW S, NEW a \in S, NEW s \in Seq(S)
  PROVE  /\ <<a>> \o s \in Seq(S) /\ <<a>> \o s # <<>>
         /\ Head(<<a>> \o s) = a /\ Tail(<<a>> \o s) = s
         /\ Len(<<a>> \o s) = Len(s) + 1
         /\ (<<a>> \o s)[1] = a
         /\ \A i \in 1 .. Len(s) : (<<a>> \o s)[i + 1] = s[i]
<1> DEFINE c == <<a>> \o s
<1>1. <<a>> \in Seq(S) /\ Len(<<a>>) = 1 /\ <<a>>[1] = a /\ Len(s) \in Nat
  BY LenProperties
<1>2. /\ c \in Seq(S) /\ Len(c) = 1 + Len(s)
      /\ \A i \in 1 .. 1 + Len(s) : c[i] = IF i <= 1 THEN <<a>>[i] ELSE s[i - 1]
  BY <1>1, ConcatProperties
<1> HIDE DEF c
<1>3. c # <<>>
  BY <1>1, <1>2, EmptySeq
<1>4. c[1] = a
  BY <1>1, <1>2
<1>5. \A i \in 1 .. Len(s) : c[i + 1] = s[i]
  BY <1>1, <1>2
<1>6. Head(c) = a
  BY <1>2, <1>3, <1>4
<1>7. Tail(c) = s
  <2>1. /\ Tail(c) \in Seq(S) /\ Len(Tail(c)) = Len(s)
        /\ \A i \in 1 .. Len(Tail(c)) : Tail(c)[i] = c[i + 1]
    BY <1>1, <1>2, <1>3, HeadTailProperties
  <2> QED
    BY <1>5, <2>1, SeqEqual
<1> QED
  BY <1>1, <1>2, <1>3, <1>4, <1>5, <1>6, <1>7 DEF c

LEMMA ConsEqual ==
  ASSUME NEW S, NEW a \in S, NEW s \in Seq(S), NEW b \in S, NEW t \in Seq(S),
         <<a>> \o s = <<b>> \o t
  PROVE  a = b /\ s = t
<1>1. Head(<<a>> \o s) = a /\ Tail(<<a>> \o s) = s
  BY ConsIs
<1>2. Head(<<b>> \o t) = b /\ Tail(<<b>> \o t) = t
  BY ConsIs
<1> QED
  BY <1>1, <1>2

(* A frame f is there for a container that is next in u, and r is what is  *)
(* to be read from the place where f is.                                   *)
Asked(f, r, u) ==
  \E w \in Values, rem \in Seq(Values) :
    /\ w.type \in Containers
    /\ u = <<w>> \o rem
    /\ \E n \in 0 .. Len(w.items) : /\ f = FrameOf(w, n)
                                    /\ r = SubSeq(w.items, n + 1, Len(w.items)) \o rem

Chain(v, fs, us) ==
  /\ us \in Seq(Seq(Values))
  /\ Len(us) = Len(fs) + 1
  /\ us[Len(us)] = <<v>>
  /\ \A i \in 1 .. Len(fs) : Asked(fs[i], us[i], us[i + 1])

(* When popValue() was called to read v, and now has the frames fs, it     *)
(* still has to read r.                                                    *)
Expects(v, fs, r) == \E us : Chain(v, fs, us) /\ r = us[1]

Sequence(fs) == \E S : fs \in Seq(S)

LEMMA ExpectsType ==
  ASSUME NEW v, NEW fs, Sequence(fs), NEW r, Expects(v, fs, r)
  PROVE  r \in Seq(Values)
<1>1. PICK us : Chain(v, fs, us) /\ r = us[1]
  BY DEF Expects
<1>2. Len(fs) \in Nat
  BY LenProperties DEF Sequence
<1>3. 1 \in 1 .. Len(us)
  BY <1>1, <1>2 DEF Chain
<1> QED
  BY <1>1, <1>3, ElementOfSeq DEF Chain

LEMMA ExpectsAtFirst ==
  ASSUME NEW v \in Values
  PROVE  Expects(v, <<>>, <<v>>)
<1> DEFINE us == <<<<v>>>>
<1>1. <<v>> \in Seq(Values)
  OBVIOUS
<1>2. us \in Seq(Seq(Values)) /\ Len(us) = 1 /\ us[1] = <<v>>
  BY <1>1
<1>3. Len(<<>>) = 0 /\ \A i \in 1 .. 0 : FALSE
  OBVIOUS
<1> HIDE DEF us
<1>4. Chain(v, <<>>, us)
  BY <1>2, <1>3 DEF Chain
<1> QED
  BY <1>2, <1>4 DEF Expects

LEMMA ExpectsAtLast ==
  ASSUME NEW v, NEW r, Expects(v, <<>>, r)
  PROVE  r = <<v>>
<1>1. Len(<<>>) + 1 = 1
  OBVIOUS
<1> QED
  BY <1>1 DEF Expects, Chain

LEMMA ExpectsInside ==
  ASSUME NEW v, NEW fs, Sequence(fs), NEW u, Expects(v, fs, u),
         NEW f, NEW r \in Seq(Values), Asked(f, r, u)
  PROVE  Expects(v, <<f>> \o fs, r)
<1>1. PICK us : Chain(v, fs, us) /\ u = us[1]
  BY DEF Expects
<1> DEFINE both == <<f>> \o fs
           all == <<r>> \o us
<1>2. PICK S : fs \in Seq(S) /\ f \in S
  <2>1. PICK T : fs \in Seq(T)
    BY DEF Sequence
  <2>2. fs \in Seq(T \cup {f})
    BY <2>1
  <2> QED
    BY <2>2
<1>3. /\ Len(both) = Len(fs) + 1 /\ both[1] = f /\ Len(fs) \in Nat
      /\ \A i \in 1 .. Len(fs) : both[i + 1] = fs[i]
  BY <1>2, ConsIs, LenProperties
<1>4. /\ us \in Seq(Seq(Values)) /\ Len(us) = Len(fs) + 1 /\ us[Len(us)] = <<v>>
      /\ \A i \in 1 .. Len(fs) : Asked(fs[i], us[i], us[i + 1])
  BY <1>1 DEF Chain
<1>5. /\ all \in Seq(Seq(Values)) /\ Len(all) = Len(us) + 1 /\ all[1] = r
      /\ \A i \in 1 .. Len(us) : all[i + 1] = us[i]
  BY <1>4, ConsIs
<1> HIDE DEF both, all
<1>6. all[Len(all)] = <<v>>
  <2>1. Len(us) \in 1 .. Len(us)
    BY <1>3, <1>4
  <2> QED
    BY <1>4, <1>5, <2>1
<1>7. ASSUME NEW i \in 1 .. Len(both) PROVE Asked(both[i], all[i], all[i + 1])
  <2>1. CASE i = 1
    <3>1. 1 \in 1 .. Len(us)
      BY <1>3, <1>4
    <3> QED
      BY <1>1, <1>3, <1>5, <2>1, <3>1
  <2>2. CASE i # 1
    <3>1. PICK j \in 1 .. Len(fs) : i = j + 1
      <4>1. i - 1 \in 1 .. Len(fs) /\ i = (i - 1) + 1
        BY <1>3, <2>2
      <4> QED
        BY <4>1
    <3>2. j \in 1 .. Len(us) /\ j + 1 \in 1 .. Len(us)
      BY <1>3, <1>4
    <3>3. both[i] = fs[j] /\ all[i] = us[j] /\ all[i + 1] = us[j + 1]
      BY <1>3, <1>5, <3>1, <3>2
    <3> QED
      BY <1>4, <3>3
  <2> QED
    BY <2>1, <2>2
<1>8. Len(all) = Len(both) + 1
  BY <1>3, <1>4, <1>5
<1>9. Chain(v, both, all)
  BY <1>5, <1>6, <1>7, <1>8 DEF Chain
<1> QED
  BY <1>5, <1>9 DEF Expects, both

LEMMA ExpectsOutside ==
  ASSUME NEW v, NEW fs, Sequence(fs), fs # <<>>, NEW r, Expects(v, fs, r)
  PROVE  \E u : Asked(Head(fs), r, u) /\ Expects(v, Tail(fs), u)
<1>1. PICK us : Chain(v, fs, us) /\ r = us[1]
  BY DEF Expects
<1> DEFINE outer == Tail(fs)
           after == Tail(us)
<1>2. PICK S : fs \in Seq(S)
  BY DEF Sequence
<1>3. /\ Len(fs) \in Nat \ {0} /\ Len(outer) = Len(fs) - 1
      /\ \A i \in 1 .. Len(outer) : outer[i] = fs[i + 1]
      /\ Head(fs) = fs[1]
  BY <1>2, EmptySeq, HeadTailProperties
<1>4. /\ us \in Seq(Seq(Values)) /\ Len(us) = Len(fs) + 1 /\ us[Len(us)] = <<v>>
      /\ \A i \in 1 .. Len(fs) : Asked(fs[i], us[i], us[i + 1])
  BY <1>1 DEF Chain
<1>5. us # <<>>
  BY <1>3, <1>4, EmptySeq
<1>6. /\ after \in Seq(Seq(Values)) /\ Len(after) = Len(us) - 1
      /\ \A i \in 1 .. Len(after) : after[i] = us[i + 1]
  BY <1>4, <1>5, HeadTailProperties
<1> HIDE DEF outer, after
<1>7. Len(after) = Len(outer) + 1 /\ Len(after) = Len(fs) /\ Len(us) = Len(fs) + 1
  BY <1>3, <1>4, <1>6
<1>8. after[Len(after)] = <<v>>
  <2>1. Len(after) \in 1 .. Len(after) /\ Len(after) + 1 = Len(us)
    BY <1>3, <1>7
  <2> QED
    BY <1>4, <1>6, <2>1
<1>9. ASSUME NEW i \in 1 .. Len(outer) PROVE Asked(outer[i], after[i], after[i + 1])
  <2>1. i + 1 \in 1 .. Len(fs) /\ i \in 1 .. Len(after) /\ i + 1 \in 1 .. Len(after)
    BY <1>3, <1>7
  <2> QED
    BY <1>3, <1>4, <1>6, <2>1
<1>10. Chain(v, outer, after)
  BY <1>6, <1>7, <1>8, <1>9 DEF Chain
<1>11. after[1] = us[2] /\ Asked(fs[1], us[1], us[2])
  BY <1>3, <1>4, <1>6, <1>7
<1>12. Expects(v, outer, us[2])
  BY <1>10, <1>11 DEF Expects
<1> QED
  BY <1>1, <1>3, <1>11, <1>12 DEF outer

(* The frame of a container that has not got all of them.                  *)
LEMMA NextAsked ==
  ASSUME NEW w \in Values, NEW rem \in Seq(Values), NEW n \in 0 .. Len(w.items),
         n < Len(w.items)
  PROVE  /\ w.items[n + 1] \in Values
         /\ SubSeq(w.items, (n + 1) + 1, Len(w.items)) \o rem \in Seq(Values)
         /\ SubSeq(w.items, n + 1, Len(w.items)) \o rem
              = <<w.items[n + 1]>> \o (SubSeq(w.items, (n + 1) + 1, Len(w.items)) \o rem)
<1>1. w.items \in Seq(Values)
  BY ValueType
<1>2. Len(w.items) \in Nat /\ n + 1 \in 1 .. Len(w.items)
      /\ Len(w.items) \in n + 1 .. Len(w.items)
  BY <1>1, LenProperties
<1> DEFINE later == SubSeq(w.items, (n + 1) + 1, Len(w.items))
<1>3. SubSeq(w.items, n + 1, Len(w.items)) = <<w.items[n + 1]>> \o later
  BY <1>1, <1>2, SubSeqRecursiveFirst
<1>4. w.items[n + 1] \in Values
  BY <1>1, <1>2, ElementOfSeq
<1>5. later \in Seq(Values)
  <2>1. (n + 1) + 1 \in Nat \ {0} /\ Len(w.items) <= Len(w.items)
    BY <1>2
  <2> QED
    BY <1>1, <1>2, <2>1, SubSeqType
<1> HIDE DEF later
<1>6. <<w.items[n + 1]>> \in Seq(Values)
  BY <1>4
<1>7. (<<w.items[n + 1]>> \o later) \o rem = <<w.items[n + 1]>> \o (later \o rem)
  BY <1>5, <1>6, ConcatAssociative
<1>8. later \o rem \in Seq(Values)
  BY <1>5, ConcatProperties
<1> QED
  BY <1>3, <1>4, <1>7, <1>8 DEF later

Something(r) == \E w \in Values, u \in Seq(Values) : r = <<w>> \o u

LEMMA SomethingExpected ==
  ASSUME NEW v \in Values, NEW fs, Sequence(fs), Asking(fs), NEW r, Expects(v, fs, r)
  PROVE  Something(r)
<1>1. CASE fs = <<>>
  <2>1. r = <<v>>
    BY <1>1, ExpectsAtLast
  <2>2. <<>> \in Seq(Values) /\ <<v>> = <<v>> \o <<>>
    OBVIOUS
  <2> QED
    BY <2>1, <2>2 DEF Something
<1>2. CASE fs # <<>>
  <2>1. PICK u : Asked(Head(fs), r, u)
    BY <1>2, ExpectsOutside
  <2>0. PICK w \in Values, rem \in Seq(Values) :
          \E n \in 0 .. Len(w.items) :
            /\ Head(fs) = FrameOf(w, n)
            /\ r = SubSeq(w.items, n + 1, Len(w.items)) \o rem
    BY <2>1 DEF Asked
  <2>2. PICK n \in 0 .. Len(w.items) :
          /\ Head(fs) = FrameOf(w, n)
          /\ r = SubSeq(w.items, n + 1, Len(w.items)) \o rem
    BY <2>0
  <2>3. n < Len(w.items)
    <3>1. Len(w.items) \in Nat
      BY ValueType, LenProperties
    <3>2. n = Len(w.items) => FrameOf(w, n).left = 0
      BY FrameLeft
    <3> QED
      BY <1>2, <2>2, <3>1, <3>2 DEF Asking
  <2> DEFINE x == w.items[n + 1]
             later == SubSeq(w.items, (n + 1) + 1, Len(w.items)) \o rem
  <2>4. x \in Values /\ later \in Seq(Values) /\ r = <<x>> \o later
    BY <2>2, <2>3, NextAsked
  <2> HIDE DEF x, later
  <2> QED
    BY <2>4 DEF Something
<1> QED
  BY <1>1, <1>2

-----------------------------------------------------------------------------
(* A popValue() that has read the next value gives it to the one that      *)
(* asked for it.                                                           *)
LEMMA DeliversNext ==
  ASSUME AllShort, NEW v \in Values, NEW callers, Sequence(callers), Asking(callers),
         NEW w \in Values, NEW u \in Seq(Values), Expects(v, callers, <<w>> \o u),
         NEW index, Delivers(Kept[w], index, callers)
  PROVE  /\ MoveTo(index)
         /\ \/ u = <<>> /\ PopReturns([returned |-> "true", value |-> Kept[v]])
            \/ Expects(v, frames', u) /\ UNCHANGED <<doing, out, begun>>
<1>1. CASE callers = <<>>
  <2>1. <<w>> \o u = <<v>>
    BY <1>1, ExpectsAtLast
  <2>2. <<v>> = <<v>> \o <<>> /\ <<>> \in Seq(Values)
    OBVIOUS
  <2>3. <<w>> \o u = <<v>> \o <<>>
    BY <2>1, <2>2
  <2>4. u = <<>> /\ w = v
    BY ONLY <2>2, <2>3, w \in Values, u \in Seq(Values), v \in Values, ConsEqual
  <2> QED
    BY <1>1, <2>4 DEF Delivers
<1>2. CASE callers # <<>>
  <2>1. PICK u2 : Asked(Head(callers), <<w>> \o u, u2) /\ Expects(v, Tail(callers), u2)
    BY <1>2, ExpectsOutside
  <2>2. PICK w2 \in Values, rem \in Seq(Values) :
          /\ w2.type \in Containers
          /\ u2 = <<w2>> \o rem
          /\ \E n \in 0 .. Len(w2.items) :
               /\ Head(callers) = FrameOf(w2, n)
               /\ <<w>> \o u = SubSeq(w2.items, n + 1, Len(w2.items)) \o rem
    BY <2>1 DEF Asked
  <2>3. PICK n \in 0 .. Len(w2.items) :
          /\ Head(callers) = FrameOf(w2, n)
          /\ <<w>> \o u = SubSeq(w2.items, n + 1, Len(w2.items)) \o rem
    BY <2>2
  <2>4. n < Len(w2.items) /\ n + 1 \in 0 .. Len(w2.items)
    <3>1. Len(w2.items) \in Nat
      BY ValueType, LenProperties
    <3>2. n = Len(w2.items) => FrameOf(w2, n).left = 0
      BY FrameLeft
    <3> QED
      BY <1>2, <2>3, <3>1, <3>2 DEF Asking
  <2> DEFINE later == SubSeq(w2.items, (n + 1) + 1, Len(w2.items)) \o rem
  <2>5. w2.items[n + 1] \in Values /\ later \in Seq(Values)
        /\ <<w>> \o u = <<w2.items[n + 1]>> \o later
    BY <2>3, <2>4, NextAsked
  <2>6. w = w2.items[n + 1] /\ u = later
    <3> DEFINE x == w2.items[n + 1]
    <3>1. x \in Values /\ later \in Seq(Values) /\ <<w>> \o u = <<x>> \o later
      BY <2>5
    <3> HIDE DEF later, x
    <3>2. Head(<<w>> \o u) = w /\ Tail(<<w>> \o u) = u
      BY ONLY w \in Values, u \in Seq(Values), ConsIs
    <3>3. Head(<<x>> \o later) = x /\ Tail(<<x>> \o later) = later
      BY ONLY <3>1, ConsIs
    <3> QED
      BY <3>1, <3>2, <3>3 DEF x
  <2>7. /\ WantsKey(Head(callers)) => w.type = "String"
        /\ Received(Head(callers), Kept[w]) = FrameOf(w2, n + 1)
    <3>1. /\ WantsKey(FrameOf(w2, n)) => w2.items[n + 1].type = "String"
          /\ Received(FrameOf(w2, n), Kept[w2.items[n + 1]]) = FrameOf(w2, n + 1)
      BY ONLY AllShort, w2 \in Values, n \in 0 .. Len(w2.items), <2>2, <2>4, FrameReceives
    <3>2. w = w2.items[n + 1] /\ Head(callers) = FrameOf(w2, n)
      BY <2>3, <2>6
    <3> QED
      BY <3>1, <3>2
  <2>8. Kept[w].type = w.type
    BY KeptFields
  <2>9. /\ MoveTo(index) /\ UNCHANGED <<doing, out, begun>>
        /\ frames' = <<FrameOf(w2, n + 1)>> \o Tail(callers)
    BY <1>2, <2>7, <2>8 DEF Delivers
  <2>10. Asked(FrameOf(w2, n + 1), u, u2)
    BY <2>2, <2>4, <2>6 DEF Asked
  <2>11. Sequence(Tail(callers))
    BY <1>2, HeadTailProperties DEF Sequence
  <2>12. Expects(v, <<FrameOf(w2, n + 1)>> \o Tail(callers), u)
    BY <2>1, <2>10, <2>11, ExpectsInside
  <2> QED
    BY <2>9, <2>12
<1> QED
  BY <1>1, <1>2

-----------------------------------------------------------------------------
(* What an unsigned keeps of a number.                                     *)
LEMMA DivMod ==
  ASSUME NEW a \in Nat, NEW b \in Nat \ {0}
  PROVE  a = b * (a \div b) + (a % b)
BY SMT

LEMMA ModIs ==
  ASSUME NEW a \in Nat, NEW m \in Nat \ {0}, NEW k \in Nat, NEW c \in 0 .. m - 1,
         a = m * k + c
  PROVE  a % m = c
<1> DEFINE e == a \div m
           d == a % m
<1>1. e \in Nat /\ d \in 0 .. m - 1 /\ a = m * e + d
  BY DivNat, ModRange, DivMod
<1> HIDE DEF e, d
<1>2. m * (e - k) = c - d
  BY <1>1
<1>3. CASE e > k
  <2>1. m * (e - k) >= m
    BY <1>1, <1>3
  <2> QED
    BY <1>1, <1>2, <2>1
<1>4. CASE e < k
  <2>1. m * (e - k) <= -m
    BY <1>1, <1>4
  <2> QED
    BY <1>1, <1>2, <2>1
<1>5. CASE e = k
  <2>1. e - k = 0 /\ m * 0 = 0
    BY <1>1, <1>5
  <2> QED
    BY <1>1, <1>2, <2>1
<1>6. d = c
  BY <1>1, <1>3, <1>4, <1>5
<1> QED
  BY <1>6 DEF d

LEMMA TwoBytes ==
  ASSUME NEW n \in Nat
  PROVE  (n % Base) + Base * ((n \div Base) % Base) = n % Unsigned
<1> DEFINE q == n \div Base
           r == n % Base
           s == q \div Base
           t == q % Base
           c == r + Base * t
<1>1. Base \in Nat \ {0} /\ Unsigned \in Nat \ {0} /\ Unsigned = Base * Base
  BY ConstantTypes DEF Unsigned
<1>2. q \in Nat /\ r \in 0 .. Base - 1 /\ n = Base * q + r
  BY <1>1, DivNat, ModRange, DivMod
<1>3. s \in Nat /\ t \in 0 .. Base - 1 /\ q = Base * s + t
  <2> HIDE DEF q
  <2> QED
    BY <1>1, <1>2, DivNat, ModRange, DivMod
<1> HIDE DEF q, r, s, t
<1>4. Base * q = Unsigned * s + Base * t
  <2>1. Base * (Base * s + t) = (Base * Base) * s + Base * t
    BY <1>1, <1>3
  <2> QED
    BY <1>1, <1>3, <2>1
<1>5. Base * t \in Nat /\ Base * t <= Base * (Base - 1)
  BY <1>1, <1>3
<1>6. Base * (Base - 1) = Unsigned - Base
  BY <1>1
<1>7. c \in 0 .. Unsigned - 1
  BY <1>1, <1>2, <1>5, <1>6
<1>8. n = Unsigned * s + c
  <2>1. Unsigned * s \in Nat
    BY <1>1, <1>3
  <2> QED
    BY <1>2, <1>4, <1>5, <2>1
<1> HIDE DEF c
<1>9. n % Unsigned = c
  BY <1>1, <1>3, <1>7, <1>8, ModIs
<1> QED
  BY <1>9 DEF c, r, t, q

LEMMA ReadIs ==
  ASSUME NEW index, NEW n \in Nat,
         m_byteArray[index + 1] = UnsignedBytes(n)[1],
         m_byteArray[index + 2] = UnsignedBytes(n)[2]
  PROVE  ReadUnsigned(index) = n % Unsigned
<1>1. /\ UnsignedBytes(n)[1] = n % Base
      /\ UnsignedBytes(n)[2] = (n \div Base) % Base
  BY DEF UnsignedBytes
<1> QED
  BY <1>1, TwoBytes DEF ReadUnsigned

-----------------------------------------------------------------------------
(* Reading what has been written.                                          *)
LEMMA ReadableIs ==
  ASSUME Inside, NEW index \in Nat, index <= Size, NEW size \in Nat
  PROVE  CanRead(index, size) <=> index + size <= Size
<1>1. Size \in Nat
  BY LenProperties DEF Inside, Size
<1>2. Size - index \in Nat /\ Size - index < SizeT
  BY <1>1, ConstantTypes DEF Inside
<1>3. Available(index) = Size - index
  BY <1>2, ConstantTypes, ModSmall DEF Available
<1> QED
  BY <1>1, <1>3 DEF CanRead

LEMMA HeaderParts ==
  ASSUME NEW w \in Values
  PROVE  /\ Payload(w) \in Seq(Byte)
         /\ Header(w)[1] = Signature[w.type]
         /\ Len(Header(w)) = Len(Payload(w)) + 1
         /\ Len(Payload(w)) \in Nat
         /\ \A j \in 1 .. Len(Payload(w)) : Header(w)[j + 1] = Payload(w)[j]
<1>1. w.type \in Types /\ w.raw \in Seq(Byte) /\ Len(w.raw) \in Nat
  BY ValueType, LenProperties
<1>2. SubSeq(w.raw, 1, Len(w.raw) % Unsigned) \in Seq(Byte)
  <2>1. Len(w.raw) % Unsigned \in Nat /\ Len(w.raw) % Unsigned <= Len(w.raw)
    BY <1>1, ConstantTypes, ModAtMost
  <2> QED
    BY <1>1, <2>1, SubSeqType
<1>3. Len(w.items) \in Nat /\ Len(w.items) \div 2 \in Nat
  <2>1. Len(w.items) \in Nat
    BY ValueType, LenProperties
  <2> QED
    BY <2>1, HalfNat
<1>4. /\ UnsignedBytes(Len(w.raw)) \in Seq(Byte)
      /\ UnsignedBytes(Len(w.items)) \in Seq(Byte)
      /\ UnsignedBytes(Len(w.items) \div 2) \in Seq(Byte)
  BY <1>1, <1>3, UnsignedBytesType
<1>5. UnsignedBytes(Len(w.raw)) \o SubSeq(w.raw, 1, Len(w.raw) % Unsigned) \in Seq(Byte)
  BY <1>2, <1>4, ConcatProperties
<1>6. Payload(w) \in Seq(Byte)
  BY <1>1, <1>4, <1>5, EmptySeq DEF Payload
<1>7. Signature[w.type] \in Byte
  BY <1>1, ConstantTypes
<1> QED
  BY <1>6, <1>7, ConsIs, LenProperties DEF Header

LEMMA SliceIs ==
  ASSUME Inside, NEW p \in Nat, NEW h, Agree(m_byteArray, p, h), Len(h) \in Nat,
         NEW k \in Nat, NEW x \in Seq(Byte), k + Len(x) <= Len(h),
         \A j \in 1 .. Len(x) : h[j + k] = x[j],
         p + k + Len(x) <= Size
  PROVE  Slice(p + k, Len(x)) = x
<1> DEFINE to == p + k
           part == SubSeq(m_byteArray, to + 1, to + Len(x))
<1>1. Len(x) \in Nat /\ to \in Nat /\ to + Len(x) <= Size /\ Size \in Nat
      /\ m_byteArray \in Seq(Byte)
  BY LenProperties DEF Inside, Size
<1>2. part \in Seq(Byte) /\ Len(part) = Len(x)
  <2>1. to + 1 \in Nat \ {0} /\ to + Len(x) \in Nat /\ to + Len(x) <= Len(m_byteArray)
    BY <1>1 DEF Size
  <2>2. to + 1 <= (to + Len(x)) + 1 /\ (to + Len(x)) - (to + 1) + 1 = Len(x)
    BY <1>1
  <2> HIDE DEF to
  <2> QED
    BY <1>1, <2>1, <2>2, SubSeqType
<1>3. ASSUME NEW j \in 1 .. Len(x) PROVE part[j] = x[j]
  <2>1. part[j] = m_byteArray[to + j]
    <3>1. part[j] = m_byteArray[to + 1 + j - 1]
      BY <1>1
    <3>2. to + 1 + j - 1 = to + j
      BY <1>1
    <3> QED
      BY <3>1, <3>2
  <2>2. j + k \in 1 .. Len(h) /\ p + (j + k) <= Len(m_byteArray) /\ p + (j + k) = to + j
    BY <1>1 DEF Size
  <2>3. m_byteArray[p + (j + k)] = h[j + k]
    BY <2>2 DEF Agree
  <2> QED
    BY <2>1, <2>2, <2>3
<1> HIDE DEF part
<1>4. part = x
  BY <1>2, <1>3, SeqEqual
<1> QED
  BY <1>4 DEF Slice, part

LEMMA SignedIs ==
  ASSUME Inside, NEW w \in Values, Agree(m_byteArray, m_index, Header(w))
  PROVE  /\ m_index < Size => Signed(w.type)
         /\ \A type \in Types : Signed(type) => type = w.type /\ m_index + 1 <= Size
<1>1. Size \in Nat /\ m_index \in Nat /\ m_index <= Size
  BY LenProperties DEF Inside, Size, ReadsInside
<1>2. Size - m_index \in Nat /\ Size - m_index < SizeT
  BY <1>1, ConstantTypes DEF Inside
<1>3. Available(m_index) = Size - m_index
  BY <1>2, ConstantTypes, ModSmall DEF Available
<1>4. ASSUME m_index + 1 <= Size PROVE m_byteArray[m_index + 1] = Signature[w.type]
  <2>1. 1 \in 1 .. Len(Header(w)) /\ Header(w)[1] = Signature[w.type]
    BY HeaderParts
  <2> QED
    BY <1>4, <2>1 DEF Agree, Size
<1>5. m_index < Size => Signed(w.type)
  BY <1>1, <1>3, <1>4 DEF Signed
<1>6. ASSUME NEW type \in Types, Signed(type)
      PROVE  type = w.type /\ m_index + 1 <= Size
  <2>1. m_index + 1 <= Size
    BY <1>6, SignatureAllowed
  <2>2. Signature[type] = Signature[w.type]
    BY <1>4, <1>6, <2>1 DEF Signed
  <2>3. w.type \in Types
    BY ValueType
  <2> QED
    BY <2>1, <2>2, <2>3, SerializerAssumption
<1> QED
  BY <1>5, <1>6

(* A popValue() where w has been written: w is read, or its end is not     *)
(* there.                                                                  *)
ReadsAll(w) ==
  /\ m_index + Len(Header(w)) <= Size
  /\ IF w.type \in Containers
     THEN /\ MoveTo(m_index + Len(Header(w)))
          /\ frames' = <<FrameOf(w, 0)>> \o frames
          /\ UNCHANGED <<doing, out, begun>>
     ELSE Delivers(Kept[w], m_index + Len(Header(w)), frames)

ReadsPart(w) ==
  /\ m_index + Len(Header(w)) > Size
  /\ \E index \in m_index .. Size : Fails(index) /\ (m_index < Size => m_index < index)

LEMMA PopUnsignedReads ==
  ASSUME Inside, NEW w \in Values, Agree(m_byteArray, m_index, Header(w)), PopUnsigned
  PROVE  ReadsPart(w)
<1>1. Size \in Nat /\ m_index \in Nat /\ m_index <= Size
  BY LenProperties DEF Inside, Size, ReadsInside
<1>2. ~Signed(w.type)
  BY ValueType DEF PopUnsigned
<1>3. m_index = Size
  BY <1>1, <1>2, SignedIs
<1>4. Len(Header(w)) \in Nat \ {0}
  BY HeaderParts
<1>5. m_index + Len(Header(w)) > Size
  BY <1>1, <1>3, <1>4
<1>6. m_index \in m_index .. Size /\ Fails(m_index)
  BY <1>1 DEF PopUnsigned
<1> QED
  BY <1>3, <1>5, <1>6 DEF ReadsPart

LEMMA KeptLeaf ==
  ASSUME NEW w \in Values, w.type \notin Containers
  PROVE  Kept[w] = Variant(w.type, Kept[w].raw, <<>>)
<1>1. Len(w.items) = 0
  <2>1. w.items = <<>>
    BY VariantOfType DEF IsVariant
  <2> QED
    BY <2>1
<1>2. Kept[w].items = <<>>
  BY <1>1, KeptFields, EmptySeq
<1> QED
  BY <1>2, KeptFields

LEMMA PopEmptyReads ==
  ASSUME Inside, NEW w \in Values, Agree(m_byteArray, m_index, Header(w)),
         NEW type \in {"Invalid", "Null"}, PopEmpty(type)
  PROVE  ReadsAll(w)
<1>1. type = w.type /\ m_index + 1 <= Size
  BY SignedIs DEF PopEmpty, Types
<1>2. w.type \notin Containers /\ w.type \notin Scalars \cup {"String"} /\ w.type \in Types
  BY <1>1 DEF Containers, Scalars, Types
<1>3. Kept[w] = Variant(w.type, <<>>, <<>>)
  <2>1. w.raw = <<>>
    BY <1>2, VariantOfType DEF IsVariant
  <2>2. Kept[w].raw = <<>>
    BY <1>2, <2>1, KeptFields
  <2> QED
    BY <1>2, <2>2, KeptLeaf
<1>4. Len(Header(w)) = 1
  <2>1. Payload(w) = <<>>
    BY <1>2 DEF Payload, Containers
  <2>2. Len(<<>>) = 0 /\ 0 + 1 = 1
    OBVIOUS
  <2> QED
    BY <2>1, <2>2, HeaderParts
<1>5. Delivers(Kept[w], m_index + 1, frames)
  BY <1>1, <1>3 DEF PopEmpty
<1> QED
  BY <1>1, <1>2, <1>4, <1>5 DEF ReadsAll

LEMMA PopScalarReads ==
  ASSUME Inside, NEW w \in Values, Agree(m_byteArray, m_index, Header(w)),
         NEW type \in Scalars, PopScalar(type)
  PROVE  ReadsAll(w) \/ ReadsPart(w)
<1> DEFINE size == SizeOf[type]
<1>1. type = w.type /\ m_index + 1 <= Size
  BY SignedIs DEF PopScalar, Types
<1>2. Size \in Nat /\ m_index \in Nat /\ m_index + 1 \in Nat /\ size \in Nat
  BY LenProperties, ConstantTypes DEF Inside, Size
<1>3. w.type \notin Containers /\ w.type # "String" /\ w.type \in Scalars
  BY <1>1 DEF Containers, Scalars
<1>4. Payload(w) = w.raw /\ Len(w.raw) = size /\ w.raw \in Seq(Byte)
  <2>1. Payload(w) = w.raw
    BY <1>3 DEF Payload, Scalars
  <2> QED
    BY <1>1, <1>3, <2>1, VariantOfType, ValueType DEF IsVariant
<1>5. Len(Header(w)) = 1 + size
  BY <1>2, <1>4, HeaderParts
<1>6. CanRead(m_index + 1, size) <=> m_index + Len(Header(w)) <= Size
  BY <1>1, <1>2, <1>5, ReadableIs
<1>7. CASE CanRead(m_index + 1, size)
  <2>1. PICK raw \in Loaded(type, Slice(m_index + 1, size)) :
          Delivers(Variant(type, raw, <<>>), m_index + 1 + size, frames)
    BY <1>7 DEF PopScalar
  <2>2. Slice(m_index + 1, size) = w.raw
    <3>1. \A j \in 1 .. Len(w.raw) : Header(w)[j + 1] = w.raw[j]
      BY <1>4, HeaderParts
    <3>2. /\ 1 + Len(w.raw) <= Len(Header(w)) /\ Len(Header(w)) \in Nat
          /\ m_index + 1 + Len(w.raw) <= Size
      BY <1>2, <1>4, <1>5, <1>6, <1>7
    <3>3. Slice(m_index + 1, Len(w.raw)) = w.raw
      BY <1>2, <1>4, <3>1, <3>2, SliceIs
    <3> QED
      BY <1>4, <3>3
  <2>3. raw = w.raw
    <3>1. type = "Boolean" => w.raw[1] \in {0, 1}
      BY <1>1, VariantOfType DEF IsVariant
    <3> QED
      BY <2>1, <2>2, <3>1 DEF Loaded
  <2>4. Kept[w] = Variant(type, raw, <<>>)
    <3>1. Kept[w].raw = w.raw
      BY <1>3, KeptFields
    <3> QED
      BY <1>1, <1>3, <2>3, <3>1, KeptLeaf
  <2>5. m_index + 1 + size = m_index + Len(Header(w))
    BY <1>2, <1>5
  <2> QED
    BY <1>3, <1>6, <1>7, <2>1, <2>4, <2>5 DEF ReadsAll
<1>8. CASE ~CanRead(m_index + 1, size)
  <2>1. Fails(m_index + 1)
    BY <1>8 DEF PopScalar
  <2>2. m_index + 1 \in m_index .. Size /\ m_index < m_index + 1
    BY <1>1, <1>2
  <2>3. m_index + Len(Header(w)) > Size
    BY <1>2, <1>5, <1>6, <1>8
  <2> QED
    BY <2>1, <2>2, <2>3 DEF ReadsPart
<1> QED
  BY <1>7, <1>8

(* The two bytes of an unsigned after the signature.                       *)
LEMMA CountIs ==
  ASSUME Inside, NEW w \in Values, Agree(m_byteArray, m_index, Header(w)),
         NEW n \in Nat, Len(Payload(w)) >= 2,
         Payload(w)[1] = UnsignedBytes(n)[1], Payload(w)[2] = UnsignedBytes(n)[2],
         m_index + 3 <= Size
  PROVE  ReadUnsigned(m_index + 1) = n % Unsigned
<1>1. /\ 2 \in 1 .. Len(Header(w)) /\ 3 \in 1 .. Len(Header(w))
      /\ Header(w)[1 + 1] = Payload(w)[1] /\ Header(w)[2 + 1] = Payload(w)[2]
  BY HeaderParts
<1>2. m_index \in Nat /\ Size \in Nat
  BY LenProperties DEF Inside, Size
<1>3. m_byteArray[m_index + 2] = Header(w)[2] /\ m_byteArray[m_index + 3] = Header(w)[3]
  BY <1>1, <1>2 DEF Agree, Size
<1>4. (m_index + 1) + 1 = m_index + 2 /\ (m_index + 1) + 2 = m_index + 3
      /\ 1 + 1 = 2 /\ 2 + 1 = 3
  BY <1>2
<1> QED
  BY <1>1, <1>3, <1>4, ReadIs

LEMMA PopStringReads ==
  ASSUME Inside, NEW w \in Values, Agree(m_byteArray, m_index, Header(w)), PopString
  PROVE  ReadsAll(w) \/ ReadsPart(w)
<1> DEFINE n == Len(w.raw)
           x == SubSeq(w.raw, 1, n % Unsigned)
           length == ReadUnsigned(m_index + 1)
<1>1. "String" = w.type /\ m_index + 1 <= Size
  BY SignedIs DEF PopString, Types
<1>2. Size \in Nat /\ m_index \in Nat /\ n \in Nat /\ w.raw \in Seq(Byte)
  BY LenProperties, ValueType DEF Inside, Size
<1>3. w.type \notin Containers /\ w.type \notin Scalars
  BY <1>1 DEF Containers, Scalars
<1>4. x \in Seq(Byte) /\ Len(x) = n % Unsigned /\ n % Unsigned \in Nat
  <2>1. n % Unsigned \in Nat /\ n % Unsigned <= n
    BY <1>2, ConstantTypes, ModAtMost
  <2> QED
    BY <1>2, <2>1, SubSeqType
<1>5. Payload(w) = UnsignedBytes(n) \o x
  BY <1>1, <1>3 DEF Payload
<1>6. UnsignedBytes(n) \in Seq(Byte) /\ Len(UnsignedBytes(n)) = 2
  BY <1>2, UnsignedBytesType DEF UnsignedBytes
<1>7. Kept[w] = Variant("String", x, <<>>)
  <2>1. Kept[w].raw = x
    BY <1>1, KeptFields
  <2> QED
    BY <1>1, <1>3, <2>1, KeptLeaf
<1> HIDE DEF x
<1>8. /\ Len(Payload(w)) = 2 + Len(x)
      /\ \A j \in 1 .. 2 + Len(x) :
           Payload(w)[j] = IF j <= 2 THEN UnsignedBytes(n)[j] ELSE x[j - 2]
  <2> DEFINE ub == UnsignedBytes(n)
  <2>1. ub \in Seq(Byte) /\ Len(ub) = 2 /\ Payload(w) = ub \o x
    BY <1>5, <1>6
  <2> HIDE DEF ub
  <2>2. /\ Len(ub \o x) = Len(ub) + Len(x)
        /\ \A j \in 1 .. Len(ub) + Len(x) :
             (ub \o x)[j] = IF j <= Len(ub) THEN ub[j] ELSE x[j - Len(ub)]
    BY <1>4, <2>1, ConcatProperties, Zenon
  <2> QED
    BY <2>1, <2>2 DEF ub
<1>9. Len(Header(w)) = 3 + Len(x) /\ Len(x) \in Nat
  BY <1>4, <1>8, HeaderParts
<1>10. Payload(w)[1] = UnsignedBytes(n)[1] /\ Payload(w)[2] = UnsignedBytes(n)[2]
  BY <1>8, <1>9
<1>11. ASSUME NEW j \in 1 .. Len(x) PROVE Header(w)[j + 3] = x[j]
  <2>1. j + 2 \in 1 .. Len(Payload(w)) /\ ~(j + 2 <= 2) /\ (j + 2) - 2 = j
        /\ (j + 2) + 1 = j + 3
    BY <1>8, <1>9
  <2>2. Header(w)[(j + 2) + 1] = Payload(w)[j + 2]
    BY <2>1, HeaderParts
  <2> QED
    BY <1>8, <2>1, <2>2
<1>12. CASE ~CanRead(m_index + 1, 2)
  <2>1. Fails(m_index + 1)
    BY <1>12 DEF PopString
  <2>2. m_index + 1 + 2 > Size
    BY <1>1, <1>2, <1>12, ReadableIs
  <2>3. m_index + 1 \in m_index .. Size /\ m_index < m_index + 1
    BY <1>1, <1>2
  <2>4. m_index + Len(Header(w)) > Size
    BY <1>2, <1>9, <2>2
  <2> QED
    BY <2>1, <2>3, <2>4 DEF ReadsPart
<1>13. CASE CanRead(m_index + 1, 2)
  <2>1. m_index + 3 <= Size /\ m_index + 3 \in Nat
    BY <1>1, <1>2, <1>13, ReadableIs
  <2>2. length = Len(x)
    <3>1. Len(Payload(w)) >= 2
      BY <1>8, <1>9
    <3> QED
      BY <1>2, <1>4, <1>10, <2>1, <3>1, CountIs
  <2>3. \/ /\ CanRead(m_index + 3, Len(x))
           /\ Delivers(Variant("String", Slice(m_index + 3, Len(x)), <<>>),
                       m_index + 3 + Len(x), frames)
        \/ ~CanRead(m_index + 3, Len(x)) /\ Fails(m_index + 3)
    BY <1>13, <2>2 DEF PopString
  <2>4. CanRead(m_index + 3, Len(x)) <=> m_index + Len(Header(w)) <= Size
    BY <1>2, <1>9, <2>1, ReadableIs
  <2>5. m_index + 3 + Len(x) = m_index + Len(Header(w))
    BY <1>2, <1>9
  <2>6. CASE m_index + Len(Header(w)) <= Size
    <3>1. Slice(m_index + 3, Len(x)) = x
      <4>1. 3 + Len(x) <= Len(Header(w)) /\ Len(Header(w)) \in Nat
            /\ m_index + 3 + Len(x) <= Size
        BY <1>9, <2>5, <2>6
      <4> QED
        BY <1>2, <1>4, <1>11, <4>1, SliceIs
    <3> QED
      BY <1>3, <1>7, <2>3, <2>4, <2>5, <2>6, <3>1 DEF ReadsAll
  <2>7. CASE m_index + Len(Header(w)) > Size
    <3>1. Fails(m_index + 3)
      BY <1>2, <1>9, <2>3, <2>4, <2>7
    <3>2. m_index + 3 \in m_index .. Size /\ m_index < m_index + 3
      BY <1>2, <2>1
    <3> QED
      BY <2>7, <3>1, <3>2 DEF ReadsPart
  <2> QED
    BY <1>2, <1>9, <2>6, <2>7
<1> QED
  BY <1>12, <1>13

LEMMA PopContainerReads ==
  ASSUME AllShort, Inside, NEW w \in Values, Agree(m_byteArray, m_index, Header(w)),
         NEW type \in Containers, PopContainer(type)
  PROVE  ReadsAll(w) \/ ReadsPart(w)
<1>1. type = w.type /\ m_index + 1 <= Size
  BY SignedIs DEF PopContainer, Types
<1>2. Size \in Nat /\ m_index \in Nat
  BY LenProperties DEF Inside, Size
<1>3. Count(w) \in Nat /\ Count(w) < Unsigned
  <2>1. Len(w.items) \in Nat
    BY ValueType, LenProperties
  <2> QED
    BY <2>1, HalfNat DEF Count, AllShort, Short
<1>4. Payload(w) = UnsignedBytes(Count(w)) /\ w.type \in Containers
  BY <1>1 DEF Payload, Count, Containers, Scalars
<1>5. Len(Payload(w)) = 2
  <2>1. \A a, b : Len(<<a, b>>) = 2
    OBVIOUS
  <2> QED
    BY <1>4, <2>1 DEF UnsignedBytes
<1>6. Len(Header(w)) = 3
  <2>1. Len(Header(w)) = Len(Payload(w)) + 1
    BY HeaderParts
  <2> QED
    BY <1>5, <2>1
<1>7. CASE ~CanRead(m_index + 1, 2)
  <2>1. Fails(m_index + 1)
    BY <1>7 DEF PopContainer
  <2>2. m_index + 1 + 2 > Size
    BY <1>1, <1>2, <1>7, ReadableIs
  <2>3. m_index + 1 \in m_index .. Size /\ m_index < m_index + 1
    BY <1>1, <1>2
  <2>4. m_index + Len(Header(w)) > Size
    BY <1>2, <1>6, <2>2
  <2> QED
    BY <2>1, <2>3, <2>4 DEF ReadsPart
<1>8. CASE CanRead(m_index + 1, 2)
  <2>1. m_index + 3 <= Size
    BY <1>1, <1>2, <1>8, ReadableIs
  <2>2. ReadUnsigned(m_index + 1) = Count(w) % Unsigned
    <3>1. Len(Payload(w)) >= 2
      BY <1>5
    <3> QED
      BY <1>3, <1>4, <2>1, <3>1, CountIs
  <2>3. ReadUnsigned(m_index + 1) = Count(w)
    BY <1>3, <2>2, ConstantTypes, ModSmall
  <2>4. /\ frames' = <<[type |-> type, left |-> Count(w), key |-> <<>>,
                        items |-> <<>>]>> \o frames
        /\ MoveTo(m_index + 3)
        /\ UNCHANGED <<doing, out, begun>>
    BY <1>8, <2>3 DEF PopContainer
  <2>5. frames' = <<FrameOf(w, 0)>> \o frames
    BY <1>1, <2>4, FrameStarts
  <2> QED
    BY <1>4, <1>6, <2>1, <2>4, <2>5 DEF ReadsAll
<1> QED
  BY <1>7, <1>8

-----------------------------------------------------------------------------
(* A popValue() was called where v had been written up to q, and t after   *)
(* it, or the array ends before.                                           *)
ReadingOn(v, q, t) ==
  \E r : Expects(v, frames, r) /\ Lay(m_byteArray, m_index, r, q, t)

Continues(v, q, t) ==
  /\ ReadingOn(v, q, t)'
  /\ UNCHANGED <<doing, out, begun>>
  /\ m_index <= m_index'

Finishes(v, q) ==
  /\ q <= Size
  /\ m_index' = q
  /\ PopReturns([returned |-> "true", value |-> Kept[v]])

Breaks ==
  /\ m_index' \in m_index .. Size
  /\ m_index < Size => m_index < m_index'
  /\ PopReturns([NoAnswer EXCEPT !.returned = "false"])

LEMMA MovesTo ==
  ASSUME Inside, NEW index \in Nat, index <= Size, MoveTo(index)
  PROVE  m_index' = index
<1>1. Size \in Nat /\ index < Unsigned
  BY LenProperties, ConstantTypes DEF Inside, Size
<1> QED
  BY <1>1, ConstantTypes, ModSmall DEF MoveTo

LEMMA LayEmpty ==
  ASSUME NEW a, NEW p, NEW q, NEW t, Lay(a, p, <<>>, q, t)
  PROVE  p = q /\ t = <<>>
<1>1. p # q \/ <<>> # t => <<>> # <<>>
  BY LayFirst
<1> QED
  BY <1>1

(* The value w has been read up to index.                                  *)
LEMMA DeliversStep ==
  ASSUME AllShort, Inside, m_byteArray' = m_byteArray,
         NEW v \in Values, NEW callers, Sequence(callers), Asking(callers),
         NEW w \in Values, NEW u \in Seq(Values), Expects(v, callers, <<w>> \o u),
         NEW index \in Nat, m_index <= index, index <= Size,
         Delivers(Kept[w], index, callers),
         NEW q, NEW t, Lay(m_byteArray, index, u, q, t)
  PROVE  Continues(v, q, t) \/ Finishes(v, q)
<1>1. MoveTo(index)
      /\ \/ u = <<>> /\ PopReturns([returned |-> "true", value |-> Kept[v]])
         \/ Expects(v, frames', u) /\ UNCHANGED <<doing, out, begun>>
  BY DeliversNext
<1>2. m_index' = index
  BY <1>1, MovesTo
<1>3. CASE u = <<>> /\ PopReturns([returned |-> "true", value |-> Kept[v]])
  <2>1. index = q
    BY <1>3, LayEmpty
  <2> QED
    BY <1>2, <1>3, <2>1 DEF Finishes
<1>4. CASE Expects(v, frames', u) /\ UNCHANGED <<doing, out, begun>>
  <2>1. ReadingOn(v, q, t)'
    BY <1>2, <1>4 DEF ReadingOn
  <2> QED
    BY <1>2, <1>4, <2>1 DEF Continues
<1> QED
  BY <1>1, <1>3, <1>4

LEMMA ReadStep ==
  ASSUME AllShort, Inside, m_byteArray' = m_byteArray, Sequence(frames), Asking(frames),
         NEW v \in Values, NEW q, NEW t, ReadingOn(v, q, t), q > Size \/ t = <<>>,
         \A w \in Values : Agree(m_byteArray, m_index, Header(w))
                             => ReadsAll(w) \/ ReadsPart(w)
  PROVE  Continues(v, q, t) \/ Finishes(v, q) \/ (q > Size /\ Breaks)
<1>1. PICK r : Expects(v, frames, r) /\ Lay(m_byteArray, m_index, r, q, t)
  BY DEF ReadingOn
<1>2. PICK w \in Values, u \in Seq(Values) : r = <<w>> \o u
  <2>1. Expects(v, frames, r)
    BY <1>1
  <2>2. Something(r)
    BY <2>1, SomethingExpected
  <2> QED
    BY <2>2 DEF Something
<1>3. r # <<>> /\ Head(r) = w /\ Tail(r) = u
  <2>1. <<w>> \o u # <<>> /\ Head(<<w>> \o u) = w /\ Tail(<<w>> \o u) = u
    BY ConsIs
  <2> QED
    BY <1>2, <2>1
<1>4. Size \in Nat /\ m_index \in Nat /\ m_index <= Size
  BY LenProperties DEF Inside, ReadsInside, Size
<1>5. m_index # q \/ r # t
  BY <1>3, <1>4
<1> DEFINE to == m_index + Len(Header(w))
<1>6. Agree(m_byteArray, m_index, Header(w)) /\ Lay(m_byteArray, to, w.items \o u, q, t)
  BY <1>1, <1>3, <1>5, LayFirst
<1>7. to \in Nat /\ q \in Nat /\ to <= q /\ m_index <= to
  <2>1. Len(Header(w)) \in Nat
    BY HeaderParts
  <2> QED
    BY <1>4, <1>6, <2>1, LayTypes
<1>8. w.items \in Seq(Values) /\ w.items \o u \in Seq(Values)
  BY ValueType, ConcatProperties
<1>9. CASE ReadsAll(w) /\ w.type \in Containers
  <2>1. to <= Size /\ MoveTo(to) /\ frames' = <<FrameOf(w, 0)>> \o frames
        /\ UNCHANGED <<doing, out, begun>>
    BY <1>9 DEF ReadsAll
  <2>2. m_index' = to
    BY <1>7, <2>1, MovesTo
  <2>3. Asked(FrameOf(w, 0), w.items \o u, r)
    <3>1. 0 \in 0 .. Len(w.items) /\ 0 + 1 = 1
      BY <1>8, LenProperties
    <3>2. SubSeq(w.items, 0 + 1, Len(w.items)) = w.items
      BY <1>8, <3>1, SubSeqFull
    <3> QED
      BY <1>2, <1>9, <3>1, <3>2 DEF Asked
  <2>4. Expects(v, frames', w.items \o u)
    BY <1>1, <1>8, <2>1, <2>3, ExpectsInside
  <2>5. ReadingOn(v, q, t)'
    BY <1>6, <2>2, <2>4 DEF ReadingOn
  <2> QED
    BY <1>7, <2>1, <2>2, <2>5 DEF Continues
<1>10. CASE ReadsAll(w) /\ w.type \notin Containers
  <2>1. to <= Size /\ Delivers(Kept[w], to, frames)
    BY <1>10 DEF ReadsAll
  <2>2. w.items \o u = u
    <3>1. w.items = <<>>
      BY <1>10, VariantOfType DEF IsVariant
    <3> QED
      BY <3>1, ConcatEmptySeq
  <2>3. Lay(m_byteArray, to, u, q, t) /\ Expects(v, frames, <<w>> \o u)
    BY <1>1, <1>2, <1>6, <2>2
  <2> HIDE DEF to
  <2> QED
    BY <1>7, <2>1, <2>3, DeliversStep
<1>11. CASE ReadsPart(w)
  <2>1. PICK index \in m_index .. Size : Fails(index) /\ (m_index < Size => m_index < index)
    BY <1>11 DEF ReadsPart
  <2>2. index \in Nat /\ index <= Size
    BY <1>4
  <2>3. m_index' = index /\ PopReturns([NoAnswer EXCEPT !.returned = "false"])
    BY <2>1, <2>2, MovesTo DEF Fails
  <2>4. q > Size
    BY <1>4, <1>7, <1>11 DEF ReadsPart
  <2>5. Breaks
    BY <2>1, <2>3 DEF Breaks
  <2> QED
    BY <2>4, <2>5
<1> QED
  BY <1>6, <1>9, <1>10, <1>11

LEMMA EndStep ==
  ASSUME AllShort, Inside, Stack(frames), PopContainerEnds,
         NEW v \in Values, NEW q, NEW t, ReadingOn(v, q, t)
  PROVE  Continues(v, q, t) \/ Finishes(v, q)
<1>1. PICK r : Expects(v, frames, r) /\ Lay(m_byteArray, m_index, r, q, t)
  BY DEF ReadingOn
<1>2. /\ frames # <<>> /\ Head(frames).left = 0 /\ m_byteArray' = m_byteArray
      /\ Delivers(Variant(Head(frames).type, <<>>, Head(frames).items),
                  m_index, Tail(frames))
  BY DEF PopContainerEnds
<1>3. Sequence(frames) /\ Sequence(Tail(frames)) /\ Asking(Tail(frames))
  BY <1>2, StackTail DEF Stack, Sequence
<1>4. PICK u : Asked(Head(frames), r, u) /\ Expects(v, Tail(frames), u)
  BY <1>1, <1>2, <1>3, ExpectsOutside
<1>5. PICK w \in Values, rem \in Seq(Values) :
        /\ w.type \in Containers
        /\ u = <<w>> \o rem
        /\ \E n \in 0 .. Len(w.items) :
             /\ Head(frames) = FrameOf(w, n)
             /\ r = SubSeq(w.items, n + 1, Len(w.items)) \o rem
  BY <1>4 DEF Asked
<1>6. PICK n \in 0 .. Len(w.items) :
        /\ Head(frames) = FrameOf(w, n)
        /\ r = SubSeq(w.items, n + 1, Len(w.items)) \o rem
  BY <1>5
<1>7. Len(w.items) \in Nat
  BY ValueType, LenProperties
<1>8. n = Len(w.items)
  <2>1. n < Len(w.items) => FrameOf(w, n).left > 0
    BY FrameLeft
  <2>2. FrameOf(w, n).left = 0
    BY <1>2, <1>6
  <2> QED
    BY <1>7, <2>1, <2>2
<1>9. r = rem
  <2>1. SubSeq(w.items, n + 1, n) = <<>>
    BY SubSeqEmpty
  <2> QED
    BY <1>6, <1>8, <2>1, ConcatEmptySeq
<1>10. Variant(Head(frames).type, <<>>, Head(frames).items) = Kept[w]
  <2>1. Head(frames).type = w.type
    BY <1>6 DEF FrameOf
  <2> QED
    BY <1>5, <1>6, <1>8, <2>1, FrameEnds
<1>11. m_index \in Nat /\ m_index <= Size /\ m_index <= m_index
  BY DEF Inside, ReadsInside
<1>12. /\ Expects(v, Tail(frames), <<w>> \o rem) /\ Delivers(Kept[w], m_index, Tail(frames))
       /\ Lay(m_byteArray, m_index, rem, q, t)
  BY <1>1, <1>2, <1>4, <1>5, <1>9, <1>10
<1> QED
  BY <1>2, <1>3, <1>11, <1>12, DeliversStep

-----------------------------------------------------------------------------
PopSteps ==
  \/ PopUnsigned \/ PopString \/ PopContainerEnds
  \/ \E type \in {"Invalid", "Null"} : PopEmpty(type)
  \/ \E type \in Scalars : PopScalar(type)
  \/ \E type \in Containers : PopContainer(type)

LEMMA PopStepsAre ==
  ASSUME StackKept, PopSteps
  PROVE  /\ doing = "pop"
         /\ UNCHANGED <<m_byteArray, todo, argument, written, rest>>
         /\ \/ doing' = "nothing" /\ begun' = 0
            \/ UNCHANGED <<doing, out, begun>>
<1>1. ASSUME NEW v, NEW index, NEW callers, Delivers(v, index, callers)
      PROVE  (doing' = "nothing" /\ begun' = 0) \/ UNCHANGED <<doing, out, begun>>
  BY <1>1 DEF Delivers, Fails, PopReturns
<1>2. ASSUME NEW index, Fails(index) PROVE doing' = "nothing" /\ begun' = 0
  BY <1>2 DEF Fails, PopReturns
<1>3. CASE PopContainerEnds
  BY <1>1, <1>3 DEF PopContainerEnds, StackKept
<1>4. CASE PopUnsigned
  BY <1>2, <1>4 DEF PopUnsigned, Popping
<1>5. CASE PopString
  BY <1>1, <1>2, <1>5 DEF PopString, Popping
<1>6. CASE \E type \in {"Invalid", "Null"} : PopEmpty(type)
  BY <1>1, <1>6 DEF PopEmpty, Popping
<1>7. CASE \E type \in Scalars : PopScalar(type)
  BY <1>1, <1>2, <1>7 DEF PopScalar, Popping
<1>8. CASE \E type \in Containers : PopContainer(type)
  BY <1>2, <1>8 DEF PopContainer, Popping
<1> QED
  BY <1>3, <1>4, <1>5, <1>6, <1>7, <1>8 DEF PopSteps

(* Whatever popValue() does next, it goes on reading v, has read v, or has *)
(* met the end of the array.                                               *)
LEMMA PopStepReads ==
  ASSUME AllShort, Inside, StackKept, PopSteps,
         NEW v \in Values, NEW q, NEW t, ReadingOn(v, q, t), q > Size \/ t = <<>>
  PROVE  Continues(v, q, t) \/ Finishes(v, q) \/ (q > Size /\ Breaks)
<1>1. Stack(frames) /\ Sequence(frames) /\ m_byteArray' = m_byteArray
  BY PopStepsAre DEF StackKept, Stack, Sequence
<1>2. CASE PopContainerEnds
  BY <1>1, <1>2, EndStep
<1>3. ASSUME Popping,
             \A w \in Values : Agree(m_byteArray, m_index, Header(w))
                                 => ReadsAll(w) \/ ReadsPart(w)
      PROVE  Continues(v, q, t) \/ Finishes(v, q) \/ (q > Size /\ Breaks)
  <2>1. Asking(frames)
    BY <1>3 DEF Popping, Asking
  <2> QED
    BY <1>1, <1>3, <2>1, ReadStep
<1>4. CASE PopUnsigned
  <2>1. Popping
    BY <1>4 DEF PopUnsigned
  <2> QED
    BY <1>3, <1>4, <2>1, PopUnsignedReads
<1>5. CASE PopString
  <2>1. Popping
    BY <1>5 DEF PopString
  <2> QED
    BY <1>3, <1>5, <2>1, PopStringReads
<1>6. ASSUME NEW type \in {"Invalid", "Null"}, PopEmpty(type)
      PROVE  Continues(v, q, t) \/ Finishes(v, q) \/ (q > Size /\ Breaks)
  <2>1. Popping
    BY <1>6 DEF PopEmpty
  <2>2. \A w \in Values : Agree(m_byteArray, m_index, Header(w)) => ReadsAll(w)
    BY <1>6, PopEmptyReads
  <2> QED
    BY <1>3, <2>1, <2>2
<1>7. ASSUME NEW type \in Scalars, PopScalar(type)
      PROVE  Continues(v, q, t) \/ Finishes(v, q) \/ (q > Size /\ Breaks)
  <2>1. Popping
    BY <1>7 DEF PopScalar
  <2>2. \A w \in Values : Agree(m_byteArray, m_index, Header(w))
                            => ReadsAll(w) \/ ReadsPart(w)
    BY <1>7, PopScalarReads
  <2> QED
    BY <1>3, <2>1, <2>2
<1>8. ASSUME NEW type \in Containers, PopContainer(type)
      PROVE  Continues(v, q, t) \/ Finishes(v, q) \/ (q > Size /\ Breaks)
  <2>1. Popping
    BY <1>8 DEF PopContainer
  <2>2. \A w \in Values : Agree(m_byteArray, m_index, Header(w))
                            => ReadsAll(w) \/ ReadsPart(w)
    BY <1>8, PopContainerReads
  <2> QED
    BY <1>3, <2>1, <2>2
<1> QED
  BY <1>2, <1>4, <1>5, <1>6, <1>7, <1>8 DEF PopSteps

(* At the end of the array there is nothing to be read.                    *)
LEMMA PopAtEnd ==
  ASSUME Inside, PopSteps, frames = <<>>, m_index = Size
  PROVE  m_index' = m_index /\ PopReturns([NoAnswer EXCEPT !.returned = "false"])
<1>1. Size \in Nat
  BY LenProperties DEF Inside, Size
<1>2. \A type : ~Signed(type)
  BY <1>1, SignatureAllowed
<1>3. PopUnsigned
  BY <1>2 DEF PopSteps, PopString, PopContainerEnds, PopEmpty, PopScalar, PopContainer
<1>4. Fails(m_index)
  BY <1>3 DEF PopUnsigned
<1> QED
  BY <1>1, <1>4, MovesTo DEF Fails

-----------------------------------------------------------------------------
(* What is in the array, in every state: the whole values one after the    *)
(* other, a part of one more where rest says so, and what is being pushed  *)
(* or read.                                                                *)
LastEnd(w) == EndOf(w, Len(w))

EntryAt(a, w, k) ==
  \E v \in Values :
    w[k].value = Kept[v] /\ Lay(a, EndOf(w, k - 1), <<v>>, EndOf(w, k), <<>>)

TornAt(a, p) ==
  /\ p < Len(a)
  /\ \E v \in Values : \E q, t : q > Len(a) /\ Lay(a, p, <<v>>, q, t)

EntriesHold ==
  /\ Entries(written)
  /\ LastEnd(written) <= Size
  /\ \A k \in 1 .. Len(written) : EntryAt(m_byteArray, written, k)

RestHolds ==
  /\ rest \in {"nothing", "torn", "garbled"}
  /\ doing # "push" /\ rest = "nothing" => LastEnd(written) = Size
  /\ doing # "push" /\ rest = "torn" => TornAt(m_byteArray, LastEnd(written))

PushHolds ==
  doing = "push" =>
    /\ argument \in Values
    /\ rest = "nothing" =>
         /\ m_index <= LastEnd(written)
         /\ Lay(m_byteArray, LastEnd(written), <<argument>>, Size, todo)

ReadsFrom(k) ==
  /\ k < Len(written) =>
       \E v \in Values : /\ Kept[v] = written[k + 1].value
                         /\ ReadingOn(v, EndOf(written, k + 1), <<>>)
  /\ k = Len(written) /\ rest = "torn" =>
       /\ LastEnd(written) <= m_index /\ LastEnd(written) < Size
       /\ \E v \in Values : \E q, t : q > Size /\ ReadingOn(v, q, t)
  /\ k = Len(written) /\ rest = "nothing" => frames = <<>> /\ m_index = Size

PopHolds ==
  doing = "pop" =>
    /\ out = NoAnswer
    /\ \A k \in 0 .. Len(written) : begun = EndOf(written, k) => ReadsFrom(k)

Laid == EntriesHold /\ RestHolds /\ PushHolds /\ PopHolds

LEMMA LastEndIs ==
  ASSUME NEW w, Entries(w)
  PROVE  /\ LastEnd(w) \in Nat
         /\ \A k \in 0 .. Len(w) : EndOf(w, k) \in Nat /\ EndOf(w, k) <= LastEnd(w)
<1>1. Len(w) \in Nat /\ Len(w) \in 0 .. Len(w)
  BY LenProperties DEF Entries
<1>2. LastEnd(w) \in Nat
  BY <1>1, EndType DEF LastEnd
<1>3. ASSUME NEW k \in 0 .. Len(w) PROVE EndOf(w, k) \in Nat /\ EndOf(w, k) <= LastEnd(w)
  <2>1. EndOf(w, k) \in Nat
    BY EndType
  <2>2. k < Len(w) => EndOf(w, k) < LastEnd(w)
    BY <1>1 DEF Entries, LastEnd
  <2>3. k = Len(w) => EndOf(w, k) = LastEnd(w)
    BY DEF LastEnd
  <2> QED
    BY <1>1, <1>2, <2>1, <2>2, <2>3
<1> QED
  BY <1>2, <1>3

LEMMA EndIs ==
  ASSUME Entries(written)
  PROVE  End = LastEnd(written)
<1>1. written = <<>> <=> Len(written) = 0
  BY EmptySeq DEF Entries
<1> QED
  BY <1>1 DEF End, LastEnd, EndOf

(* What has been written stays where it is when more is appended.          *)
LEMMA LayKept ==
  ASSUME NEW a, NEW c, Len(a) \in Nat, Len(c) \in Nat, Len(a) <= Len(c),
         \A i \in 1 .. Len(a) : c[i] = a[i],
         NEW p, NEW s, NEW q, NEW t, Lay(a, p, s, q, t), q <= Len(a)
  PROVE  Lay(c, p, s, q, t)
<1>1. p \in Nat /\ q \in Nat /\ 0 <= p
  BY LayTypes
<1>2. ASSUME NEW i \in p + 1 .. q, i - 0 <= Len(c)
      PROVE  i <= Len(a) /\ c[i - 0] = a[i]
  <2>1. i - 0 = i /\ i \in 1 .. Len(a)
    BY <1>1
  <2> QED
    BY <2>1
<1>3. Lay(c, p - 0, s, q - 0, t)
  BY <1>1, <1>2, LayMoved
<1>4. p - 0 = p /\ q - 0 = q
  BY <1>1
<1> QED
  BY <1>3, <1>4

LEMMA AppendedTo ==
  ASSUME NEW a \in Seq(Byte), NEW b \in Seq(Byte), NEW c, c = a \o b
  PROVE  /\ Len(a) \in Nat /\ Len(b) \in Nat /\ Len(c) = Len(a) + Len(b)
         /\ \A i \in 1 .. Len(a) : c[i] = a[i]
         /\ \A j \in 1 .. Len(b) : c[Len(a) + j] = b[j]
<1>1. /\ Len(a) \in Nat /\ Len(b) \in Nat /\ Len(c) = Len(a) + Len(b)
      /\ \A i \in 1 .. Len(a) + Len(b) : c[i] = IF i <= Len(a) THEN a[i] ELSE b[i - Len(a)]
  BY ConcatProperties, LenProperties
<1>2. ASSUME NEW j \in 1 .. Len(b) PROVE c[Len(a) + j] = b[j]
  <2>1. /\ Len(a) + j \in 1 .. Len(a) + Len(b) /\ ~(Len(a) + j <= Len(a))
        /\ (Len(a) + j) - Len(a) = j
    BY <1>1
  <2> QED
    BY <1>1, <2>1
<1> QED
  BY <1>1, <1>2

LEMMA FirstPart ==
  ASSUME NEW S, NEW h \in Seq(S), NEW n \in 0 .. Len(h)
  PROVE  /\ SubSeq(h, 1, n) \in Seq(S) /\ Len(SubSeq(h, 1, n)) = n
         /\ \A j \in 1 .. n : SubSeq(h, 1, n)[j] = h[j]
<1>1. Len(h) \in Nat /\ n \in Nat /\ n <= Len(h)
  BY LenProperties
<1>2. \A i \in 1 .. n : h[i] \in S
  BY <1>1, ElementOfSeq
<1>3. /\ SubSeq(h, 1, n) \in Seq(S)
      /\ Len(SubSeq(h, 1, n)) = IF 1 <= n THEN n - 1 + 1 ELSE 0
      /\ \A i \in 1 .. n - 1 + 1 : SubSeq(h, 1, n)[i] = h[1 + i - 1]
  BY <1>1, <1>2, SubSeqProperties
<1>4. n - 1 + 1 = n /\ (~(1 <= n) => n = 0)
  BY <1>1
<1>5. \A i \in 1 .. n : 1 + i - 1 = i
  OBVIOUS
<1> QED
  BY <1>3, <1>4, <1>5

LEMMA EntriesStay ==
  ASSUME Inside, EntriesHold, NEW b \in Seq(Byte), Append_(b), written' = written
  PROVE  EntriesHold'
<1>1. /\ Len(m_byteArray) \in Nat /\ Len(m_byteArray') \in Nat
      /\ Len(m_byteArray) <= Len(m_byteArray')
      /\ \A i \in 1 .. Len(m_byteArray) : m_byteArray'[i] = m_byteArray[i]
  BY AppendedTo DEF Append_, Inside
<1>2. ASSUME NEW k \in 1 .. Len(written) PROVE EntryAt(m_byteArray', written, k)
  <2>1. PICK v \in Values : /\ written[k].value = Kept[v]
                            /\ Lay(m_byteArray, EndOf(written, k - 1), <<v>>,
                                   EndOf(written, k), <<>>)
    BY DEF EntriesHold, EntryAt
  <2>2. EndOf(written, k) <= Len(m_byteArray)
    <3>1. k \in 0 .. Len(written)
      OBVIOUS
    <3>2. /\ EndOf(written, k) \in Nat /\ EndOf(written, k) <= LastEnd(written)
          /\ LastEnd(written) \in Nat
      BY <3>1, LastEndIs DEF EntriesHold
    <3> QED
      BY <1>1, <3>2 DEF EntriesHold, Size
  <2>3. Lay(m_byteArray', EndOf(written, k - 1), <<v>>, EndOf(written, k), <<>>)
    BY <1>1, <2>1, <2>2, LayKept
  <2> QED
    BY <2>1, <2>3 DEF EntryAt
<1>3. LastEnd(written) <= Size'
  BY <1>1, LastEndIs DEF EntriesHold, Size
<1>4. \A k \in 1 .. Len(written') : EntryAt(m_byteArray, written, k)'
  BY <1>2 DEF EntryAt
<1> QED
  BY <1>3, <1>4 DEF EntriesHold

-----------------------------------------------------------------------------
(* Pushing.                                                                *)
LEMMA PushCallLays ==
  ASSUME Inside, StackKept, Laid, NEW v \in Values, PushCall(v)
  PROVE  Laid'
<1>1. /\ doing = "nothing" /\ doing' = "push" /\ todo' = <<v>> /\ argument' = v
      /\ m_byteArray' = m_byteArray /\ m_index' = m_index /\ written' = written
      /\ rest' = rest
  BY DEF PushCall
<1>2. EntriesHold' /\ RestHolds'
  BY <1>1 DEF Laid, EntriesHold, RestHolds, Size
<1>3. PopHolds'
  BY <1>1 DEF PopHolds
<1>4. ASSUME rest = "nothing"
      PROVE  /\ m_index <= LastEnd(written)
             /\ Lay(m_byteArray, LastEnd(written), <<v>>, Size, <<v>>)
  <2>1. LastEnd(written) = Size
    BY <1>1, <1>4 DEF Laid, RestHolds
  <2>2. Size \in Nat /\ <<v>> \in Seq(Values) /\ m_index <= Size
    BY LenProperties DEF Inside, ReadsInside, Size
  <2> QED
    BY <2>1, <2>2, LayNothing
<1>5. PushHolds'
  BY <1>1, <1>4 DEF PushHolds, Size
<1> QED
  BY <1>2, <1>3, <1>5 DEF Laid

(* What one pushValue() appends, as far as there is memory for it.         *)
LEMMA LayAppended ==
  ASSUME Inside, todo # <<>>, NEW n \in 0 .. Len(Header(Head(todo))),
         Append_(SubSeq(Header(Head(todo)), 1, n)),
         NEW p, NEW v, Lay(m_byteArray, p, <<v>>, Size, todo)
  PROVE  /\ Size' = Size + n
         /\ SubSeq(Header(Head(todo)), 1, n) \in Seq(Byte)
         /\ Lay(m_byteArray', p, <<v>>, Size + Len(Header(Head(todo))),
                Head(todo).items \o Tail(todo))
<1> DEFINE h == Header(Head(todo))
           b == SubSeq(h, 1, n)
<1>1. Head(todo) \in Values /\ Tail(todo) \in Seq(Values)
  BY HeadTailProperties DEF Inside
<1>2. h \in Seq(Byte) /\ Len(h) \in Nat
  BY <1>1, HeaderType, LenProperties
<1> HIDE DEF h
<1>3. b \in Seq(Byte) /\ Len(b) = n /\ \A j \in 1 .. n : b[j] = h[j]
  BY <1>2, FirstPart DEF h
<1> HIDE DEF b
<1>4. /\ Len(m_byteArray) \in Nat /\ Len(m_byteArray') = Len(m_byteArray) + n
      /\ \A i \in 1 .. Len(m_byteArray) : m_byteArray'[i] = m_byteArray[i]
      /\ \A j \in 1 .. n : m_byteArray'[Len(m_byteArray) + j] = b[j]
  BY <1>3, AppendedTo DEF Append_, Inside, b, h
<1>5. Lay(m_byteArray', p, <<v>>, Size, todo)
  <2>1. /\ Len(m_byteArray') \in Nat /\ Len(m_byteArray) <= Len(m_byteArray')
        /\ Size <= Len(m_byteArray)
    BY <1>4 DEF Size
  <2> QED
    BY <1>4, <2>1, LayKept
<1>6. Agree(m_byteArray', Size, h)
  <2>1. ASSUME NEW j \in 1 .. Len(h), Size + j <= Len(m_byteArray')
        PROVE  m_byteArray'[Size + j] = h[j]
    <3>1. j \in 1 .. n
      BY <1>2, <1>4, <2>1 DEF Size
    <3> QED
      BY <1>3, <1>4, <3>1 DEF Size
  <2> QED
    BY <2>1 DEF Agree
<1>7. Written(m_byteArray', Size, todo, Size + Len(h), Head(todo).items \o Tail(todo))
  BY <1>6 DEF Written, h
<1>8. Head(todo).items \o Tail(todo) \in Seq(Values) /\ Size + Len(h) \in Nat
      /\ Size <= Size + Len(h)
  BY <1>1, <1>2, <1>4, ValueType, ConcatProperties DEF Size
<1>9. Lay(m_byteArray', p, <<v>>, Size + Len(h), Head(todo).items \o Tail(todo))
  BY <1>5, <1>7, <1>8, LayLast
<1> QED
  BY <1>3, <1>4, <1>9 DEF Size, b, h

LEMMA PushValueLays ==
  ASSUME Inside, StackKept, Laid, PushValue
  PROVE  Laid'
<1> DEFINE h == Header(Head(todo))
<1>1. /\ todo # <<>> /\ Append_(h) /\ todo' = Head(todo).items \o Tail(todo)
      /\ UNCHANGED <<m_index, doing, argument, written, rest>> /\ doing = "push"
  BY DEF PushValue, history, StackKept
<1>2. h \in Seq(Byte) /\ Len(h) \in Nat /\ SubSeq(h, 1, Len(h)) = h
  <2>1. Head(todo) \in Values
    BY <1>1, HeadTailProperties DEF Inside
  <2>2. h \in Seq(Byte)
    BY <2>1, HeaderType
  <2> QED
    BY <2>2, LenProperties, SubSeqFull
<1>3. EntriesHold'
  BY <1>1, <1>2, EntriesStay DEF Laid
<1>4. RestHolds' /\ PopHolds'
  BY <1>1 DEF Laid, RestHolds, PopHolds
<1>5. ASSUME rest = "nothing"
      PROVE  Lay(m_byteArray', LastEnd(written), <<argument>>, Size', todo')
  <2>1. Lay(m_byteArray, LastEnd(written), <<argument>>, Size, todo)
    BY <1>1, <1>5 DEF Laid, PushHolds
  <2>2. Len(h) \in 0 .. Len(h) /\ Append_(SubSeq(h, 1, Len(h)))
    <3>1. Len(h) \in 0 .. Len(h)
      BY <1>2
    <3>2. SubSeq(h, 1, Len(h)) = h /\ Append_(h)
      BY <1>1, <1>2
    <3> HIDE DEF h
    <3> QED
      BY <3>1, <3>2 DEF Append_
  <2> QED
    BY <1>1, <2>1, <2>2, LayAppended
<1>6. PushHolds'
  BY <1>1, <1>5 DEF Laid, PushHolds
<1> QED
  BY <1>3, <1>4, <1>6 DEF Laid

LEMMA PushThrowsLays ==
  ASSUME Inside, StackKept, Laid, PushThrows
  PROVE  Laid'
<1> DEFINE h == Header(Head(todo))
<1>1. /\ todo # <<>> /\ Size + Len(h) > MaxBytes /\ doing' = "nothing"
      /\ UNCHANGED <<m_index, written>> /\ doing = "push"
  BY DEF PushThrows, StackKept
<1>2. PICK n \in 0 .. MaxBytes - Size :
        /\ Append_(SubSeq(h, 1, n))
        /\ rest' = IF rest # "nothing" THEN "garbled"
                   ELSE IF Size + n = End THEN "nothing" ELSE "torn"
  BY DEF PushThrows
<1>3. h \in Seq(Byte) /\ Len(h) \in Nat /\ Size \in Nat
  <2>1. Head(todo) \in Values
    BY <1>1, HeadTailProperties DEF Inside
  <2> QED
    BY <2>1, HeaderType, LenProperties DEF Inside, Size
<1>4. n \in Nat /\ n \in 0 .. Len(h) /\ Size + n <= MaxBytes
  BY <1>1, <1>2, <1>3, ConstantTypes DEF Inside
<1>5. SubSeq(h, 1, n) \in Seq(Byte) /\ Len(SubSeq(h, 1, n)) = n
  BY <1>3, <1>4, SubSeqType
<1>6. EntriesHold'
  BY <1>1, <1>2, <1>5, EntriesStay DEF Laid
<1>7. PushHolds' /\ PopHolds'
  BY <1>1 DEF PushHolds, PopHolds
<1>8. ASSUME rest # "nothing" PROVE RestHolds'
  <2>1. rest' = "garbled"
    BY <1>2, <1>8
  <2> QED
    BY <2>1 DEF RestHolds
<1>9. ASSUME rest = "nothing" PROVE RestHolds'
  <2>1. argument \in Values /\ Lay(m_byteArray, LastEnd(written), <<argument>>, Size, todo)
    BY <1>1, <1>9 DEF Laid, PushHolds
  <2>2. /\ Size' = Size + n
        /\ Lay(m_byteArray', LastEnd(written), <<argument>>, Size + Len(h),
               Head(todo).items \o Tail(todo))
    BY <1>1, <1>2, <1>4, <2>1, LayAppended
  <2>3. End = LastEnd(written) /\ LastEnd(written) \in Nat /\ LastEnd(written) <= Size
    BY EndIs, LastEndIs DEF Laid, EntriesHold
  <2>4. CASE Size + n = End
    <3>1. rest' = "nothing"
      BY <1>2, <1>9, <2>4
    <3>2. LastEnd(written') = Size'
      BY <1>1, <2>2, <2>3, <2>4
    <3> QED
      BY <3>1, <3>2 DEF RestHolds
  <2>5. CASE Size + n # End
    <3>1. LastEnd(written) < Size' /\ Size + Len(h) > Size'
      BY <1>1, <1>3, <1>4, <2>2, <2>3, <2>5, ConstantTypes
    <3>2. TornAt(m_byteArray', LastEnd(written))
      BY <2>1, <2>2, <3>1 DEF TornAt, Size
    <3>3. rest' = "torn"
      BY <1>2, <1>9, <2>5
    <3>4. TornAt(m_byteArray', LastEnd(written'))
      BY <1>1, <3>2
    <3> QED
      BY <3>3, <3>4 DEF RestHolds
  <2> QED
    BY <2>4, <2>5
<1> QED
  BY <1>6, <1>7, <1>8, <1>9 DEF Laid

(* One more whole value.                                                   *)
Appended(w, e, x) ==
  /\ Entries(x) /\ Len(w) \in Nat /\ Len(x) = Len(w) + 1
  /\ \A k \in 1 .. Len(w) : x[k] = w[k]
  /\ x[Len(w) + 1] = e
  /\ \A k \in 0 .. Len(w) : EndOf(x, k) = EndOf(w, k)
  /\ LastEnd(x) = e.end

LEMMA AppendedEntry ==
  ASSUME NEW w, Entries(w), NEW e \in Recorded, LastEnd(w) < e.end, NEW x, x = Append(w, e)
  PROVE  Appended(w, e, x)
<1>1. w \in Seq(Recorded) /\ Len(w) \in Nat
  BY LenProperties DEF Entries
<1>2. /\ x \in Seq(Recorded) /\ Len(x) = Len(w) + 1
      /\ \A k \in 1 .. Len(w) : x[k] = w[k]
      /\ x[Len(w) + 1] = e
  BY <1>1, AppendProperties
<1>3. \A k \in 0 .. Len(w) : EndOf(x, k) = EndOf(w, k)
  BY <1>1, <1>2 DEF EndOf
<1>4. EndOf(x, Len(w) + 1) = e.end /\ e.end \in Nat
  BY <1>1, <1>2 DEF EndOf, Recorded
<1>5. ASSUME NEW j \in 0 .. Len(x), NEW k \in 0 .. Len(x), j < k
      PROVE  EndOf(x, j) < EndOf(x, k)
  <2>1. j \in 0 .. Len(w)
    BY <1>1, <1>2, <1>5
  <2>2. CASE k \in 0 .. Len(w)
    <3>1. EndOf(w, j) < EndOf(w, k)
      BY <1>5, <2>1, <2>2 DEF Entries
    <3> QED
      BY <1>3, <2>1, <2>2, <3>1
  <2>3. CASE k = Len(w) + 1
    <3>1. EndOf(w, j) \in Nat /\ EndOf(w, j) <= LastEnd(w) /\ LastEnd(w) \in Nat
      BY <2>1, LastEndIs
    <3> QED
      BY <1>3, <1>4, <2>1, <2>3, <3>1
  <2> QED
    BY <1>1, <1>2, <2>2, <2>3
<1>6. Entries(x)
  BY <1>2, <1>5 DEF Entries
<1> QED
  BY <1>1, <1>2, <1>3, <1>4, <1>6 DEF LastEnd, Appended

LEMMA PushedSomething ==
  ASSUME Inside, Laid, doing = "push", todo = <<>>, rest = "nothing"
  PROVE  LastEnd(written) < Size
<1>1. argument \in Values /\ Lay(m_byteArray, LastEnd(written), <<argument>>, Size, <<>>)
  BY DEF Laid, PushHolds
<1>2. <<argument>> # <<>> /\ Head(<<argument>>) = argument
  OBVIOUS
<1>3. Lay(m_byteArray, LastEnd(written) + Len(Header(argument)),
          argument.items \o Tail(<<argument>>), Size, <<>>)
  BY <1>1, <1>2, LayFirst
<1>4. LastEnd(written) + Len(Header(argument)) <= Size
  BY <1>3, LayTypes
<1>5. Len(Header(argument)) \in Nat \ {0} /\ LastEnd(written) \in Nat /\ Size \in Nat
  BY <1>1, HeaderParts, LastEndIs, LenProperties DEF Laid, EntriesHold, Inside, Size
<1> QED
  BY <1>4, <1>5

LEMMA PushReturnLays ==
  ASSUME Inside, StackKept, Laid, PushReturn
  PROVE  Laid'
<1>1. /\ doing = "push" /\ todo = <<>> /\ doing' = "nothing"
      /\ UNCHANGED <<m_byteArray, m_index>> /\ Size' = Size
  BY DEF PushReturn, Size
<1>2. PushHolds' /\ PopHolds'
  BY <1>1 DEF PushHolds, PopHolds
<1>3. CASE rest # "nothing"
  <2>1. rest' = "garbled" /\ written' = written
    BY <1>3 DEF PushReturn
  <2>2. EntriesHold' /\ RestHolds'
    BY <1>1, <2>1 DEF Laid, EntriesHold, RestHolds
  <2> QED
    BY <1>2, <2>2 DEF Laid
<1>4. CASE rest = "nothing"
  <2> DEFINE e == [value |-> Kept[argument], end |-> Size]
  <2>1. written' = Append(written, e) /\ rest' = rest
    BY <1>4 DEF PushReturn
  <2>2. argument \in Values /\ Lay(m_byteArray, LastEnd(written), <<argument>>, Size, <<>>)
    BY <1>1, <1>4 DEF Laid, PushHolds
  <2>3. Size \in Nat
    BY LenProperties DEF Inside, Size
  <2>4. LastEnd(written) < Size
    BY <1>1, <1>4, PushedSomething
  <2>5. e \in Recorded /\ e.end = Size /\ e.value = Kept[argument]
    BY <2>2, <2>3 DEF Recorded
  <2> HIDE DEF e
  <2>6. /\ Entries(written') /\ Len(written) \in Nat /\ Len(written') = Len(written) + 1
        /\ \A k \in 1 .. Len(written) : written'[k] = written[k]
        /\ written'[Len(written) + 1] = e
        /\ \A k \in 0 .. Len(written) : EndOf(written', k) = EndOf(written, k)
        /\ LastEnd(written') = Size
    <3>1. Entries(written) /\ LastEnd(written) < e.end
      BY <2>4, <2>5 DEF Laid, EntriesHold
    <3>2. Appended(written, e, written')
      BY <2>1, <2>5, <3>1, AppendedEntry
    <3> QED
      BY <2>5, <3>2 DEF Appended
  <2>7. ASSUME NEW k \in 1 .. Len(written') PROVE EntryAt(m_byteArray', written', k)
    <3>1. CASE k \in 1 .. Len(written)
      <4>1. k - 1 \in 0 .. Len(written) /\ k \in 0 .. Len(written)
        BY <3>1, <2>6
      <4>2. PICK v \in Values : /\ written[k].value = Kept[v]
                                /\ Lay(m_byteArray, EndOf(written, k - 1), <<v>>,
                                       EndOf(written, k), <<>>)
        BY <3>1 DEF Laid, EntriesHold, EntryAt
      <4> QED
        BY <1>1, <2>6, <3>1, <4>1, <4>2 DEF EntryAt
    <3>2. CASE k = Len(written) + 1
      <4>1. k - 1 = Len(written) /\ Len(written) \in 0 .. Len(written)
        BY <2>6, <3>2
      <4>2. EndOf(written', k - 1) = LastEnd(written)
        BY <2>6, <4>1 DEF LastEnd
      <4>3. EndOf(written', k) = Size
        BY <2>6, <3>2 DEF LastEnd
      <4>4. written'[k].value = Kept[argument]
        BY <2>5, <2>6, <3>2
      <4>5. Lay(m_byteArray', EndOf(written', k - 1), <<argument>>, EndOf(written', k), <<>>)
        BY <1>1, <2>2, <4>2, <4>3
      <4> QED
        BY <2>2, <4>4, <4>5 DEF EntryAt
    <3> QED
      BY <2>6, <3>1, <3>2
  <2>8. EntriesHold'
    <3>1. LastEnd(written') <= Size'
      BY <1>1, <2>3, <2>6
    <3>2. \A k \in 1 .. Len(written') : EntryAt(m_byteArray, written, k)'
      BY <2>7 DEF EntryAt
    <3> QED
      BY <2>6, <3>1, <3>2 DEF EntriesHold
  <2>9. RestHolds'
    BY <1>1, <1>4, <2>1, <2>6 DEF RestHolds
  <2> QED
    BY <1>2, <2>8, <2>9 DEF Laid
<1> QED
  BY <1>3, <1>4


-----------------------------------------------------------------------------
(* Cutting: initWith() with a part of the array.                           *)
LEMMA NothingWritten ==
  Entries(<<>>) /\ Len(<<>>) = 0 /\ LastEnd(<<>>) = 0
<1>1. <<>> \in Seq(Recorded) /\ Len(<<>>) = 0
  BY EmptySeq
<1>2. \A j, k \in 0 .. 0 : ~(j < k)
  OBVIOUS
<1> QED
  BY <1>1, <1>2 DEF Entries, LastEnd, EndOf

LEMMA SameInterval ==
  ASSUME NEW a \in Nat, NEW b \in Nat, 1 .. a = 1 .. b
  PROVE  a = b
<1>1. a \in 1 .. a \/ a = 0
  OBVIOUS
<1>2. b \in 1 .. b \/ b = 0
  OBVIOUS
<1> QED
  BY <1>1, <1>2

(* x is what is left of w: the values after the first f, up to number l.   *)
Part(w, f, l, x) ==
  /\ Entries(x) /\ Len(x) = l - f
  /\ \A k \in 0 .. l - f : EndOf(x, k) = EndOf(w, f + k) - EndOf(w, f)
  /\ \A k \in 1 .. l - f : x[k].value = w[f + k].value

LEMMA PartIs ==
  ASSUME NEW w, Entries(w), NEW f \in 0 .. Len(w), NEW l \in f .. Len(w),
         NEW part, part = SubSeq(w, f + 1, l),
         NEW x, x = [i \in DOMAIN part |-> [part[i] EXCEPT !.end = @ - EndOf(w, f)]]
  PROVE  Part(w, f, l, x)
<1> DEFINE b == EndOf(w, f)
           n == l - f
<1>1. w \in Seq(Recorded) /\ Len(w) \in Nat /\ b \in Nat
  BY EndType, LenProperties DEF Entries
<1>2. f \in Nat /\ l \in Nat /\ f <= l /\ l <= Len(w) /\ n \in Nat
  BY <1>1
<1>3. /\ part \in Seq(Recorded) /\ Len(part) = n
      /\ \A i \in 1 .. n : part[i] = w[f + i]
  <2>1. \A i \in f + 1 .. l : w[i] \in Recorded
    BY <1>1, <1>2, ElementOfSeq
  <2>2. /\ part \in Seq(Recorded)
        /\ Len(part) = IF f + 1 <= l THEN l - (f + 1) + 1 ELSE 0
        /\ \A i \in 1 .. l - (f + 1) + 1 : part[i] = w[f + 1 + i - 1]
    BY <1>2, <2>1, SubSeqProperties
  <2>3. l - (f + 1) + 1 = n /\ (~(f + 1 <= l) => n = 0)
    BY <1>2
  <2>4. \A i \in 1 .. n : f + 1 + i - 1 = f + i
    BY <1>2
  <2> QED
    BY <2>2, <2>3, <2>4
<1>4. DOMAIN part = 1 .. n
  BY <1>3, LenProperties
<1>5. ASSUME NEW i \in 1 .. n
      PROVE  /\ x[i].value = w[f + i].value /\ x[i].end = EndOf(w, f + i) - b
             /\ x[i] \in Recorded /\ x[i].end \in Nat
  <2>1. f + i \in 0 .. Len(w) /\ f + i # 0 /\ f < f + i /\ f \in 0 .. Len(w)
    BY <1>1, <1>2
  <2>2. w[f + i] \in Recorded /\ EndOf(w, f + i) = w[f + i].end /\ EndOf(w, f + i) \in Nat
    BY <2>1, EndType
  <2>3. b < EndOf(w, f + i)
    BY <2>1 DEF Entries
  <2>4. x[i] = [w[f + i] EXCEPT !.end = @ - b]
    BY <1>3, <1>4
  <2> HIDE DEF b
  <2>5. x[i].value = w[f + i].value /\ x[i].end = w[f + i].end - b
    BY <2>2, <2>4 DEF Recorded
  <2>6. w[f + i].end - b \in Nat
    BY <1>1, <2>2, <2>3
  <2>7. x[i] \in Recorded
    BY <2>2, <2>4, <2>6 DEF Recorded
  <2> QED
    BY <2>2, <2>5, <2>6, <2>7
<1>6. x \in [1 .. n -> Recorded]
  BY <1>4, <1>5
<1>7. x \in Seq(Recorded) /\ Len(x) = n
  <2> HIDE DEF n
  <2>1. x \in Seq(Recorded)
    BY ONLY <1>2, <1>6, SeqDef
  <2>2. DOMAIN x = 1 .. n /\ DOMAIN x = 1 .. Len(x) /\ Len(x) \in Nat
    BY <1>6, <2>1, LenProperties
  <2>3. Len(x) = n
    BY ONLY <1>2, <2>2, SameInterval
  <2> QED
    BY <2>1, <2>3
<1>8. ASSUME NEW k \in 0 .. n PROVE EndOf(x, k) = EndOf(w, f + k) - b
  <2>1. CASE k = 0
    <3>1. f + k = f /\ b - b = 0
      BY <1>1, <1>2, <2>1
    <3> QED
      BY <2>1, <3>1 DEF EndOf
  <2>2. CASE k # 0
    <3>1. k \in 1 .. n
      BY <1>2, <2>2
    <3> QED
      BY <1>5, <2>2, <3>1 DEF EndOf
  <2> QED
    BY <2>1, <2>2
<1>9. ASSUME NEW j \in 0 .. n, NEW k \in 0 .. n, j < k
      PROVE  EndOf(x, j) < EndOf(x, k)
  <2>1. f + j \in 0 .. Len(w) /\ f + k \in 0 .. Len(w) /\ f + j < f + k
    BY <1>1, <1>2, <1>9
  <2>2. EndOf(w, f + j) < EndOf(w, f + k)
    BY <2>1 DEF Entries
  <2>3. EndOf(w, f + j) \in Nat /\ EndOf(w, f + k) \in Nat
    BY <2>1, EndType
  <2>4. EndOf(x, j) = EndOf(w, f + j) - b /\ EndOf(x, k) = EndOf(w, f + k) - b
    BY <1>8
  <2> HIDE DEF b
  <2> QED
    BY ONLY <1>1, <2>2, <2>3, <2>4
<1>10. Entries(x)
  BY <1>7, <1>9 DEF Entries
<1> QED
  BY <1>5, <1>7, <1>8, <1>10 DEF Part

(* What Cut() keeps: the whole values from begin on that end before end.   *)
LEMMA CutIs ==
  ASSUME Entries(written), NEW begin \in Nat, NEW end \in Nat, begin <= end,
         BoundaryIn(written, begin), Cut(begin, end)
  PROVE  \E f \in 0 .. Len(written) : \E l \in f .. Len(written) :
           /\ EndOf(written, f) = begin
           /\ EndOf(written, l) <= end
           /\ l < Len(written) => end < EndOf(written, l + 1)
           /\ BoundaryIn(written, end) => EndOf(written, l) = end
           /\ Part(written, f, l, written')
<1> DEFINE f == BeforeIn(written, begin)
           l == BeforeIn(written, end)
<1>1. f \in 0 .. Len(written) /\ l \in 0 .. Len(written) /\ Len(written) \in Nat
  BY BeforeIs, LenProperties DEF Entries
<1>2. EndOf(written, f) = begin
  BY PositionIs DEF PositionIn
<1>3. BoundaryIn(written, end) => EndOf(written, l) = end
  BY PositionIs DEF PositionIn
<1>4. \A k \in 0 .. Len(written) : EndOf(written, k) <= end <=> k <= l
  BY BeforeIs
<1>5. EndOf(written, l) <= end
  BY <1>1, <1>4
<1>6. l \in f .. Len(written)
  BY <1>1, <1>2, <1>4
<1>7. ASSUME l < Len(written) PROVE end < EndOf(written, l + 1)
  <2>1. l + 1 \in 0 .. Len(written) /\ ~(l + 1 <= l)
    BY <1>1, <1>7
  <2>2. ~(EndOf(written, l + 1) <= end) /\ EndOf(written, l + 1) \in Nat
    BY <1>4, <2>1, EndType
  <2> QED
    BY <2>2
<1>8. Part(written, f, l, written')
  <2> DEFINE part == SubSeq(written, Before(begin) + 1, Before(end))
  <2>1. part = SubSeq(written, f + 1, l)
    BY DEF Before, BeforeIn
  <2>2. Boundary(begin)
    BY DEF Boundary, BoundaryIn
  <2>3. written' = [i \in DOMAIN part |-> [part[i] EXCEPT !.end = @ - begin]]
    BY <2>2 DEF Cut
  <2> HIDE DEF part, f, l
  <2>4. written' = [i \in DOMAIN part |-> [part[i] EXCEPT !.end = @ - EndOf(written, f)]]
    BY <1>2, <2>3
  <2> QED
    BY <1>1, <1>6, <2>1, <2>4, PartIs
<1> QED
  BY <1>1, <1>2, <1>3, <1>5, <1>6, <1>7, <1>8

LEMMA SliceProperties ==
  ASSUME Inside, NEW begin \in Nat, NEW size \in Nat, begin + size <= Size,
         m_byteArray' = Slice(begin, size)
  PROVE  /\ Len(m_byteArray') = size
         /\ \A i \in 1 .. size : m_byteArray'[i] = m_byteArray[begin + i]
<1>1. m_byteArray \in Seq(Byte) /\ Size \in Nat /\ Len(m_byteArray) = Size
  BY LenProperties DEF Inside, Size
<1>2. \A i \in begin + 1 .. begin + size : m_byteArray[i] \in Byte
  BY <1>1, ElementOfSeq
<1>3. LET part == SubSeq(m_byteArray, begin + 1, begin + size)
      IN  /\ Len(part) = IF begin + 1 <= begin + size
                         THEN begin + size - (begin + 1) + 1 ELSE 0
          /\ \A i \in 1 .. begin + size - (begin + 1) + 1 :
               part[i] = m_byteArray[begin + 1 + i - 1]
  BY <1>2, SubSeqProperties
<1>4. /\ begin + size - (begin + 1) + 1 = size
      /\ ~(begin + 1 <= begin + size) => size = 0
      /\ \A i \in 1 .. size : begin + 1 + i - 1 = begin + i
  OBVIOUS
<1> QED
  BY <1>3, <1>4 DEF Slice

LEMMA LaySliced ==
  ASSUME Inside, NEW begin \in 0 .. Size, NEW size \in 0 .. Size - begin,
         m_byteArray' = Slice(begin, size),
         NEW p, NEW s, NEW q, NEW t, Lay(m_byteArray, p, s, q, t), begin <= p
  PROVE  Lay(m_byteArray', p - begin, s, q - begin, t)
<1>1. /\ Len(m_byteArray) = Size /\ Size \in Nat /\ begin \in Nat /\ size \in Nat
      /\ begin + size <= Size /\ p \in Nat /\ q \in Nat
  BY LayTypes, LenProperties DEF Inside, Size
<1>2. /\ Len(m_byteArray') = size
      /\ \A i \in 1 .. size : m_byteArray'[i] = m_byteArray[begin + i]
  BY <1>1, SliceProperties
<1>3. ASSUME NEW i \in p + 1 .. q, i - begin <= Len(m_byteArray')
      PROVE  i <= Len(m_byteArray) /\ m_byteArray'[i - begin] = m_byteArray[i]
  <2>1. i - begin \in 1 .. size /\ begin + (i - begin) = i /\ i <= Size
    BY <1>1, <1>2, <1>3
  <2> QED
    BY <1>1, <1>2, <2>1
<1> QED
  BY <1>1, <1>2, <1>3, LayMoved

LEMMA InitWithLays ==
  ASSUME Inside, StackKept, Laid, NEW begin \in 0 .. Size, NEW size \in 0 .. Size - begin,
         InitWith(begin, size)
  PROVE  Laid'
<1> DEFINE end == begin + size
<1>1. /\ doing = "nothing" /\ doing' = "nothing" /\ m_byteArray' = Slice(begin, size)
      /\ Cut(begin, end)
  BY DEF InitWith
<1>2. /\ Size \in Nat /\ begin \in Nat /\ size \in Nat /\ end \in Nat /\ begin <= end
      /\ end <= Size /\ end - begin = size /\ Len(m_byteArray) = Size
  BY LenProperties DEF Inside, Size
<1>3. Len(m_byteArray') = size /\ Size' = size
  BY <1>1, <1>2, SliceProperties DEF Size
<1>4. PushHolds' /\ PopHolds'
  BY <1>1 DEF PushHolds, PopHolds
<1>5. ASSUME ~Boundary(begin) PROVE EntriesHold' /\ RestHolds'
  <2>1. written' = <<>> /\ rest' = IF begin = end THEN "nothing" ELSE "garbled"
    BY <1>1, <1>5 DEF Cut
  <2>2. Entries(written') /\ Len(written') = 0 /\ LastEnd(written') = 0
    BY <2>1, NothingWritten
  <2>3. EntriesHold'
    <3>1. \A k \in 1 .. Len(written') : EntryAt(m_byteArray, written, k)'
      BY <2>2
    <3> QED
      BY <1>2, <1>3, <2>2, <3>1 DEF EntriesHold
  <2>4. rest' = "nothing" => LastEnd(written') = Size'
    BY <1>2, <1>3, <2>1, <2>2
  <2> QED
    BY <2>1, <2>3, <2>4 DEF RestHolds
<1>6. ASSUME Boundary(begin) PROVE EntriesHold' /\ RestHolds'
  <2>1. Entries(written) /\ BoundaryIn(written, begin)
    BY <1>6 DEF Laid, EntriesHold, Boundary, BoundaryIn
  <2>2. PICK f \in 0 .. Len(written) : \E l \in f .. Len(written) :
           /\ EndOf(written, f) = begin
           /\ EndOf(written, l) <= end
           /\ l < Len(written) => end < EndOf(written, l + 1)
           /\ BoundaryIn(written, end) => EndOf(written, l) = end
           /\ Part(written, f, l, written')
    BY <1>1, <1>2, <2>1, CutIs
  <2>3. PICK l \in f .. Len(written) :
           /\ EndOf(written, f) = begin
           /\ EndOf(written, l) <= end
           /\ l < Len(written) => end < EndOf(written, l + 1)
           /\ BoundaryIn(written, end) => EndOf(written, l) = end
           /\ Part(written, f, l, written')
    BY <2>2
  <2>4. Len(written) \in Nat /\ f \in Nat /\ l \in Nat /\ f <= l /\ l <= Len(written)
        /\ l \in 0 .. Len(written) /\ l - f \in 0 .. l - f /\ f + (l - f) = l
    BY <2>1, LenProperties DEF Entries
  <2>5. /\ Entries(written') /\ Len(written') = l - f
        /\ LastEnd(written') = EndOf(written, l) - begin
    BY <2>3, <2>4 DEF Part, LastEnd
  <2>6. EndOf(written, l) \in Nat /\ begin <= EndOf(written, l)
    <3>1. f < l => EndOf(written, f) < EndOf(written, l)
      BY <2>1, <2>4 DEF Entries
    <3>2. EndOf(written, l) \in Nat
      BY <2>1, <2>4, EndType
    <3> QED
      BY <1>2, <2>3, <2>4, <3>1, <3>2
  <2>7. LastEnd(written') <= Size'
    BY <1>2, <1>3, <2>3, <2>5, <2>6
  <2>8. ASSUME NEW k \in 1 .. Len(written') PROVE EntryAt(m_byteArray', written', k)
    <3>1. /\ f + k \in 1 .. Len(written) /\ k \in 1 .. l - f /\ k \in 0 .. l - f
          /\ k - 1 \in 0 .. l - f /\ f + (k - 1) = (f + k) - 1
          /\ (f + k) - 1 \in 0 .. Len(written) /\ f \in 0 .. Len(written)
      BY <2>4, <2>5
    <3>2. PICK v \in Values : /\ written[f + k].value = Kept[v]
                              /\ Lay(m_byteArray, EndOf(written, (f + k) - 1), <<v>>,
                                     EndOf(written, f + k), <<>>)
      BY <3>1 DEF Laid, EntriesHold, EntryAt
    <3>3. /\ EndOf(written', k) = EndOf(written, f + k) - begin
          /\ EndOf(written', k - 1) = EndOf(written, (f + k) - 1) - begin
          /\ written'[k].value = written[f + k].value
      BY <2>3, <3>1 DEF Part
    <3>4. begin <= EndOf(written, (f + k) - 1)
      <4>1. f < (f + k) - 1 \/ f = (f + k) - 1
        BY <2>4, <3>1
      <4>2. f < (f + k) - 1 => EndOf(written, f) < EndOf(written, (f + k) - 1)
        BY <2>1, <3>1 DEF Entries
      <4>3. EndOf(written, (f + k) - 1) \in Nat
        BY <2>1, <3>1, EndType
      <4> QED
        BY <1>2, <2>3, <4>1, <4>2, <4>3
    <3>5. Lay(m_byteArray', EndOf(written, (f + k) - 1) - begin, <<v>>,
              EndOf(written, f + k) - begin, <<>>)
      BY <1>1, <3>2, <3>4, LaySliced
    <3> QED
      BY <3>2, <3>3, <3>5 DEF EntryAt
  <2>9. EntriesHold'
    <3>1. \A k \in 1 .. Len(written') : EntryAt(m_byteArray, written, k)'
      BY <2>8 DEF EntryAt
    <3> QED
      BY <2>5, <2>7, <3>1 DEF EntriesHold
  <2>10. rest' = IF Boundary(end) THEN "nothing" ELSE IF end > End THEN rest ELSE "torn"
    BY <1>1, <1>6 DEF Cut
  <2>11. Boundary(end) <=> BoundaryIn(written, end)
    BY DEF Boundary, BoundaryIn
  <2>12. End = LastEnd(written) /\ LastEnd(written) \in Nat
    BY <2>1, EndIs, LastEndIs
  <2>13. ASSUME NEW v \in Values, NEW q, NEW t, Lay(m_byteArray, EndOf(written, l), <<v>>, q, t),
                q > end, EndOf(written, l) < end
         PROVE  TornAt(m_byteArray', LastEnd(written'))
    <3>1. /\ Lay(m_byteArray', EndOf(written, l) - begin, <<v>>, q - begin, t)
          /\ q \in Nat
      BY <1>1, <2>6, <2>13, LaySliced, LayTypes
    <3>2. q - begin > Len(m_byteArray') /\ EndOf(written, l) - begin < Len(m_byteArray')
      BY <1>2, <1>3, <2>6, <2>13, <3>1
    <3> QED
      BY <2>5, <3>1, <3>2 DEF TornAt
  <2>14. CASE Boundary(end)
    <3>1. rest' = "nothing" /\ LastEnd(written') = Size'
      BY <1>2, <1>3, <2>3, <2>5, <2>10, <2>11, <2>14
    <3> QED
      BY <2>9, <3>1 DEF RestHolds
  <2>15. CASE ~Boundary(end) /\ end > End
    <3>1. rest' = rest
      BY <2>10, <2>15
    <3>2. l = Len(written)
      <4>1. ASSUME l < Len(written) PROVE FALSE
        <5>1. l + 1 \in 0 .. Len(written)
          BY <2>4, <4>1
        <5>2. EndOf(written, l + 1) \in Nat /\ EndOf(written, l + 1) <= LastEnd(written)
          BY <2>1, <5>1, LastEndIs
        <5> QED
          BY <1>2, <2>3, <2>12, <2>15, <4>1, <5>2
      <4> QED
        BY <2>4, <4>1
    <3>3. EndOf(written, l) = LastEnd(written) /\ EndOf(written, l) < end
      BY <2>12, <2>15, <3>2 DEF LastEnd
    <3>4. rest # "nothing"
      BY <1>1, <1>2, <2>12, <2>15 DEF Laid, RestHolds
    <3>5. ASSUME rest = "torn" PROVE TornAt(m_byteArray', LastEnd(written'))
      <4>1. TornAt(m_byteArray, LastEnd(written))
        BY <1>1, <3>5 DEF Laid, RestHolds
      <4>2. PICK v \in Values : \E q, t :
              q > Len(m_byteArray) /\ Lay(m_byteArray, LastEnd(written), <<v>>, q, t)
        BY <4>1 DEF TornAt
      <4>3. PICK q, t : q > Len(m_byteArray) /\ Lay(m_byteArray, LastEnd(written), <<v>>, q, t)
        BY <4>2
      <4>4. q \in Nat
        BY <4>3, LayTypes
      <4>5. q > end
        BY <1>2, <4>3, <4>4
      <4> QED
        BY <2>13, <3>3, <4>3, <4>5
    <3>6. rest \in {"nothing", "torn", "garbled"}
      BY DEF Laid, RestHolds
    <3> QED
      BY <2>9, <3>1, <3>4, <3>5, <3>6 DEF RestHolds
  <2>16. CASE ~Boundary(end) /\ ~(end > End)
    <3>1. rest' = "torn"
      BY <2>10, <2>16
    <3>2. EndOf(written, l) < end
      <4>1. EndOf(written, l) # end
        BY <2>1, <2>4, <2>11, <2>16, BoundaryIs
      <4> QED
        BY <1>2, <2>3, <2>6, <4>1
    <3>3. l < Len(written) /\ l + 1 \in 1 .. Len(written)
      <4>1. l # Len(written)
        BY <1>2, <2>12, <2>16, <3>2 DEF LastEnd
      <4> QED
        BY <2>4, <4>1
    <3>4. PICK v \in Values : Lay(m_byteArray, EndOf(written, (l + 1) - 1), <<v>>,
                                  EndOf(written, l + 1), <<>>)
      BY <3>3 DEF Laid, EntriesHold, EntryAt
    <3>5. (l + 1) - 1 = l
      BY <2>4
    <3>6. EndOf(written, l + 1) \in Nat
      BY <3>4, LayTypes
    <3>7. EndOf(written, l + 1) > end
      BY <1>2, <2>3, <3>3, <3>6
    <3>8. TornAt(m_byteArray', LastEnd(written'))
      BY <2>13, <3>2, <3>4, <3>5, <3>7
    <3> QED
      BY <2>9, <3>1, <3>8 DEF RestHolds
  <2> QED
    BY <2>14, <2>15, <2>16
<1> QED
  BY <1>4, <1>5, <1>6 DEF Laid

-----------------------------------------------------------------------------
(* Popping.                                                                *)
LEMMA PopCallLays ==
  ASSUME Inside, StackKept, Laid, PopCall
  PROVE  Laid'
<1>1. /\ doing = "nothing" /\ doing' = "pop" /\ out' = NoAnswer /\ begun' = m_index
      /\ m_byteArray' = m_byteArray /\ m_index' = m_index /\ frames' = frames
      /\ written' = written /\ rest' = rest /\ frames = <<>> /\ Size' = Size
  BY DEF PopCall, StackKept, Size
<1>2. EntriesHold'
  BY <1>1 DEF Laid, EntriesHold
<1>3. RestHolds' /\ PushHolds'
  BY <1>1 DEF Laid, RestHolds, PushHolds
<1>4. Entries(written) /\ Len(written) \in Nat /\ Size \in Nat /\ m_index \in Nat
  BY LenProperties DEF Laid, EntriesHold, Entries, Inside, Size
<1>5. ASSUME NEW v \in Values, NEW q, NEW t, Lay(m_byteArray, m_index, <<v>>, q, t)
      PROVE  ReadingOn(v, q, t)'
  BY <1>1, <1>5, ExpectsAtFirst DEF ReadingOn
<1>6. ASSUME NEW k \in 0 .. Len(written), m_index = EndOf(written, k)
      PROVE  ReadsFrom(k)'
  <2>1. ASSUME k < Len(written)
        PROVE  \E v \in Values : /\ Kept[v] = written'[k + 1].value
                                 /\ ReadingOn(v, EndOf(written, k + 1), <<>>)'
    <3>1. k + 1 \in 1 .. Len(written) /\ (k + 1) - 1 = k
      BY <1>4, <2>1
    <3>2. PICK v \in Values : /\ written[k + 1].value = Kept[v]
                              /\ Lay(m_byteArray, EndOf(written, (k + 1) - 1), <<v>>,
                                     EndOf(written, k + 1), <<>>)
      BY <3>1 DEF Laid, EntriesHold, EntryAt
    <3>3. PICK q : q = EndOf(written, k + 1)
      OBVIOUS
    <3>4. ReadingOn(v, q, <<>>)'
      BY <1>5, <1>6, <3>1, <3>2, <3>3
    <3>5. ReadingOn(v, EndOf(written, k + 1), <<>>)'
      BY <1>1, <3>3, <3>4
    <3> QED
      BY <1>1, <3>2, <3>5
  <2>2. ASSUME k = Len(written), rest = "torn"
        PROVE  /\ LastEnd(written) <= m_index /\ LastEnd(written) < Size
               /\ \E v \in Values : \E q, t : q > Size /\ ReadingOn(v, q, t)'
    <3>1. m_index = LastEnd(written) /\ TornAt(m_byteArray, LastEnd(written))
      BY <1>1, <1>6, <2>2 DEF LastEnd, Laid, RestHolds
    <3>2. PICK v \in Values : \E q, t :
            q > Size /\ Lay(m_byteArray, LastEnd(written), <<v>>, q, t)
      BY <3>1 DEF TornAt, Size
    <3>3. PICK q, t : q > Size /\ Lay(m_byteArray, LastEnd(written), <<v>>, q, t)
      BY <3>2
    <3>4. ReadingOn(v, q, t)'
      BY <1>5, <3>1, <3>3
    <3>5. LastEnd(written) <= m_index /\ LastEnd(written) < Size
      BY <1>4, <3>1 DEF TornAt, Size
    <3> QED
      BY <3>3, <3>4, <3>5
  <2>3. ASSUME k = Len(written), rest = "nothing" PROVE m_index = Size
    BY <1>1, <1>6, <2>3 DEF LastEnd, Laid, RestHolds
  <2> QED
    BY <1>1, <2>1, <2>2, <2>3 DEF ReadsFrom
<1>7. PopHolds'
  BY <1>1, <1>6 DEF PopHolds
<1> QED
  BY <1>2, <1>3, <1>7 DEF Laid

LEMMA PopStepLays ==
  ASSUME AllShort, Inside, Inside', StackKept, Laid, PopSteps
  PROVE  Laid'
<1>1. /\ doing = "pop" /\ UNCHANGED <<m_byteArray, todo, argument, written, rest>>
      /\ Size' = Size
      /\ (doing' = "nothing" /\ begun' = 0) \/ UNCHANGED <<doing, out, begun>>
  BY PopStepsAre DEF Size
<1>2. EntriesHold'
  BY <1>1 DEF Laid, EntriesHold
<1>3. RestHolds' /\ PushHolds'
  BY <1>1 DEF Laid, RestHolds, PushHolds
<1>4. CASE doing' = "nothing"
  BY <1>2, <1>3, <1>4 DEF Laid, PopHolds
<1>5. CASE UNCHANGED <<doing, out, begun>>
  <2>1. doing' = "pop" /\ ~(\E answer : PopReturns(answer))
    BY <1>1, <1>5 DEF PopReturns
  <2>2. ASSUME NEW v \in Values, NEW q, NEW t, ReadingOn(v, q, t), q > Size \/ t = <<>>
        PROVE  ReadingOn(v, q, t)' /\ m_index <= m_index'
    <3>1. Continues(v, q, t) \/ Finishes(v, q) \/ (q > Size /\ Breaks)
      BY <2>2, PopStepReads
    <3> QED
      BY <2>1, <3>1 DEF Continues, Finishes, Breaks
  <2>3. ASSUME NEW k \in 0 .. Len(written), ReadsFrom(k)
        PROVE  ReadsFrom(k)'
    <3>1. ASSUME k < Len(written)
          PROVE  \E v \in Values : /\ Kept[v] = written'[k + 1].value
                                   /\ ReadingOn(v, EndOf(written, k + 1), <<>>)'
      <4>1. PICK v \in Values : /\ Kept[v] = written[k + 1].value
                                /\ ReadingOn(v, EndOf(written, k + 1), <<>>)
        BY <2>3, <3>1 DEF ReadsFrom
      <4>2. PICK q : q = EndOf(written, k + 1)
        OBVIOUS
      <4>3. ReadingOn(v, q, <<>>)'
        BY <2>2, <4>1, <4>2
      <4>4. ReadingOn(v, EndOf(written, k + 1), <<>>)'
        BY <1>1, <4>2, <4>3
      <4> QED
        BY <1>1, <4>1, <4>4
    <3>2. ASSUME k = Len(written), rest = "torn"
          PROVE  /\ LastEnd(written) <= m_index' /\ LastEnd(written) < Size
                 /\ \E v \in Values : \E q, t : q > Size /\ ReadingOn(v, q, t)'
      <4>1. /\ LastEnd(written) <= m_index /\ LastEnd(written) < Size
            /\ \E v \in Values : \E q, t : q > Size /\ ReadingOn(v, q, t)
        BY <2>3, <3>2 DEF ReadsFrom
      <4>2. PICK v \in Values : \E q, t : q > Size /\ ReadingOn(v, q, t)
        BY <4>1
      <4>3. PICK q, t : q > Size /\ ReadingOn(v, q, t)
        BY <4>2
      <4>4. ReadingOn(v, q, t)' /\ m_index <= m_index'
        BY <2>2, <4>3
      <4>5. LastEnd(written) \in Nat /\ m_index \in Nat /\ m_index' \in Nat
        <5>1. m_index \in Nat /\ m_index' \in Nat
          BY DEF Inside
        <5> QED
          BY <5>1, LastEndIs DEF Laid, EntriesHold
      <4> QED
        BY <4>1, <4>3, <4>4, <4>5
    <3>3. ASSUME k = Len(written), rest = "nothing" PROVE FALSE
      <4>1. frames = <<>> /\ m_index = Size
        BY <2>3, <3>3 DEF ReadsFrom
      <4> QED
        BY <2>1, <4>1, PopAtEnd
    <3> QED
      BY <1>1, <3>1, <3>2, <3>3 DEF ReadsFrom
  <2>4. PopHolds'
    BY <1>1, <1>5, <2>3 DEF Laid, PopHolds
  <2> QED
    BY <1>2, <1>3, <2>4 DEF Laid
<1> QED
  BY <1>1, <1>4, <1>5

LEMMA ResetLays ==
  ASSUME Laid, Reset
  PROVE  Laid'
<1>1. /\ doing = "nothing" /\ doing' = "nothing"
      /\ UNCHANGED <<m_byteArray, written, rest>> /\ Size' = Size
  BY DEF Reset, history, Size
<1> QED
  BY <1>1 DEF Laid, EntriesHold, RestHolds, PushHolds, PopHolds

LEMMA LaidInit == SerializerInit => Laid
<1> SUFFICES ASSUME SerializerInit PROVE Laid
  OBVIOUS
<1>1. /\ written = <<>> /\ rest = "nothing" /\ doing = "nothing" /\ Size = 0
  BY EmptySeq DEF SerializerInit, Size
<1>2. Entries(written) /\ Len(written) = 0 /\ LastEnd(written) = 0
  BY <1>1, NothingWritten
<1>3. EntriesHold
  BY <1>1, <1>2 DEF EntriesHold
<1> QED
  BY <1>1, <1>2, <1>3 DEF Laid, RestHolds, PushHolds, PopHolds

LEMMA LaidStep ==
  ASSUME AllShort, Inside, Inside', StackKept, Laid, [SerializerNext]_serializerVars
  PROVE  Laid'
<1>1. ASSUME NEW v \in Arguments, PushCall(v) PROVE Laid'
  BY <1>1, PushCallLays, SerializerAssumption
<1>2. ASSUME PushValue \/ PushThrows \/ PushReturn PROVE Laid'
  BY <1>2, PushValueLays, PushThrowsLays, PushReturnLays
<1>3. ASSUME PopCall \/ PopSteps \/ Reset PROVE Laid'
  BY <1>3, PopCallLays, PopStepLays, ResetLays
<1>4. ASSUME NEW begin \in ({0, m_index} \cup Cuts) \cap (0 .. Size),
             NEW size \in 0 .. Size - begin, InitWith(begin, size)
      PROVE  Laid'
  BY <1>4, InitWithLays
<1>5. ASSUME UNCHANGED serializerVars PROVE Laid'
  BY <1>5 DEF serializerVars, history, Laid, EntriesHold, RestHolds, PushHolds, PopHolds,
              ReadsFrom, ReadingOn, Size
<1> QED
  BY <1>1, <1>2, <1>3, <1>4, <1>5 DEF SerializerNext, PopSteps

-----------------------------------------------------------------------------
(* The tape.                                                               *)
TapeOf(w) == [i \in DOMAIN w |-> w[i].value]
Reading == IF doing = "pop" THEN begun ELSE m_index
Read == PositionIn(written, Reading)

LEMMA TapeOfIs ==
  ASSUME NEW w, Entries(w)
  PROVE  /\ TapeOf(w) \in Seq({Kept[v] : v \in Values})
         /\ Len(TapeOf(w)) = Len(w) /\ Len(w) \in Nat
         /\ \A i \in 1 .. Len(w) : TapeOf(w)[i] = w[i].value
<1> DEFINE n == Len(w)
           K == {Kept[v] : v \in Values}
           x == TapeOf(w)
<1>1. w \in Seq(Recorded) /\ n \in Nat /\ DOMAIN w = 1 .. n
  BY LenProperties DEF Entries
<1>2. ASSUME NEW i \in 1 .. n PROVE w[i].value \in K
  <2>1. w[i] \in Recorded
    BY <1>1, ElementOfSeq
  <2> QED
    BY <2>1 DEF Recorded
<1> HIDE DEF K
<1>3. x \in [1 .. n -> K] /\ \A i \in 1 .. n : x[i] = w[i].value
  BY <1>1, <1>2 DEF TapeOf
<1> HIDE DEF n, x
<1>4. x \in Seq(K)
  BY ONLY <1>1, <1>3, SeqDef
<1>5. DOMAIN x = 1 .. n /\ DOMAIN x = 1 .. Len(x) /\ Len(x) \in Nat
  BY <1>3, <1>4, LenProperties
<1>6. Len(x) = n
  BY ONLY <1>1, <1>5, SameInterval
<1> QED
  BY <1>1, <1>3, <1>4, <1>6 DEF n, x, K

LEMMA TapeOfPart ==
  ASSUME NEW w, Entries(w), NEW f \in 0 .. Len(w), NEW l \in f .. Len(w),
         NEW x, Part(w, f, l, x)
  PROVE  TapeOf(x) = SubSeq(TapeOf(w), f + 1, l)
<1> DEFINE K == {Kept[v] : v \in Values}
           y == TapeOf(w)
           z == TapeOf(x)
<1>1. y \in Seq(K) /\ Len(y) = Len(w) /\ Len(w) \in Nat
      /\ \A i \in 1 .. Len(w) : y[i] = w[i].value
  BY TapeOfIs
<1>2. z \in Seq(K) /\ Len(z) = Len(x) /\ \A i \in 1 .. Len(x) : z[i] = x[i].value
  BY TapeOfIs DEF Part
<1> HIDE DEF K, y, z
<1>3. f \in Nat /\ l \in Nat /\ f <= l /\ l <= Len(w) /\ l - f \in Nat
  BY <1>1
<1>4. /\ SubSeq(y, f + 1, l) \in Seq(K) /\ Len(SubSeq(y, f + 1, l)) = l - f
      /\ \A i \in 1 .. l - f : SubSeq(y, f + 1, l)[i] = y[f + i]
  <2>1. \A i \in f + 1 .. l : y[i] \in K
    BY <1>1, <1>3, ElementOfSeq
  <2>2. /\ SubSeq(y, f + 1, l) \in Seq(K)
        /\ Len(SubSeq(y, f + 1, l)) = IF f + 1 <= l THEN l - (f + 1) + 1 ELSE 0
        /\ \A i \in 1 .. l - (f + 1) + 1 : SubSeq(y, f + 1, l)[i] = y[f + 1 + i - 1]
    BY <1>3, <2>1, SubSeqProperties
  <2>3. l - (f + 1) + 1 = l - f /\ (~(f + 1 <= l) => l - f = 0)
    BY <1>3
  <2>4. \A i \in 1 .. l - f : f + 1 + i - 1 = f + i
    BY <1>3
  <2> QED
    BY <2>2, <2>3, <2>4
<1>5. Len(x) = l - f /\ \A i \in 1 .. l - f : x[i].value = w[f + i].value
  BY DEF Part
<1>6. ASSUME NEW i \in 1 .. l - f PROVE z[i] = SubSeq(y, f + 1, l)[i]
  <2>1. f + i \in 1 .. Len(w)
    BY <1>1, <1>3
  <2> QED
    BY <1>1, <1>2, <1>4, <1>5, <2>1
<1> DEFINE part == SubSeq(y, f + 1, l)
<1>7. part \in Seq(K) /\ Len(part) = Len(z) /\ \A i \in 1 .. Len(z) : z[i] = part[i]
  BY <1>2, <1>4, <1>5, <1>6
<1> HIDE DEF part
<1>8. z = part
  BY <1>2, <1>7, SeqEqual
<1> QED
  BY <1>8 DEF part, y, z

LEMMA TapeOfAppended ==
  ASSUME NEW w, Entries(w), NEW e \in Recorded, NEW x, Appended(w, e, x)
  PROVE  TapeOf(x) = Append(TapeOf(w), e.value)
<1> DEFINE K == {Kept[v] : v \in Values}
           y == TapeOf(w)
           z == TapeOf(x)
           more == Append(y, e.value)
<1>1. y \in Seq(K) /\ Len(y) = Len(w) /\ Len(w) \in Nat
      /\ \A i \in 1 .. Len(w) : y[i] = w[i].value
  BY TapeOfIs
<1>2. z \in Seq(K) /\ Len(z) = Len(x) /\ \A i \in 1 .. Len(x) : z[i] = x[i].value
  BY TapeOfIs DEF Appended
<1>3. e.value \in K
  BY DEF Recorded
<1> HIDE DEF K, y, z
<1>4. /\ more \in Seq(K) /\ Len(more) = Len(w) + 1
      /\ \A i \in 1 .. Len(w) : more[i] = y[i]
      /\ more[Len(w) + 1] = e.value
  BY <1>1, <1>3, AppendProperties
<1> HIDE DEF more
<1>5. Len(x) = Len(w) + 1 /\ x[Len(w) + 1] = e /\ \A i \in 1 .. Len(w) : x[i] = w[i]
  BY DEF Appended
<1>6. ASSUME NEW i \in 1 .. Len(z) PROVE z[i] = more[i]
  <2>1. i \in 1 .. Len(x)
    BY <1>2
  <2>2. i \in 1 .. Len(w) \/ i = Len(w) + 1
    BY <1>1, <1>5, <2>1
  <2>3. z[i] = x[i].value
    BY <1>2, <2>1
  <2> QED
    BY <1>1, <1>4, <1>5, <2>2, <2>3
<1>7. z = more
  BY <1>2, <1>4, <1>5, <1>6, SeqEqual
<1> QED
  BY <1>7 DEF more, y, z

LEMMA PositionStays ==
  ASSUME NEW w, Entries(w), NEW e, NEW x, Appended(w, e, x),
         NEW at \in Nat, at <= LastEnd(w)
  PROVE  PositionIn(x, at) = PositionIn(w, at)
<1>1. Entries(x) /\ Len(w) \in Nat /\ Len(x) = Len(w) + 1
      /\ \A k \in 0 .. Len(w) : EndOf(x, k) = EndOf(w, k)
  BY DEF Appended
<1>2. ASSUME NEW k \in 0 .. Len(w), EndOf(w, k) = at
      PROVE  PositionIn(x, at) = PositionIn(w, at)
  <2>1. k \in 0 .. Len(x) /\ EndOf(x, k) = at
    BY <1>1, <1>2
  <2> QED
    BY <1>1, <1>2, <2>1, PositionOfEnd
<1>3. ASSUME \A k \in 0 .. Len(w) : EndOf(w, k) # at
      PROVE  PositionIn(x, at) = PositionIn(w, at)
  <2>1. ASSUME NEW k \in 0 .. Len(x) PROVE EndOf(x, k) # at
    <3>1. CASE k \in 0 .. Len(w)
      BY <1>1, <1>3, <3>1
    <3>2. CASE k = Len(w) + 1
      <4>1. Len(w) \in 0 .. Len(x) /\ Len(w) < k /\ Len(w) \in 0 .. Len(w)
        BY <1>1, <3>2
      <4>2. EndOf(x, Len(w)) < EndOf(x, k)
        BY <1>1, <4>1 DEF Entries
      <4>3. EndOf(x, Len(w)) = LastEnd(w) /\ EndOf(x, Len(w)) \in Nat /\ EndOf(x, k) \in Nat
        BY <1>1, <4>1, EndType DEF LastEnd
      <4> QED
        BY <4>2, <4>3
    <3> QED
      BY <1>1, <3>1, <3>2
  <2>2. ~BoundaryIn(w, at) /\ ~BoundaryIn(x, at)
    BY <1>1, <1>3, <2>1, BoundaryIs
  <2> QED
    BY <2>2 DEF PositionIn
<1> QED
  BY <1>2, <1>3

(* What a pop answers.                                                     *)
LEMMA PopAnswers ==
  ASSUME PopSteps, ~UNCHANGED <<doing, out, begun>>
  PROVE  doing' = "nothing" /\ out'.returned # "nothing" /\ out' # NoAnswer
<1>1. ASSUME NEW index, Fails(index)
      PROVE  doing' = "nothing" /\ out'.returned = "false"
  BY <1>1 DEF Fails, PopReturns, NoAnswer
<1>2. ASSUME NEW v, NEW index, NEW callers, Delivers(v, index, callers)
      PROVE  doing' = "nothing" /\ out'.returned \in {"true", "false"}
  BY <1>1, <1>2 DEF Delivers, PopReturns
<1>3. doing' = "nothing" /\ out'.returned \in {"true", "false"}
  <2>1. ASSUME PopUnsigned PROVE doing' = "nothing" /\ out'.returned \in {"true", "false"}
    BY <1>1, <2>1 DEF PopUnsigned
  <2>2. ASSUME PopString PROVE doing' = "nothing" /\ out'.returned \in {"true", "false"}
    BY <1>1, <1>2, <2>2 DEF PopString
  <2>3. ASSUME PopContainerEnds
        PROVE doing' = "nothing" /\ out'.returned \in {"true", "false"}
    BY <1>2, <2>3 DEF PopContainerEnds
  <2>4. ASSUME NEW type, PopEmpty(type)
        PROVE  doing' = "nothing" /\ out'.returned \in {"true", "false"}
    BY <1>2, <2>4 DEF PopEmpty
  <2>5. ASSUME NEW type, PopScalar(type)
        PROVE  doing' = "nothing" /\ out'.returned \in {"true", "false"}
    BY <1>1, <1>2, <2>5 DEF PopScalar
  <2>6. ASSUME NEW type, PopContainer(type)
        PROVE  doing' = "nothing" /\ out'.returned \in {"true", "false"}
    BY <1>1, <2>6 DEF PopContainer
  <2> QED
    BY <2>1, <2>2, <2>3, <2>4, <2>5, <2>6 DEF PopSteps
<1> QED
  BY <1>3 DEF NoAnswer

-----------------------------------------------------------------------------
(* The actions of the tape, in terms of the array.                         *)
LEMMA TapeSame ==
  ASSUME TapeOf(written)' = TapeOf(written), rest' = rest, Read' = Read, out' = out
  PROVE  UNCHANGED Tape!vars
BY DEF Tape!vars, TapeOf, Read, Reading, PositionIn, BoundaryIn, BeforeIn, Position,
       Boundary, Before

LEMMA TapePush ==
  ASSUME NEW v \in Values, Read' = Read, out' = out,
         IF rest = "nothing"
         THEN TapeOf(written)' = Append(TapeOf(written), Kept[v]) /\ rest' = rest
         ELSE TapeOf(written)' = TapeOf(written) /\ rest' = "garbled"
  PROVE  Tape!Next
<1>1. Tape!Push(Kept[v])
  BY DEF Tape!Push, TapeOf, Read, Reading, PositionIn, BoundaryIn, BeforeIn, Position,
         Boundary, Before
<1> QED
  BY <1>1 DEF Tape!Next

LEMMA TapePushThrows ==
  ASSUME TapeOf(written)' = TapeOf(written), Read' = Read, out' = out,
         rest' \in IF rest = "nothing" THEN {"nothing", "torn"} ELSE {"garbled"}
  PROVE  Tape!Next
<1>1. Tape!PushThrows
  BY DEF Tape!PushThrows, TapeOf, Read, Reading, PositionIn, BoundaryIn, BeforeIn,
         Position, Boundary, Before
<1> QED
  BY <1>1 DEF Tape!Next

LEMMA TapePopValue ==
  ASSUME TapeOf(written)' = TapeOf(written), rest' = rest,
         Read \in 0 .. Len(TapeOf(written)) - 1, Read' = Read + 1,
         out' = [returned |-> "true", value |-> TapeOf(written)[Read + 1]]
  PROVE  Tape!Next
<1>1. Tape!PopValue
  BY DEF Tape!PopValue, Tape!Answer, TapeOf, Read, Reading, PositionIn, BoundaryIn,
         BeforeIn, Position, Boundary, Before
<1>2. Tape!Pop
  BY <1>1 DEF Tape!Pop, TapeOf
<1> QED
  BY <1>2 DEF Tape!Next

LEMMA TapePopRefuses ==
  ASSUME TapeOf(written)' = TapeOf(written), rest' = rest,
         Read = Len(TapeOf(written)), rest # "garbled",
         out' = [NoAnswer EXCEPT !.returned = "false"],
         Read' = IF rest = "torn" THEN -1 ELSE Read
  PROVE  Tape!Next
<1>1. Tape!PopRefuses
  BY Zenon DEF Tape!PopRefuses, Tape!Refusal, Tape!Astray, TapeOf, Read, Reading, PositionIn,
         BoundaryIn, BeforeIn, Position, Boundary, Before
<1>2. Tape!Pop
  BY <1>1 DEF Tape!Pop, TapeOf
<1> QED
  BY <1>2 DEF Tape!Next

LEMMA TapePopGarbled ==
  ASSUME TapeOf(written)' = TapeOf(written), rest' = rest, out' # out,
         Read = -1 \/ (Read = Len(TapeOf(written)) /\ rest = "garbled")
  PROVE  Tape!Next
<1>1. Tape!PopGarbled
  BY DEF Tape!PopGarbled, Tape!Astray, TapeOf, Read, Reading, PositionIn, BoundaryIn,
         BeforeIn, Position, Boundary, Before
<1>2. Tape!Pop
  BY <1>1 DEF Tape!Pop, TapeOf
<1> QED
  BY <1>2 DEF Tape!Next

LEMMA TapeForget ==
  ASSUME TapeOf(written)' = TapeOf(written), rest' = rest, Read' = Read, out' = NoAnswer
  PROVE  Tape!Next
<1>1. Tape!Forget
  BY DEF Tape!Forget, TapeOf, Read, Reading, PositionIn, BoundaryIn, BeforeIn, Position,
         Boundary, Before
<1> QED
  BY <1>1 DEF Tape!Next

LEMMA TapeRewind ==
  ASSUME TapeOf(written)' = TapeOf(written), rest' = rest, Read' = 0, out' = NoAnswer
  PROVE  Tape!Next
<1>1. Tape!Rewind
  BY DEF Tape!Rewind, TapeOf, Read, Reading, PositionIn, BoundaryIn, BeforeIn, Position,
         Boundary, Before
<1> QED
  BY <1>1 DEF Tape!Next

LEMMA TapeLoad ==
  ASSUME NEW first \in 1 .. Len(TapeOf(written)) + 1, NEW last \in 0 .. Len(TapeOf(written)),
         TapeOf(written)' = SubSeq(TapeOf(written), first, last),
         rest' \in {"nothing", "torn", "garbled"},
         rest' # "nothing" => \/ last < Len(TapeOf(written)) \/ rest' = rest
                              \/ TapeOf(written)' = <<>>,
         Read' = 0, out' = NoAnswer
  PROVE  Tape!Next
<1>1. Tape!Load(first, last)
  BY DEF Tape!Load, TapeOf, Read, Reading, PositionIn, BoundaryIn, BeforeIn, Position,
         Boundary, Before
<1>2. first \in 1 .. Len([i \in DOMAIN written |-> written[i].value]) + 1
      /\ last \in 0 .. Len([i \in DOMAIN written |-> written[i].value])
  BY DEF TapeOf
<1> QED
  BY <1>1, <1>2 DEF Tape!Next

-----------------------------------------------------------------------------
(* The steps of the serializer are steps of the tape.                      *)
LEMMA PositionAtStart ==
  ASSUME NEW w, Entries(w)
  PROVE  PositionIn(w, 0) = 0
<1>1. 0 \in 0 .. Len(w) /\ EndOf(w, 0) = 0
  BY LenProperties DEF Entries, EndOf
<1> QED
  BY <1>1, PositionOfEnd

LEMMA PushReturnIsPush ==
  ASSUME Inside, StackKept, Laid, PushReturn
  PROVE  Tape!Next
<1>1. /\ doing = "push" /\ todo = <<>> /\ doing' = "nothing" /\ argument \in Values
      /\ UNCHANGED <<m_byteArray, m_index, out>> /\ Reading = m_index /\ Reading' = m_index
  BY DEF PushReturn, Laid, PushHolds, Reading
<1>2. CASE rest # "nothing"
  <2>1. rest' = "garbled" /\ written' = written
    BY <1>2 DEF PushReturn
  <2> QED
    BY <1>1, <1>2, <2>1, TapePush DEF Read
<1>3. CASE rest = "nothing"
  <2> DEFINE e == [value |-> Kept[argument], end |-> Size]
  <2>1. written' = Append(written, e) /\ rest' = rest
    BY <1>3 DEF PushReturn
  <2>2. m_index <= LastEnd(written) /\ Entries(written) /\ m_index \in Nat /\ Size \in Nat
    BY <1>1, <1>3, LenProperties DEF Laid, PushHolds, EntriesHold, Inside, Size
  <2>3. LastEnd(written) < Size
    BY <1>1, <1>3, PushedSomething
  <2>4. e \in Recorded /\ e.end = Size /\ e.value = Kept[argument]
    BY <1>1, <2>2 DEF Recorded
  <2> HIDE DEF e
  <2>5. Appended(written, e, written')
    BY <2>1, <2>2, <2>3, <2>4, AppendedEntry
  <2>6. TapeOf(written') = Append(TapeOf(written), Kept[argument])
    BY <2>2, <2>4, <2>5, TapeOfAppended
  <2>7. PositionIn(written', m_index) = PositionIn(written, m_index)
    BY <2>2, <2>5, PositionStays
  <2>8. Read' = Read /\ TapeOf(written)' = Append(TapeOf(written), Kept[argument])
    BY <1>1, <2>6, <2>7 DEF Read
  <2> QED
    BY <1>1, <1>3, <2>1, <2>8, TapePush
<1> QED
  BY <1>2, <1>3

LEMMA PopStepIsPop ==
  ASSUME AllShort, Inside, Inside', StackKept, Laid, PopSteps
  PROVE  [Tape!Next]_(Tape!vars)
<1>1. /\ doing = "pop" /\ written' = written /\ rest' = rest /\ Size' = Size
      /\ TapeOf(written)' = TapeOf(written) /\ Reading = begun /\ out = NoAnswer
  BY PopStepsAre DEF Size, Reading, Laid, PopHolds
<1>2. CASE UNCHANGED <<doing, out, begun>>
  BY <1>1, <1>2, TapeSame DEF Read, Reading
<1>3. CASE ~UNCHANGED <<doing, out, begun>>
  <2>1. doing' = "nothing" /\ out' # out /\ Reading' = m_index'
    BY <1>1, <1>3, PopAnswers DEF Reading
  <2>2. /\ Entries(written) /\ LastEnd(written) <= Size /\ Len(written) \in Nat
        /\ Len(TapeOf(written)) = Len(written)
        /\ \A i \in 1 .. Len(written) : TapeOf(written)[i] = written[i].value
        /\ Size \in Nat /\ m_index \in Nat /\ m_index' \in Nat /\ LastEnd(written) \in Nat
    <3>1. Entries(written) /\ LastEnd(written) <= Size
      BY DEF Laid, EntriesHold
    <3> QED
      BY <3>1, TapeOfIs, LastEndIs, LenProperties DEF Inside, Size
  <2>3. CASE Read = -1 \/ (rest = "garbled" /\ Read = Len(written))
    BY <1>1, <2>1, <2>2, <2>3, TapePopGarbled
  <2>4. CASE Read \in 0 .. Len(written) /\ ~(rest = "garbled" /\ Read = Len(written))
    <3>1. PICK k \in 0 .. Len(written) : k = Read /\ begun = EndOf(written, k)
      BY <1>1, <2>2, <2>4, PositionIs DEF Read
    <3>2. ReadsFrom(k)
      BY <1>1, <3>1 DEF Laid, PopHolds
    <3>3. ASSUME NEW v \in Values, NEW q, NEW t, ReadingOn(v, q, t), q > Size \/ t = <<>>
          PROVE  Finishes(v, q) \/ (q > Size /\ Breaks)
      <4>1. Continues(v, q, t) \/ Finishes(v, q) \/ (q > Size /\ Breaks)
        BY <3>3, PopStepReads
      <4> QED
        BY <1>3, <4>1 DEF Continues
    <3>4. CASE k < Len(written)
      <4>1. PICK v \in Values : /\ Kept[v] = written[k + 1].value
                                /\ ReadingOn(v, EndOf(written, k + 1), <<>>)
        BY <3>2, <3>4 DEF ReadsFrom
      <4>2. PICK q : q = EndOf(written, k + 1)
        OBVIOUS
      <4>3. k + 1 \in 0 .. Len(written) /\ k + 1 \in 1 .. Len(written)
        BY <2>2, <3>4
      <4>4. q \in Nat /\ q <= Size
        <5>1. q \in Nat /\ q <= LastEnd(written)
          BY <2>2, <4>2, <4>3, LastEndIs
        <5> QED
          BY <2>2, <5>1
      <4>5. Finishes(v, q)
        <5>1. Finishes(v, q) \/ (q > Size /\ Breaks)
          BY <3>3, <4>1, <4>2
        <5> QED
          BY <2>2, <4>4, <5>1
      <4>6. m_index' = q /\ out' = [returned |-> "true", value |-> written[k + 1].value]
        BY <4>1, <4>5 DEF Finishes, PopReturns
      <4>7. Read' = k + 1
        BY <1>1, <2>1, <2>2, <4>2, <4>3, <4>6, PositionOfEnd DEF Read
      <4>8. TapeOf(written)[k + 1] = written[k + 1].value
        BY <2>2, <4>3
      <4>9. Read \in 0 .. Len(TapeOf(written)) - 1 /\ Read = k
        BY <2>2, <3>1, <3>4
      <4> QED
        BY <1>1, <4>6, <4>7, <4>8, <4>9, TapePopValue
    <3>5. CASE k = Len(written) /\ rest = "torn"
      <4>1. /\ LastEnd(written) <= m_index /\ LastEnd(written) < Size
            /\ \E v \in Values : \E q, t : q > Size /\ ReadingOn(v, q, t)
        BY <3>2, <3>5 DEF ReadsFrom
      <4>2. PICK v \in Values : \E q, t : q > Size /\ ReadingOn(v, q, t)
        BY <4>1
      <4>3. PICK q, t : q > Size /\ ReadingOn(v, q, t)
        BY <4>2
      <4>4. q \in Nat
        BY <4>3, LayTypes DEF ReadingOn
      <4>5. Breaks
        <5>1. Finishes(v, q) \/ (q > Size /\ Breaks)
          BY <3>3, <4>3
        <5> QED
          BY <2>2, <4>3, <4>4, <5>1 DEF Finishes
      <4>6. LastEnd(written) < m_index'
        <5>1. m_index' \in m_index .. Size /\ (m_index < Size => m_index < m_index')
          BY <4>5 DEF Breaks
        <5> QED
          BY <2>2, <4>1, <5>1
      <4>7. Read' = -1
        BY <1>1, <2>1, <2>2, <4>6, PositionBeyond DEF Read, LastEnd
      <4>8. out' = [NoAnswer EXCEPT !.returned = "false"]
        BY <4>5 DEF Breaks, PopReturns
      <4> QED
        BY <1>1, <2>2, <3>1, <3>5, <4>7, <4>8, TapePopRefuses
    <3>6. CASE k = Len(written) /\ rest = "nothing"
      <4>1. frames = <<>> /\ m_index = Size
        BY <3>2, <3>6 DEF ReadsFrom
      <4>2. m_index' = m_index /\ out' = [NoAnswer EXCEPT !.returned = "false"]
        BY <4>1, PopAtEnd DEF PopReturns
      <4>3. m_index' = EndOf(written, Len(written)) /\ Len(written) \in 0 .. Len(written)
        BY <1>1, <2>2, <3>6, <4>1, <4>2 DEF Laid, RestHolds, LastEnd
      <4>4. Read' = Len(written)
        BY <1>1, <2>1, <2>2, <4>3, PositionOfEnd DEF Read
      <4> QED
        BY <1>1, <2>2, <3>1, <3>6, <4>2, <4>4, TapePopRefuses
    <3>7. rest \in {"nothing", "torn", "garbled"}
      BY DEF Laid, RestHolds
    <3> QED
      BY <2>2, <2>4, <3>1, <3>4, <3>5, <3>6, <3>7
  <2>5. Read = -1 \/ Read \in 0 .. Len(written)
    BY <2>2, PositionIs DEF Read
  <2>6. \/ Read = -1 \/ (rest = "garbled" /\ Read = Len(written))
        \/ Read \in 0 .. Len(written) /\ ~(rest = "garbled" /\ Read = Len(written))
    BY <2>5
  <2> QED
    BY <2>3, <2>4, <2>6
<1> QED
  BY <1>2, <1>3

LEMMA InitWithIsLoad ==
  ASSUME Inside, StackKept, Laid, Laid', NEW begin \in 0 .. Size,
         NEW size \in 0 .. Size - begin, InitWith(begin, size)
  PROVE  Tape!Next
<1> DEFINE end == begin + size
           y == TapeOf(written)
<1>1. /\ doing' = "nothing" /\ m_index' = 0 /\ out' = NoAnswer /\ Cut(begin, end)
  BY DEF InitWith, StackKept
<1>2. /\ Size \in Nat /\ begin \in Nat /\ end \in Nat /\ begin <= end
  BY LenProperties DEF Inside, Size
<1>3. Read' = 0
  <2>1. Reading' = 0 /\ Entries(written')
    BY <1>1 DEF Reading, Laid, EntriesHold
  <2> QED
    BY <2>1, PositionAtStart DEF Read
<1>4. rest' \in {"nothing", "torn", "garbled"}
  BY DEF Laid, RestHolds
<1>5. Entries(written) /\ Len(written) \in Nat /\ Len(y) = Len(written)
      /\ y \in Seq({Kept[v] : v \in Values})
  BY TapeOfIs DEF Laid, EntriesHold
<1>6. CASE ~Boundary(begin)
  <2>1. written' = <<>>
    BY <1>1, <1>6 DEF Cut
  <2>2. TapeOf(written') = <<>>
    <3>1. Len(TapeOf(written')) = 0 /\ \E S : TapeOf(written') \in Seq(S)
      BY <2>1, NothingWritten, TapeOfIs
    <3> QED
      BY <3>1, EmptySeq
  <2>3. SubSeq(y, 1, 0) = <<>> /\ 1 \in 1 .. Len(y) + 1 /\ 0 \in 0 .. Len(y)
    BY <1>5, SubSeqEmpty
  <2> HIDE DEF y
  <2>4. TapeOf(written)' = SubSeq(y, 1, 0) /\ TapeOf(written)' = <<>>
    BY <2>2, <2>3
  <2> QED
    BY <1>1, <1>3, <1>4, <2>3, <2>4, TapeLoad DEF y
<1>7. CASE Boundary(begin)
  <2>1. BoundaryIn(written, begin)
    BY <1>7 DEF Boundary, BoundaryIn
  <2>2. PICK f \in 0 .. Len(written) : \E l \in f .. Len(written) :
           /\ EndOf(written, l) <= end
           /\ l < Len(written) => end < EndOf(written, l + 1)
           /\ Part(written, f, l, written')
    BY <1>1, <1>2, <1>5, <2>1, CutIs
  <2>3. PICK l \in f .. Len(written) :
           /\ EndOf(written, l) <= end
           /\ l < Len(written) => end < EndOf(written, l + 1)
           /\ Part(written, f, l, written')
    BY <2>2
  <2>4. TapeOf(written') = SubSeq(y, f + 1, l)
    BY <1>5, <2>3, TapeOfPart
  <2>5. f + 1 \in 1 .. Len(y) + 1 /\ l \in 0 .. Len(y)
    BY <1>5
  <2>6. ASSUME rest' # "nothing" PROVE l < Len(y) \/ rest' = rest
    <3>1. ~(end > End) \/ rest' = rest
      BY <1>1, <1>7, <2>6 DEF Cut
    <3>2. ~Boundary(end)
      BY <1>1, <1>7, <2>6 DEF Cut
    <3>3. l # Len(written) \/ end > End
      <4>1. ASSUME l = Len(written) PROVE end > End
        <5>1. End = LastEnd(written) /\ LastEnd(written) = EndOf(written, l)
              /\ LastEnd(written) \in Nat
          BY <1>5, <4>1, EndIs, LastEndIs DEF LastEnd
        <5>2. EndOf(written, l) # end
          <6>1. ~BoundaryIn(written, end) /\ l \in 0 .. Len(written)
            BY <1>5, <3>2, <4>1 DEF Boundary, BoundaryIn
          <6> QED
            BY <1>5, <6>1, BoundaryIs
        <5> QED
          BY <1>2, <2>3, <5>1, <5>2
      <4> QED
        BY <4>1
    <3> QED
      BY <1>5, <3>1, <3>3
  <2> HIDE DEF y
  <2>7. TapeOf(written)' = SubSeq(y, f + 1, l)
    BY <2>4
  <2> QED
    BY <1>1, <1>3, <1>4, <2>5, <2>6, <2>7, TapeLoad DEF y
<1> QED
  BY <1>6, <1>7

LEMMA TapeStep ==
  ASSUME AllShort, Inside, Inside', StackKept, Laid, Laid',
         [SerializerNext]_serializerVars
  PROVE  [Tape!Next]_(Tape!vars)
<1>1. ASSUME NEW v \in Arguments, PushCall(v) PROVE Tape!Next
  <2>1. /\ written' = written /\ rest' = rest /\ out' = NoAnswer /\ Reading' = Reading
    BY <1>1 DEF PushCall, Reading
  <2> QED
    BY <2>1, TapeForget DEF Read
<1>2. ASSUME PushValue PROVE UNCHANGED Tape!vars
  <2>1. written' = written /\ rest' = rest /\ out' = out /\ Reading' = Reading
    BY <1>2 DEF PushValue, history, Reading
  <2> QED
    BY <2>1, TapeSame DEF Read
<1>3. ASSUME PushThrows PROVE Tape!Next
  <2>1. /\ doing = "push" /\ doing' = "nothing" /\ UNCHANGED <<m_index, out, written>>
        /\ rest' = IF rest # "nothing" THEN "garbled" ELSE rest'
        /\ rest = "nothing" => rest' \in {"nothing", "torn"}
    BY <1>3 DEF PushThrows, StackKept
  <2>2. Read' = Read
    BY <2>1 DEF Read, Reading
  <2>3. rest' \in IF rest = "nothing" THEN {"nothing", "torn"} ELSE {"garbled"}
    BY <2>1
  <2> QED
    BY <2>1, <2>2, <2>3, TapePushThrows
<1>4. ASSUME PushReturn PROVE Tape!Next
  BY <1>4, PushReturnIsPush
<1>5. ASSUME PopCall PROVE Tape!Next
  <2>1. /\ written' = written /\ rest' = rest /\ out' = NoAnswer /\ Reading' = Reading
    BY <1>5 DEF PopCall, Reading
  <2> QED
    BY <2>1, TapeForget DEF Read
<1>6. ASSUME PopSteps PROVE [Tape!Next]_(Tape!vars)
  BY <1>6, PopStepIsPop
<1>7. ASSUME Reset PROVE Tape!Next
  <2>1. /\ doing' # "pop" /\ m_index' = 0 /\ written' = written /\ rest' = rest
        /\ out' = NoAnswer
    BY <1>7 DEF Reset, history
  <2>2. Read' = 0
    <3>1. Reading' = 0 /\ Entries(written')
      BY <2>1 DEF Reading, Laid, EntriesHold
    <3> QED
      BY <3>1, PositionAtStart DEF Read
  <2> QED
    BY <2>1, <2>2, TapeRewind
<1>8. ASSUME NEW begin \in ({0, m_index} \cup Cuts) \cap (0 .. Size),
             NEW size \in 0 .. Size - begin, InitWith(begin, size)
      PROVE  Tape!Next
  BY <1>8, InitWithIsLoad
<1>9. ASSUME UNCHANGED serializerVars PROVE UNCHANGED Tape!vars
  <2>1. written' = written /\ rest' = rest /\ out' = out /\ Reading' = Reading
    BY <1>9 DEF serializerVars, history, Reading
  <2> QED
    BY <2>1, TapeSame DEF Read
<1> QED
  BY <1>1, <1>2, <1>3, <1>4, <1>5, <1>6, <1>7, <1>8, <1>9 DEF SerializerNext, PopSteps

LEMMA TapeInit == SerializerInit => Tape!Init
<1> SUFFICES ASSUME SerializerInit PROVE Tape!Init
  OBVIOUS
<1>1. written = <<>> /\ rest = "nothing" /\ doing = "nothing" /\ m_index = 0 /\ out = NoAnswer
  BY DEF SerializerInit
<1>2. Read = 0
  BY <1>1, NothingWritten, PositionAtStart DEF Read, Reading
<1>3. TapeOf(written) = <<>>
  <2>1. Len(TapeOf(written)) = 0 /\ \E S : TapeOf(written) \in Seq(S)
    BY <1>1, NothingWritten, TapeOfIs
  <2> QED
    BY <2>1, EmptySeq
<1> QED
  BY <1>1, <1>2, <1>3 DEF Tape!Init, TapeOf, Read, Reading, PositionIn, BoundaryIn,
       BeforeIn, Position, Boundary, Before

(* pushValue(), popValue(), reset() and initWith() are the operations of   *)
(* a tape of values: what is popped is what was pushed, whole, once and in *)
(* its order, wherever the array was cut and wherever a push was broken    *)
(* off by an exception, for any values that an unsigned can count: lists   *)
(* and maps with fewer elements, and keys of maps with fewer characters,   *)
(* than an unsigned has values.  Of longer ones another value is read: the *)
(* number of elements is cut (ByteArraySerializer.cpp:247, 257), and keys  *)
(* that differ in what is cut off (ByteArraySerializer.cpp:239) are one.   *)
THEOREM SerializerIsTape ==
  ASSUME AllShort
  PROVE  SerializerSpec => ImplementsTape
<1>1. SerializerInit => Inside /\ StackKept /\ Laid /\ Tape!Init
  BY InsideInit, StackEmpty, LaidInit, TapeInit DEF SerializerInit, StackKept
<1>2. Inside /\ StackKept /\ Laid /\ [SerializerNext]_serializerVars
        => Inside' /\ StackKept' /\ Laid'
  BY InsideStep, StackStep, LaidStep
<1>3. Inside /\ StackKept /\ Laid /\ Inside' /\ Laid' /\ [SerializerNext]_serializerVars
        => [Tape!Next]_(Tape!vars)
  BY TapeStep
<1> QED
  BY <1>1, <1>2, <1>3, PTL DEF SerializerSpec, ImplementsTape, Tape!Spec

=============================================================================
