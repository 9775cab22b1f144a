----------------------------- MODULE Serializer ------------------------------
(***************************************************************************)
(* One ucxx::ByteArraySerializer (ByteArraySerializer.cpp) with the        *)
(* ByteArray it writes to and reads from, used by one thread.              *)
(*                                                                         *)
(* pushValue() and popValue() call themselves for the values inside lists  *)
(* and maps.  A push keeps no state on the way back, so that the recursion *)
(* is a list of the values still to be written; a pop keeps on the stack a *)
(* frame for each popList() and popMap() under way.  Each step is one call *)
(* of pushValue() or popValue() up to the next one.                        *)
(*                                                                         *)
(* Bytes are numbers below Base.  A bool, int or double is the bytes it    *)
(* has in memory, as many as SizeOf says, and an unsigned is two of them,  *)
(* the low one first, so that what is cut off, or read from the wrong      *)
(* place, is the right bytes.                                              *)
(***************************************************************************)
EXTENDS Integers, Sequences, FiniteSets

CONSTANTS
  Arguments,    \* the Variants that pushValue() is called with
  Values,       \* these, and the Variants inside them
  Base,         \* how many values a byte has
  SizeOf,       \* sizeof of a Boolean, an Integer and a Real
  Signature,    \* cTypeSignature
  SizeT,        \* size_t is a number modulo SizeT
  MaxBytes,     \* the memory that there is for the array
  MaxGarbled,   \* bound: size of an array that does not end with a whole value
                \* and is pushed to or cut again
  Cuts          \* bound: where parts of an array begin, but for the beginning
                \* and the place that has been read to

Scalars == {"Boolean", "Integer", "Real"}
Containers == {"List", "Map"}
Types == {"Invalid", "Null", "String"} \cup Scalars \cup Containers
Byte == 0 .. Base - 1
Unsigned == Base * Base     \* an unsigned is a number modulo Unsigned

(* A Variant: its type, the bytes of a scalar or a string, and what is in  *)
(* a list or a map.  The items of a map are its keys, which are Strings,   *)
(* each followed by its value, in the order of the keys.                   *)
Variant(type, raw, items) == [type |-> type, raw |-> raw, items |-> items]

(* std::string's operator <.                                               *)
Less(a, b) ==
  \E n \in 0 .. Len(b) - 1 :
    /\ n <= Len(a)
    /\ SubSeq(a, 1, n) = SubSeq(b, 1, n)
    /\ n < Len(a) => a[n + 1] < b[n + 1]

(* What a Variant of each type has; a bool is 0 or 1 in memory.            *)
IsVariant(v) ==
  /\ v.type \in Scalars => Len(v.raw) = SizeOf[v.type]
  /\ v.type = "Boolean" => v.raw[1] \in {0, 1}
  /\ v.type \notin Scalars \cup {"String"} => v.raw = <<>>
  /\ v.type \notin Containers => v.items = <<>>
  /\ v.type = "Map" =>
       /\ Len(v.items) % 2 = 0
       /\ \A i \in DOMAIN v.items : i % 2 = 1 =>
            /\ v.items[i].type = "String"
            /\ \A j \in i + 1 .. Len(v.items) :
                 j % 2 = 1 => Less(v.items[i].raw, v.items[j].raw)

ASSUME SerializerAssumption ==
  /\ Base \in Nat \ {0, 1}
  /\ SizeOf \in [Scalars -> Nat \ {0}]
  /\ Signature \in [Types -> Byte]
  /\ \A t, u \in Types : Signature[t] = Signature[u] => t = u
  /\ Arguments \subseteq Values
  /\ \A v \in Values :
       v \in [type : Types, raw : Seq(Byte), items : Seq(Values)] /\ IsVariant(v)
  /\ {SizeT, MaxBytes, MaxGarbled} \subseteq Nat
  /\ Cuts \subseteq Nat
  /\ MaxBytes < Unsigned /\ MaxBytes < SizeT

(* No Variant is inside itself, however deep.                              *)
ASSUME ValuesGrounded ==
  \A S \in (SUBSET Values) \ {{}} :
    \E v \in S : \A i \in DOMAIN v.items : v.items[i] \notin S

VARIABLES
  m_byteArray,
  m_index,
  doing,        \* "nothing", "push" or "pop"
  todo,         \* pushValue(): the values still to be written
  frames,       \* popValue(): the popList() and popMap() under way, inner first
  out,          \* what popValue() returned and delivered, until the next call
  argument,     \* history: the value being pushed
  begun,        \* history: m_index when popValue() was called
  written,      \* history: the whole values in the array, and where each ends
  rest          \* history: what comes after them

serializerVars == <<m_byteArray, m_index, doing, todo, frames, out, argument,
                    begun, written, rest>>
history == <<argument, begun, written, rest>>

None == Variant("Invalid", <<>>, <<>>)
NoAnswer == [returned |-> "nothing", value |-> None]

SerializerInit ==
  /\ m_byteArray = <<>>
  /\ m_index = 0
  /\ doing = "nothing"
  /\ todo = <<>>
  /\ frames = <<>>
  /\ out = NoAnswer
  /\ argument = None
  /\ begun = 0
  /\ written = <<>>
  /\ rest = "nothing"

-----------------------------------------------------------------------------
(* ByteArray.                                                              *)

Size == Len(m_byteArray)
Slice(begin, size) == SubSeq(m_byteArray, begin + 1, begin + size)

(* append(), as far as there is memory for.                                *)
Append_(bytes) == m_byteArray' = m_byteArray \o bytes

-----------------------------------------------------------------------------
(* Writing.                                                                *)

\* mutant: the number is not cut
UnsignedBytesUncut(n) == <<n % Base, n \div Base>>

UnsignedBytes(n) == <<n % Base, (n \div Base) % Base>>

(* The length of a string is cut to an unsigned, and so many characters    *)
(* are written.                                                            *)
Payload(v) ==
  CASE v.type \in Scalars -> v.raw
    [] v.type = "String" -> UnsignedBytes(Len(v.raw))
                              \o SubSeq(v.raw, 1, Len(v.raw) % Unsigned)
    [] v.type = "List" -> UnsignedBytes(Len(v.items))
    [] v.type = "Map" -> UnsignedBytes(Len(v.items) \div 2)
    [] OTHER -> <<>>

Header(v) == <<Signature[v.type]>> \o Payload(v)

(* History: where the whole values end.                                    *)
End == IF written = <<>> THEN 0 ELSE written[Len(written)].end

PushCall(v) ==
  /\ doing = "nothing"
  /\ rest = "garbled" => Size <= MaxGarbled
  /\ doing' = "push"
  /\ todo' = <<v>>
  /\ out' = NoAnswer
  /\ argument' = v
  /\ UNCHANGED <<m_byteArray, m_index, frames, begun, written, rest>>

PushValue ==
  /\ todo # <<>>
  /\ Size + Len(Header(Head(todo))) <= MaxBytes
  /\ Append_(Header(Head(todo)))
  /\ todo' = Head(todo).items \o Tail(todo)
  /\ UNCHANGED <<m_index, doing, frames, out, history>>

(* The vector cannot grow: the bytes that were appended stay.              *)
PushThrows ==
  /\ todo # <<>>
  /\ Size + Len(Header(Head(todo))) > MaxBytes
  /\ \E n \in 0 .. MaxBytes - Size :
       /\ Append_(SubSeq(Header(Head(todo)), 1, n))
       /\ rest' = IF rest # "nothing" THEN "garbled"
                  ELSE IF Size + n = End THEN "nothing" ELSE "torn"
  /\ doing' = "nothing"
  /\ todo' = <<>>
  /\ argument' = None
  /\ UNCHANGED <<m_index, frames, out, begun, written>>

(* Strings of Unsigned characters or more lose the others.                 *)
Kept[v \in Values] ==
  Variant(v.type,
          IF v.type = "String" THEN SubSeq(v.raw, 1, Len(v.raw) % Unsigned)
                               ELSE v.raw,
          [i \in DOMAIN v.items |-> Kept[v.items[i]]])

PushReturn ==
  /\ doing = "push"
  /\ todo = <<>>
  /\ doing' = "nothing"
  /\ argument' = None
  /\ IF rest = "nothing"
     THEN /\ written' = Append(written, [value |-> Kept[argument], end |-> Size])
          /\ UNCHANGED rest
     ELSE rest' = "garbled" /\ UNCHANGED written
  /\ UNCHANGED <<m_byteArray, m_index, todo, frames, out, begun>>

-----------------------------------------------------------------------------
(* Reading.                                                                *)

Available(index) == (Size - index) % SizeT

(* byteArray.size() - index < sizeof(T) makes popRawValue() return false.  *)
CanRead(index, size) == ~(Available(index) < size)

\* mutant: the bytes in the other order
ReadUnsignedSwapped(index) ==
  Base * m_byteArray[index + 1] + m_byteArray[index + 2]

ReadUnsigned(index) ==
  m_byteArray[index + 1] + Base * m_byteArray[index + 2]

(* A bool with another representation than those of true and false has an  *)
(* unspecified value.                                                      *)
Loaded(type, bytes) ==
  IF type = "Boolean" /\ bytes[1] \notin {0, 1}
  THEN {[bytes EXCEPT ![1] = b] : b \in {0, 1}}
  ELSE {bytes}

MoveTo(index) == m_index' = index % Unsigned

PopReturns(answer) ==
  /\ doing' = "nothing"
  /\ frames' = <<>>
  /\ out' = answer
  /\ begun' = 0

Fails(index) ==
  /\ MoveTo(index)
  /\ PopReturns([NoAnswer EXCEPT !.returned = "false"])

(* map[key] = v.                                                           *)
Put(items, key, v) ==
  LET Keys(Test(_)) == {i \in 1 .. Len(items) \div 2 : Test(items[2 * i - 1])}
      before == 2 * Cardinality(Keys(LAMBDA k : Less(k.raw, key.raw)))
      same == 2 * Cardinality(Keys(LAMBDA k : k = key))
  IN  SubSeq(items, 1, before) \o <<key, v>>
        \o SubSeq(items, before + same + 1, Len(items))

(* popList() and popMap() get a value.                                     *)
Received(frame, v) ==
  CASE frame.type = "List" ->
         [frame EXCEPT !.items = Append(@, v), !.left = @ - 1]
    [] frame.type = "Map" /\ frame.key = <<>> -> [frame EXCEPT !.key = <<v>>]
    [] OTHER ->
         [frame EXCEPT !.items = Put(@, frame.key[1], v), !.left = @ - 1,
                       !.key = <<>>]

WantsKey(frame) == frame.type = "Map" /\ frame.key = <<>>

(* A popValue() that has read v returns true, to the program or to the     *)
(* first of the callers.                                                   *)
Delivers(v, index, callers) ==
  \/ /\ callers = <<>>
     /\ MoveTo(index)
     /\ PopReturns([returned |-> "true", value |-> v])
  \/ /\ callers # <<>>
     /\ WantsKey(Head(callers)) /\ v.type # "String"
     /\ Fails(index)
  \/ /\ callers # <<>>
     /\ ~(WantsKey(Head(callers)) /\ v.type # "String")
     /\ MoveTo(index)
     /\ frames' = <<Received(Head(callers), v)>> \o Tail(callers)
     /\ UNCHANGED <<doing, out, begun>>

PopCall ==
  /\ doing = "nothing"
  /\ doing' = "pop"
  /\ out' = NoAnswer
  /\ begun' = m_index
  /\ UNCHANGED <<m_byteArray, m_index, todo, frames, argument, written, rest>>

(* popValue() is called, by the program or by the loop of the innermost    *)
(* popList() or popMap().                                                  *)
Popping ==
  /\ doing = "pop"
  /\ frames # <<>> => Head(frames).left > 0
  /\ UNCHANGED <<m_byteArray, todo, argument, written, rest>>

Signed(type) ==
  Available(m_index) > 0 /\ m_byteArray[m_index + 1] = Signature[type]

\* mutant: an unknown signature, or none, is skipped
PopUnsignedSkips ==
  /\ Popping
  /\ \A t \in Types : ~Signed(t)
  /\ Fails(m_index + 1)

PopUnsigned ==
  /\ Popping
  /\ \A t \in Types : ~Signed(t)
  /\ Fails(m_index)

PopEmpty(type) ==
  /\ Popping
  /\ Signed(type)
  /\ Delivers(Variant(type, <<>>, <<>>), m_index + 1, frames)

PopScalar(type) ==
  /\ Popping
  /\ Signed(type)
  /\ \/ /\ CanRead(m_index + 1, SizeOf[type])
        /\ \E raw \in Loaded(type, Slice(m_index + 1, SizeOf[type])) :
             Delivers(Variant(type, raw, <<>>), m_index + 1 + SizeOf[type], frames)
     \/ ~CanRead(m_index + 1, SizeOf[type]) /\ Fails(m_index + 1)

PopString ==
  /\ Popping
  /\ Signed("String")
  /\ \/ ~CanRead(m_index + 1, 2) /\ Fails(m_index + 1)
     \/ /\ CanRead(m_index + 1, 2)
        /\ LET length == ReadUnsigned(m_index + 1)
           IN  \/ CanRead(m_index + 3, length)
                  /\ Delivers(Variant("String", Slice(m_index + 3, length), <<>>),
                              m_index + 3 + length, frames)
               \/ ~CanRead(m_index + 3, length) /\ Fails(m_index + 3)

(* popList() and popMap() begin: they read how many values there are.      *)
PopContainer(type) ==
  /\ Popping
  /\ Signed(type)
  /\ \/ ~CanRead(m_index + 1, 2) /\ Fails(m_index + 1)
     \/ /\ CanRead(m_index + 1, 2)
        /\ frames' = <<[type |-> type, left |-> ReadUnsigned(m_index + 1),
                        key |-> <<>>, items |-> <<>>]>> \o frames
        /\ MoveTo(m_index + 3)
        /\ UNCHANGED <<doing, out, begun>>

(* The loop of popList() or popMap() ends.                                 *)
PopContainerEnds ==
  /\ frames # <<>>
  /\ Head(frames).left = 0
  /\ Delivers(Variant(Head(frames).type, <<>>, Head(frames).items),
              m_index, Tail(frames))
  /\ UNCHANGED <<m_byteArray, todo, argument, written, rest>>

-----------------------------------------------------------------------------
Reset ==
  /\ doing = "nothing"
  /\ m_index' = 0
  /\ out' = NoAnswer
  /\ UNCHANGED <<m_byteArray, doing, todo, frames, history>>

(* History: the whole values in the array that was given to initWith().    *)
Boundary(at) == at = 0 \/ \E i \in DOMAIN written : written[i].end = at
Before(at) == Cardinality({i \in DOMAIN written : written[i].end <= at})

Cut(begin, end) ==
  IF Boundary(begin)
  THEN LET part == SubSeq(written, Before(begin) + 1, Before(end))
       IN  /\ written' = [i \in DOMAIN part |->
                            [part[i] EXCEPT !.end = @ - begin]]
           /\ rest' = IF Boundary(end) THEN "nothing"
                      ELSE IF end > End THEN rest ELSE "torn"
  ELSE /\ written' = <<>>
       /\ rest' = IF begin = end THEN "nothing" ELSE "garbled"

(* initWith(), and the constructor, with what has arrived of an array that *)
(* was sent in pieces.                                                     *)
InitWith(begin, size) ==
  /\ doing = "nothing"
  /\ rest # "nothing" => Size <= MaxGarbled
  /\ m_byteArray' = Slice(begin, size)
  /\ m_index' = 0
  /\ out' = NoAnswer
  /\ Cut(begin, begin + size)
  /\ UNCHANGED <<doing, todo, frames, argument, begun>>

-----------------------------------------------------------------------------
SerializerNext ==
  \/ \E v \in Arguments : PushCall(v)
  \/ PushValue \/ PushThrows \/ PushReturn
  \/ PopCall \/ PopUnsigned \/ PopString \/ PopContainerEnds
  \/ \E type \in {"Invalid", "Null"} : PopEmpty(type)
  \/ \E type \in Scalars : PopScalar(type)
  \/ \E type \in Containers : PopContainer(type)
  \/ Reset
  \/ \E begin \in ({0, m_index} \cup Cuts) \cap (0 .. Size) :
       \E size \in 0 .. Size - begin : InitWith(begin, size)

SerializerSpec == SerializerInit /\ [][SerializerNext]_serializerVars

-----------------------------------------------------------------------------
SerializerTypeOK ==
  /\ m_byteArray \in Seq(Byte)
  /\ m_index \in Nat
  /\ doing \in {"nothing", "push", "pop"}
  /\ todo \in Seq(Values)
  /\ \A i \in DOMAIN frames : /\ frames[i].type \in Containers
                             /\ frames[i].left \in Nat
                             /\ Len(frames[i].key) <= 1
  /\ todo # <<>> => doing = "push"
  /\ frames # <<>> => doing = "pop"

(* The reader stays inside the array, whatever bytes it reads: m_index is  *)
(* never beyond the end, where size() - index would wrap around to a huge  *)
(* number of bytes available (ByteArraySerializer.cpp:43, 72).             *)
ReadsInside == m_index <= Size

(* The serializer is a tape of values (ValueTape.tla).                     *)
Position(index) == IF Boundary(index) THEN Before(index) ELSE -1

Tape == INSTANCE ValueTape WITH
  Values <- {Kept[v] : v \in Values},
  tape <- [i \in DOMAIN written |-> written[i].value],
  read <- Position(IF doing = "pop" THEN begun ELSE m_index)

ImplementsTape == Tape!Spec

=============================================================================
