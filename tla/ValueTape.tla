------------------------------ MODULE ValueTape ------------------------------
(***************************************************************************)
(* What ucxx::ByteArraySerializer promises: its byte array is a tape of    *)
(* values.  pushValue() adds one at the end, popValue() reads the next,    *)
(* reset() goes back to the beginning and initWith() takes a part of some  *)
(* tape.  A part may end, or begin, in the middle of a value.  Nothing is  *)
(* promised once a popValue() has failed in the middle of a value, until   *)
(* the next reset() or initWith(), nor of what comes after the middle of   *)
(* a value.  Serializer.tla is shown to implement this specification.      *)
(***************************************************************************)
EXTENDS Integers, Sequences

CONSTANTS
  Values,     \* what is pushed
  NoAnswer    \* out before popValue() has returned

VARIABLES
  tape,       \* the whole values at the beginning of the array
  rest,       \* after them: "nothing", a "torn" value, or "garbled" bytes
  read,       \* how many of them have been popped, or Astray
  out         \* what popValue() returned, and the value it delivered

vars == <<tape, rest, read, out>>

Astray == -1

Answer(v) == [returned |-> "true", value |-> v]
Refusal == [NoAnswer EXCEPT !.returned = "false"]

Init ==
  /\ tape = <<>>
  /\ rest = "nothing"
  /\ read = 0
  /\ out = NoAnswer

Push(v) ==
  /\ IF rest = "nothing"
     THEN tape' = Append(tape, v) /\ UNCHANGED rest
     ELSE rest' = "garbled" /\ UNCHANGED tape
  /\ UNCHANGED <<read, out>>

(* Memory runs out in the middle of a pushValue().                         *)
PushThrows ==
  /\ rest' \in IF rest = "nothing" THEN {"nothing", "torn"} ELSE {"garbled"}
  /\ UNCHANGED <<tape, read, out>>

PopValue ==
  /\ read \in 0 .. Len(tape) - 1
  /\ out' = Answer(tape[read + 1])
  /\ read' = read + 1

(* "nothing": the tape is at its end, and a later push is read in turn.    *)
PopRefuses ==
  /\ read = Len(tape)
  /\ rest # "garbled"
  /\ out' = Refusal
  /\ read' = IF rest = "torn" THEN Astray ELSE read

PopGarbled ==
  /\ read = Astray \/ (read = Len(tape) /\ rest = "garbled")
  /\ out' # out

Pop == (PopValue \/ PopRefuses \/ PopGarbled) /\ UNCHANGED <<tape, rest>>

Forget == out' = NoAnswer /\ UNCHANGED <<tape, rest, read>>

Rewind == read' = 0 /\ out' = NoAnswer /\ UNCHANGED <<tape, rest>>

Load(first, last) ==
  /\ tape' = SubSeq(tape, first, last)
  /\ rest' \in {"nothing", "torn", "garbled"}
  /\ rest' # "nothing" => \/ last < Len(tape) \/ rest' = rest
                          \/ tape' = <<>>
  /\ read' = 0
  /\ out' = NoAnswer

Next ==
  \/ \E v \in Values : Push(v)
  \/ PushThrows
  \/ Pop
  \/ Forget
  \/ Rewind
  \/ \E first \in 1 .. Len(tape) + 1, last \in 0 .. Len(tape) : Load(first, last)

Spec == Init /\ [][Next]_vars

=============================================================================
