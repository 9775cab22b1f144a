------------------------------ MODULE MCValues -------------------------------
(***************************************************************************)
(* An instance of Serializer.tla and one of Variant.tla for TLC, which     *)
(* have nothing in common: a behaviour is of the one or of the other, as   *)
(* part says.                                                              *)
(*                                                                         *)
(* A bool has one byte here, an int two and a double three, Base is 9 and  *)
(* the array has room for 12 bytes; one argument is a string with as many  *)
(* characters as an unsigned has values, and one more.                     *)
(***************************************************************************)
EXTENDS Serializer, Variant, TLC

VARIABLE part

Init == part \in {"bytes", "objects"} /\ SerializerInit /\ VariantInit

(* A program with undefined behaviour is followed no further.              *)
Next ==
  \/ part = "bytes" /\ SerializerNext /\ UNCHANGED <<variantVars, part>>
  \/ part = "objects" /\ VariantNext /\ UNCHANGED <<serializerVars, part>>
  \/ undefined /\ UNCHANGED <<serializerVars, variantVars, part>>

Spec == Init /\ [][Next]_<<serializerVars, variantVars, part>>

MCSizeOf == [Boolean |-> 1, Integer |-> 2, Real |-> 3]
MCSignature == [Invalid |-> 1, Null |-> 2, Boolean |-> 3, Integer |-> 4,
                Real |-> 5, String |-> 6, List |-> 7, Map |-> 8]

Leaf(type) == Variant(type, <<>>, <<>>)
Word(chars) == Variant("String", chars, <<>>)
ListOf(items) == Variant("List", <<>>, items)
MapOf(items) == Variant("Map", <<>>, items)

MCArguments ==
  {Variant("Boolean", <<1>>, <<>>),
   Variant("Integer", <<1, 2>>, <<>>),
   Word([i \in 1 .. 82 |-> 2]),
   ListOf(<<ListOf(<<Variant("Real", <<1, 2, 3>>, <<>>)>>), Leaf("Null")>>),
   MapOf(<<Word(<<>>), Leaf("Null"), Word(<<1>>), Leaf("Invalid")>>)}

MCParts(S) == S \cup UNION {{v.items[i] : i \in DOMAIN v.items} : v \in S}
MCValues_ == MCParts(MCParts(MCArguments))

Symmetry == Permutations(Blocks) \cup Permutations(Variables)

=============================================================================
