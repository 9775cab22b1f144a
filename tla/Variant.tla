------------------------------- MODULE Variant -------------------------------
(***************************************************************************)
(* ucxx::Variant objects (Variant.cpp) in the memory of a program: the     *)
(* program's own variables, and the elements of the lists and maps that    *)
(* are the payloads of other Variants.  A Variant is a type and, for a     *)
(* string, a list or a map, a pointer to a payload on the heap.            *)
(*                                                                         *)
(* list(), map() and string() hand out references to what is inside, so    *)
(* that the source of an assignment may be a part of its target or the     *)
(* other way round.  Each assignment is followed through: what clear()     *)
(* frees, then what is read.  A read of freed memory or through a null     *)
(* pointer is undefined behaviour, where the model stops.                  *)
(*                                                                         *)
(* What a number, a boolean or a string says is left out, and so are the   *)
(* keys of a map; std::list and std::map are taken for sequences.          *)
(***************************************************************************)
EXTENDS Integers, Sequences

CONSTANTS
  Variables,    \* the Variants that the program has on its stack
  Blocks,       \* the memory: each block has room for one payload
  Nowhere,      \* the null pointer
  Plain,        \* the types without payload that the program uses
  Objects,      \* and those with one: "String", "List", "Map"
  MaxElements   \* bound: elements of a list or map

(* The program also has an empty string, list and map of its own, that are *)
(* not in a Variant; they go by the name of their type.  None of these is  *)
(* where another is.                                                       *)
ASSUME VariantAssumption ==
  /\ Blocks \cap (Variables \cup Objects) = {} /\ Variables \cap Objects = {}
  /\ Objects \subseteq {"String", "List", "Map"}
  /\ Nowhere \notin Blocks \cup Variables \cup Objects
  /\ Plain \subseteq {"Null", "Boolean", "Integer", "Real"}
  /\ MaxElements \in Nat

VARIABLES
  heap,         \* what is in each block; cells are Variants
  undefined,    \* undefined behaviour has occurred
  overlapped,   \* history: a source and a target were part of one another
  threw         \* history: there was no memory for a payload

variantVars == <<heap, undefined, overlapped, threw>>

Nothing == [type |-> "Invalid", ptr |-> Nowhere]
Free == [kind |-> "free", cells |-> <<>>]

VariantInit ==
  /\ heap = [b \in Blocks \cup Variables \cup Objects |->
               IF b \in Blocks THEN Free
               ELSE IF b \in Variables THEN [kind |-> "stack", cells |-> <<Nothing>>]
               ELSE [kind |-> b, cells |-> <<>>]]
  /\ undefined = FALSE
  /\ overlapped = FALSE
  /\ threw = FALSE

(* Where the Variants are: the k-th one of a block or variable.            *)
Places(h) == UNION {{b} \X DOMAIN h[b].cells : b \in DOMAIN h}
Cell(h, at) == h[at[1]].cells[at[2]]
With(h, at, cell) == [h EXCEPT ![at[1]].cells[at[2]] = cell]

(* The payload at b, if it is not nowhere, and those in it: what is in all *)
(* sets that have what its cells point to, and what their cells point to.  *)
Parts(h, b) == {h[b].cells[i].ptr : i \in DOMAIN h[b].cells} \ {Nowhere}

Closed(h, S) == \A p \in S : Parts(h, p) \subseteq S

Owned(h, b) ==
  IF b = Nowhere THEN {}
  ELSE {b} \cup {p \in Blocks : \A S \in SUBSET Blocks :
                   Parts(h, b) \subseteq S /\ Closed(h, S) => p \in S}

OwnedBy(h, cell) == Owned(h, cell.ptr)

(* One Variant is a part of the other.                                     *)
Inside(at, other) == at[1] \in OwnedBy(heap, Cell(heap, other))

Overlap(a, b) == a # b /\ (a \in Owned(heap, b) \/ b \in Owned(heap, a))

-----------------------------------------------------------------------------
Freed(h, S) == [b \in DOMAIN h |-> IF b \in S THEN Free ELSE h[b]]

\* mutant: clear() leaves m_data as it was
ClearedKeepsData(h, at) ==
  With(Freed(h, OwnedBy(h, Cell(h, at))), at, [Cell(h, at) EXCEPT !.type = "Invalid"])

(* clear(): delete runs the destructors of what is inside.                 *)
Cleared(h, at) == With(Freed(h, OwnedBy(h, Cell(h, at))), at, Nothing)

(* A Variant whose payload could not be allocated.                         *)
Broken(cell) == cell.type \in Objects /\ cell.ptr = Nowhere

(* What a copy of the payload at b reads is there.                         *)
Readable(h, b, type) ==
  /\ b # Nowhere
  /\ h[b].kind = type
  /\ \A p \in Owned(h, b) : \A i \in DOMAIN h[p].cells : ~Broken(h[p].cells[i])

(* Copies of the payloads S in free blocks: f says where.                  *)
Placements(h, S) ==
  {f \in [S -> {b \in Blocks : h[b].kind = "free"}] :
     \A b, c \in S : f[b] = f[c] => b = c}

Moved(cells, f) ==
  [i \in DOMAIN cells |-> IF cells[i].ptr = Nowhere THEN cells[i]
                          ELSE [cells[i] EXCEPT !.ptr = f[@]]]

Copied(h, f) ==
  [b \in DOMAIN h |->
     IF \E s \in DOMAIN f : f[s] = b
     THEN LET s == CHOOSE s \in DOMAIN f : f[s] = b
          IN  [h[s] EXCEPT !.cells = Moved(@, f)]
     ELSE h[b]]

Undefined == undefined' = TRUE /\ UNCHANGED <<heap, threw>>

(* The Variant at the place has its type; its payload, a copy of the one   *)
(* at b, follows.                                                          *)
NewPayload(h, at, type, b) ==
  IF ~Readable(h, b, type) THEN Undefined
  ELSE LET copies == Placements(h, Owned(h, b))
       IN  \/ /\ copies = {}     \* bad_alloc
              /\ heap' = h
              /\ threw' = TRUE
              /\ UNCHANGED undefined
           \/ /\ \E f \in copies :
                   heap' = With(Copied(h, f), at, [type |-> type, ptr |-> f[b]])
              /\ UNCHANGED <<undefined, threw>>

\* mutant: m_data is copied, whatever the type
InitFromShallow(h, at, cell) ==
  heap' = With(h, at, cell) /\ UNCHANGED <<undefined, threw>>

(* initFrom(), for a Variant that has the type of the source already.      *)
InitFrom(h, at, cell) ==
  \/ cell.type \in Objects /\ NewPayload(h, at, cell.type, cell.ptr)
  \/ cell.type \notin Objects /\ heap' = h /\ UNCHANGED <<undefined, threw>>

Typed(h, at, type) == With(h, at, [type |-> type, ptr |-> Nowhere])

-----------------------------------------------------------------------------
\* mutant: without clear()
AssignPlainLeaks(at, type) ==
  heap' = Typed(heap, at, type) /\ UNCHANGED <<undefined, overlapped, threw>>

(* operator =(bool), operator =(int), operator =(double).                  *)
AssignPlain(at, type) ==
  /\ heap' = Typed(IF Cell(heap, at).type # type THEN Cleared(heap, at) ELSE heap,
                   at, type)
  /\ UNCHANGED <<undefined, overlapped, threw>>

\* mutant: without the test of this != &variant
AssignVariantSelf(at, from) ==
  LET h == Cleared(heap, at)
  IN  /\ overlapped' = (overlapped \/ Inside(from, at) \/ Inside(at, from))
      /\ \/ h[from[1]].kind = "free" /\ Undefined
         \/ /\ h[from[1]].kind # "free"
            /\ InitFrom(Typed(h, at, Cell(h, from).type), at, Cell(h, from))

(* operator =(const Variant&).                                             *)
AssignVariant(at, from) ==
  /\ IF at = from THEN UNCHANGED <<heap, undefined, threw>>
     ELSE LET h == Cleared(heap, at)
          IN  \/ h[from[1]].kind = "free" /\ Undefined
              \/ /\ h[from[1]].kind # "free"
                 /\ InitFrom(Typed(h, at, Cell(h, from).type), at, Cell(h, from))
  /\ overlapped' = (overlapped \/ Inside(from, at) \/ Inside(at, from))

(* std::list's and std::map's own assignment, which promises nothing when  *)
(* one is inside the other; memory that runs out half way is left out.     *)
AssignInPlace(own, b) ==
  \/ (own = Nowhere \/ Overlap(own, b)) /\ Undefined
  \/ own = b /\ UNCHANGED <<heap, undefined, threw>>
  \/ /\ own \notin {b, Nowhere} /\ ~Overlap(own, b)
     /\ \/ ~Readable(heap, b, heap[b].kind) /\ Undefined
        \/ /\ Readable(heap, b, heap[b].kind)
           /\ \E f \in Placements(heap, Owned(heap, b) \ {b}) :
                heap' = [Copied(Freed(heap, Owned(heap, own) \ {own}), f)
                           EXCEPT ![own].cells = Moved(heap[b].cells, f)]
           /\ UNCHANGED <<undefined, threw>>

(* operator =(const std::string&), operator =(const VariantList&) and      *)
(* operator =(const VariantMap&).                                          *)
AssignPayload(at, b) ==
  LET type == heap[b].kind
      own == Cell(heap, at).ptr
  IN  /\ overlapped' = (overlapped \/ (own # Nowhere /\ Overlap(own, b))
                                   \/ at[1] \in Owned(heap, b))
      /\ \/ /\ Cell(heap, at).type # type
            /\ NewPayload(Typed(Cleared(heap, at), at, type), at, type, b)
         \/ /\ Cell(heap, at).type = type
            /\ AssignInPlace(own, b)

Clear(at) ==
  /\ heap' = Cleared(heap, at)
  /\ UNCHANGED <<undefined, overlapped, threw>>

-----------------------------------------------------------------------------
(* The program, through list() and map(): it appends a Variant(), as map's *)
(* operator [] does, or a copy of a Variant, or removes an element.        *)
Insert(b) ==
  /\ heap[b].kind \in {"List", "Map"} /\ Len(heap[b].cells) < MaxElements
  /\ heap' = [heap EXCEPT ![b].cells = Append(@, Nothing)]
  /\ UNCHANGED <<undefined, overlapped, threw>>

PushBack(b, from) ==
  /\ heap[b].kind = "List" /\ Len(heap[b].cells) < MaxElements
  /\ LET cell == Cell(heap, from)
         type == cell.type
     IN  \/ /\ type \notin Objects
            /\ heap' = [heap EXCEPT ![b].cells = Append(@, cell)]
            /\ UNCHANGED <<undefined, threw>>
         \/ /\ type \in Objects
            /\ IF Readable(heap, cell.ptr, type)
               THEN /\ \E f \in Placements(heap, Owned(heap, cell.ptr)) :
                         heap' = [Copied(heap, f) EXCEPT ![b].cells =
                                    Append(@, [cell EXCEPT !.ptr = f[@]])]
                    /\ UNCHANGED <<undefined, threw>>
               ELSE Undefined
  /\ UNCHANGED overlapped

Erase(at) ==
  /\ at[1] \in Blocks
  /\ heap' = [Cleared(heap, at) EXCEPT ![at[1]].cells =
                SubSeq(@, 1, at[2] - 1) \o SubSeq(@, at[2] + 1, Len(@))]
  /\ UNCHANGED <<undefined, overlapped, threw>>

(* What the program does to the Variant at the place.                      *)
Change(at) ==
  \/ \E type \in Plain : AssignPlain(at, type)
  \/ \E from \in Places(heap) : AssignVariant(at, from)
  \/ \E b \in Blocks \cup Objects :
       heap[b].kind \in Objects /\ AssignPayload(at, b)
  \/ Clear(at)
  \/ Erase(at)

(* What it does in the variable or payload b.                              *)
Operation(b) ==
  \/ \E at \in Places(heap) : at[1] = b /\ Change(at)
  \/ b \in Blocks /\ (Insert(b) \/ \E from \in Places(heap) : PushBack(b, from))

VariantNext == ~undefined /\ \E b \in DOMAIN heap : Operation(b)

VariantSpec == VariantInit /\ [][VariantNext]_variantVars

-----------------------------------------------------------------------------
VariantTypeOK ==
  /\ \A b \in DOMAIN heap :
       /\ heap[b].kind \in {"free", "stack"} \cup Objects
       /\ Len(heap[b].cells) <= MaxElements \/ b \in Variables
       /\ \A i \in DOMAIN heap[b].cells :
            /\ heap[b].cells[i].type \in {"Invalid"} \cup Plain \cup Objects
            /\ heap[b].cells[i].ptr \in
                 IF heap[b].cells[i].type \in Objects THEN Blocks \cup {Nowhere}
                                                      ELSE {Nowhere}
  /\ {undefined, overlapped, threw} \subseteq BOOLEAN

(* Each payload belongs to exactly one Variant, which has its type: none   *)
(* is leaked, none is deleted twice or used after it was deleted, whatever *)
(* is assigned to what, and also after an allocation failed half way.      *)
Owners(b) == {at \in Places(heap) : Cell(heap, at).ptr = b}

EachPayloadOwned ==
  /\ \A b \in Blocks :
       heap[b].kind # "free" =>
         \E at \in Places(heap) : /\ Owners(b) = {at}
                                  /\ Cell(heap, at).type = heap[b].kind
                                  /\ at[1] # b
  /\ \A at \in Places(heap) :
       /\ Cell(heap, at).ptr # Nowhere => heap[Cell(heap, at).ptr].kind # "free"
       /\ Broken(Cell(heap, at)) => threw

(* Undefined behaviour comes only from an assignment between a Variant and *)
(* a part of it (Variant.cpp:73, 118, 131, 136, 144), or from the use of a *)
(* Variant whose payload could not be allocated and which has the type all *)
(* the same (Variant.cpp:74, 119).                                         *)
DefinedUnlessOverlap == undefined => overlapped \/ threw

(* What is assigned to a variable is a copy: the variable has the value    *)
(* that the source had, and nothing that is done later, to either or to    *)
(* what is in them, down to the innermost element, changes the values of   *)
(* both.                                                                   *)
Contents(h, v) ==
  LET of[b \in DOMAIN h] ==
        [i \in DOMAIN h[b].cells |->
           <<h[b].cells[i].type,
             IF h[b].cells[i].ptr = Nowhere THEN <<>> ELSE of[h[b].cells[i].ptr]>>]
  IN  of[v]

KeepsValue(w) == Contents(heap', w) = Contents(heap, w)

AssignmentCopies ==
  [][\A v, w \in Variables :
       /\ v # w => KeepsValue(v) \/ KeepsValue(w)
       /\ (/\ ~undefined' /\ ~Broken(heap'[v].cells[1])
           /\ AssignVariant(<<v, 1>>, <<w, 1>>))
          => Contents(heap', v) = Contents(heap, w)]_variantVars

=============================================================================
