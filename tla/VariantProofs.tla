---------------------------- MODULE VariantProofs -----------------------------
(***************************************************************************)
(* What Variant.tla's own states are like, for any memory, any variables   *)
(* and any size of lists: the payloads are a forest whose roots are in the *)
(* variables, and no assignment makes anything else of it.                 *)
(*                                                                         *)
(* Each assignment is made of three changes: the cells of one block are    *)
(* replaced, a set of blocks is freed, a set of blocks is copied to free   *)
(* ones.  Between two of them there are payloads that nothing points to,   *)
(* the orphans; so that the forest is stated with a set of them, which is  *)
(* empty between two steps of the program.                                 *)
(***************************************************************************)
EXTENDS Variant, SequenceTheorems, TLAPS

Spots == Blocks \cup Variables \cup Objects
Cells == [type : {"Invalid"} \cup Plain \cup Objects, ptr : Blocks \cup {Nowhere}]
Heaps == [Spots -> [kind : {"free", "stack"} \cup Objects, cells : Seq(Cells)]]

Ptrs(cells) == {cells[i].ptr : i \in DOMAIN cells} \ {Nowhere}

(* What can be said of one block or variable alone.                        *)
Tidy(q, room) ==
  /\ room.kind = "free" => room.cells = <<>>
  /\ Len(room.cells) <= MaxElements \/ q \in Variables
  /\ q \in Variables => Len(room.cells) = 1
  /\ \A i \in DOMAIN room.cells :
       room.cells[i].type \notin Objects => room.cells[i].ptr = Nowhere
  /\ \A i, j \in DOMAIN room.cells :
       room.cells[i].ptr = room.cells[j].ptr /\ room.cells[i].ptr # Nowhere => i = j

(* A pointer is to a payload of the type that the Variant has.             *)
Fits(h, cells) ==
  \A i \in DOMAIN cells : cells[i].ptr # Nowhere => h[cells[i].ptr].kind = cells[i].type

(* No payload belongs to two.                                              *)
Sole(h) == \A q, r \in Spots : q # r => Parts(h, q) \cap Parts(h, r) = {}

(* None but the orphans belongs to nobody.                                 *)
KeptBut(h, O) ==
  /\ O \subseteq Blocks
  /\ \A b \in Blocks : \/ h[b].kind = "free"
                       \/ b \in O
                       \/ \E q \in Spots : b \in Parts(h, q)
  /\ \A b \in O : h[b].kind # "free" /\ \A q \in Spots : b \notin Parts(h, q)

(* None is inside itself: in any set of blocks there is one that belongs   *)
(* to none of the set.                                                     *)
Rooted(h) ==
  \A T \in SUBSET Blocks : T # {} => \E b \in T : \A q \in T : b \notin Parts(h, q)

(* And none goes on for ever: in any set of blocks there is one that none  *)
(* of the set belongs to.                                                  *)
Grounded(h) ==
  \A T \in SUBSET Blocks : T # {} => \E b \in T : Parts(h, b) \cap T = {}

Forest(h, O) ==
  /\ h \in Heaps
  /\ \A q \in Spots : Tidy(q, h[q]) /\ Fits(h, h[q].cells)
  /\ Sole(h)
  /\ KeptBut(h, O)
  /\ Rooted(h)
  /\ Grounded(h)

BrokenAfter == \A at \in Places(heap) : Broken(Cell(heap, at)) => threw

VariantInv ==
  /\ Forest(heap, {})
  /\ BrokenAfter
  /\ {undefined, overlapped, threw} \subseteq BOOLEAN
  /\ DefinedUnlessOverlap

-----------------------------------------------------------------------------
(* Owned: it has what it points to, it is the least that has, and so each  *)
(* but the first is pointed to from inside.                                *)
LEMMA PartsAreBlocks ==
  ASSUME NEW h \in Heaps, NEW q \in Spots
  PROVE  /\ Parts(h, q) \subseteq Blocks
         /\ Parts(h, q) = Ptrs(h[q].cells)
         /\ h[q].cells = <<>> => Parts(h, q) = {}
<1>1. h[q].cells \in Seq(Cells)
  BY DEF Heaps
<1>2. \A i \in DOMAIN h[q].cells : h[q].cells[i] \in Cells
  BY <1>1
<1>3. Parts(h, q) = Ptrs(h[q].cells)
  BY DEF Parts, Ptrs
<1>4. Ptrs(h[q].cells) \subseteq Blocks
  BY <1>2 DEF Ptrs, Cells
<1>5. h[q].cells = <<>> => DOMAIN h[q].cells = {}
  OBVIOUS
<1> QED
  BY <1>3, <1>4, <1>5 DEF Ptrs

LEMMA GroundedAnywhere ==
  ASSUME NEW h \in Heaps, Grounded(h), NEW T \in SUBSET Spots, T # {}
  PROVE  \E b \in T : Parts(h, b) \cap T = {}
<1>1. \A b \in T : Parts(h, b) \subseteq Blocks
  BY PartsAreBlocks
<1>2. CASE T \cap Blocks = {}
  BY <1>1, <1>2
<1>3. CASE T \cap Blocks # {}
  <2>1. T \cap Blocks \in SUBSET Blocks
    OBVIOUS
  <2>2. PICK b \in T \cap Blocks : Parts(h, b) \cap (T \cap Blocks) = {}
    BY <1>3, <2>1 DEF Grounded
  <2> QED
    BY <1>1, <2>2
<1> QED
  BY <1>2, <1>3

LEMMA OwnedLeast ==
  ASSUME NEW h \in Heaps, NEW b \in Spots, NEW S, b \in S, Closed(h, S)
  PROVE  Owned(h, b) \subseteq S
<1> DEFINE T == S \cap Blocks
<1>1. \A p \in S : p \in Spots => Parts(h, p) \subseteq T
  BY PartsAreBlocks DEF Closed
<1>2. T \in SUBSET Blocks /\ T \subseteq S
  OBVIOUS
<1>3. Parts(h, b) \subseteq T /\ Closed(h, T)
  BY <1>1 DEF Closed, Spots
<1> HIDE DEF T
<1> QED
  BY <1>2, <1>3 DEF Owned

LEMMA OwnedClosed ==
  ASSUME NEW h \in Heaps, NEW b \in Spots
  PROVE  /\ b \in Owned(h, b)
         /\ Owned(h, b) \subseteq Blocks \cup {b}
         /\ Closed(h, Owned(h, b))
<1>1. b # Nowhere
  BY VariantAssumption DEF Spots
<1>2. b \in Owned(h, b) /\ Owned(h, b) \subseteq Blocks \cup {b}
  BY <1>1 DEF Owned
<1>3. ASSUME NEW p \in Owned(h, b), NEW c \in Parts(h, p)
      PROVE  c \in Owned(h, b)
  <2>1. p \in Spots
    BY <1>2, <1>3 DEF Spots
  <2>2. c \in Blocks
    BY <1>3, <2>1, PartsAreBlocks
  <2>3. ASSUME NEW S \in SUBSET Blocks, Parts(h, b) \subseteq S, Closed(h, S)
        PROVE  c \in S
    <3>1. CASE p = b
      BY <1>3, <2>3, <3>1
    <3>2. CASE p # b
      <4>1. p \in S
        BY <1>1, <1>3, <2>3, <3>2 DEF Owned
      <4> QED
        BY <1>3, <2>3, <4>1 DEF Closed
    <3> QED
      BY <3>1, <3>2
  <2> QED
    BY <1>1, <2>2, <2>3 DEF Owned
<1> QED
  BY <1>2, <1>3 DEF Closed

LEMMA OwnedFromInside ==
  ASSUME NEW h \in Heaps, NEW b \in Spots, NEW c \in Owned(h, b), c # b
  PROVE  \E q \in Owned(h, b) : c \in Parts(h, q)
<1> SUFFICES ASSUME \A q \in Owned(h, b) : c \notin Parts(h, q)
             PROVE  FALSE
  OBVIOUS
<1> DEFINE S == Owned(h, b) \ {c}
<1>1. b \in S /\ Closed(h, S)
  BY OwnedClosed DEF Closed
<1>2. c \notin S
  OBVIOUS
<1> HIDE DEF S
<1> QED
  BY <1>1, <1>2, OwnedLeast

-----------------------------------------------------------------------------
(* The cells of one block, or of a variable, are replaced.  What is new in *)
(* them were orphans, and the block is in none of these.                   *)
Put(h, q, cells) == [h EXCEPT ![q].cells = cells]

LEMMA PutIs ==
  ASSUME NEW h \in Heaps, NEW q \in Spots, NEW cells \in Seq(Cells)
  PROVE  /\ Put(h, q, cells) \in Heaps
         /\ Put(h, q, cells)[q] = [kind |-> h[q].kind, cells |-> cells]
         /\ Parts(Put(h, q, cells), q) = Ptrs(cells)
         /\ \A r \in Spots : Put(h, q, cells)[r].kind = h[r].kind
         /\ \A r \in Spots \ {q} : /\ Put(h, q, cells)[r] = h[r]
                                   /\ Parts(Put(h, q, cells), r) = Parts(h, r)
<1> DEFINE g == Put(h, q, cells)
<1>1. h[q] \in [kind : {"free", "stack"} \cup Objects, cells : Seq(Cells)]
  BY DEF Heaps
<1>2. [h[q] EXCEPT !.cells = cells] = [kind |-> h[q].kind, cells |-> cells]
  BY <1>1
<1>3. g \in Heaps /\ g[q] = [kind |-> h[q].kind, cells |-> cells]
  BY <1>1, <1>2 DEF Heaps, Put
<1>4. \A r \in Spots \ {q} : g[r] = h[r]
  BY DEF Heaps, Put
<1> HIDE DEF g
<1>5. \A r \in Spots : g[r].kind = h[r].kind
  BY <1>3, <1>4
<1>6. Parts(g, q) = Ptrs(cells)
  BY <1>3, PartsAreBlocks
<1>7. \A r \in Spots \ {q} : Parts(g, r) = Parts(h, r)
  BY <1>4 DEF Parts
<1> QED
  BY <1>3, <1>4, <1>5, <1>6, <1>7 DEF g

LEMMA PutForest ==
  ASSUME NEW h, NEW O, Forest(h, O), NEW q \in Spots, NEW cells \in Seq(Cells),
         Tidy(q, [kind |-> h[q].kind, cells |-> cells]), Fits(h, cells),
         NEW D \in SUBSET Blocks, Closed(h, D), q \notin D,
         Ptrs(cells) \subseteq Parts(h, q) \cup (O \cap D)
  PROVE  Forest(Put(h, q, cells), (O \cup Parts(h, q)) \ Ptrs(cells))
<1> DEFINE g == Put(h, q, cells)
           N == (O \cup Parts(h, q)) \ Ptrs(cells)
<1>1. /\ g \in Heaps /\ h \in Heaps
      /\ g[q] = [kind |-> h[q].kind, cells |-> cells]
      /\ Parts(g, q) = Ptrs(cells)
      /\ \A r \in Spots : g[r].kind = h[r].kind
      /\ \A r \in Spots \ {q} : g[r] = h[r] /\ Parts(g, r) = Parts(h, r)
  BY PutIs DEF Forest
<1> HIDE DEF g
<1>2. \A r \in Spots : Tidy(r, g[r])
  BY <1>1 DEF Forest
<1>3. \A b \in Blocks : g[b].kind = h[b].kind
  BY <1>1 DEF Spots
<1>4. ASSUME NEW r \in Spots PROVE Fits(g, g[r].cells)
  <2>1. Fits(h, g[r].cells)
    BY <1>1 DEF Forest
  <2>2. g[r].cells \in Seq(Cells)
    BY <1>1 DEF Heaps
  <2>3. \A i \in DOMAIN g[r].cells : g[r].cells[i] \in Cells
    BY <2>2
  <2>4. \A i \in DOMAIN g[r].cells :
          g[r].cells[i].ptr # Nowhere => g[r].cells[i].ptr \in Blocks
    BY <2>3 DEF Cells
  <2> QED
    BY <1>3, <2>1, <2>4 DEF Fits
<1>5. Sole(g)
  BY <1>1 DEF Forest, Sole, KeptBut
<1>6. Parts(h, q) \subseteq Blocks
  BY <1>1, PartsAreBlocks
<1>7. ASSUME NEW b \in Parts(h, q) PROVE h[b].kind # "free"
  <2>1. PICK i \in DOMAIN h[q].cells : h[q].cells[i].ptr = b /\ b # Nowhere
    BY <1>7 DEF Parts
  <2> QED
    BY <2>1, VariantAssumption DEF Forest, Tidy, Fits
<1>8. KeptBut(g, N)
  <2>1. N \subseteq Blocks
    BY <1>6 DEF Forest, KeptBut
  <2>2. ASSUME NEW b \in Blocks, g[b].kind # "free", b \notin N
        PROVE  \E r \in Spots : b \in Parts(g, r)
    <3>1. CASE b \in Ptrs(cells)
      BY <1>1, <3>1
    <3>2. CASE b \notin Ptrs(cells)
      <4>1. b \notin O /\ b \notin Parts(h, q)
        BY <2>2, <3>2
      <4>2. PICK r \in Spots : b \in Parts(h, r)
        BY <1>3, <2>2, <4>1 DEF Forest, KeptBut
      <4> QED
        BY <1>1, <4>1, <4>2
    <3> QED
      BY <3>1, <3>2
  <2>3. ASSUME NEW b \in N PROVE g[b].kind # "free" /\ \A r \in Spots : b \notin Parts(g, r)
    <3>1. b \in Blocks /\ h[b].kind # "free"
      BY <1>7, <2>1, <2>3 DEF Forest, KeptBut
    <3>2. ASSUME NEW r \in Spots \ {q} PROVE b \notin Parts(h, r)
      BY <2>3 DEF Forest, KeptBut, Sole
    <3> QED
      BY <1>1, <1>3, <2>3, <3>1, <3>2
  <2> QED
    BY <2>1, <2>2, <2>3 DEF KeptBut
<1>9. Rooted(g)
  <2> SUFFICES ASSUME NEW T \in SUBSET Blocks, T # {}
               PROVE  \E b \in T : \A r \in T : b \notin Parts(g, r)
    BY DEF Rooted
  <2>1. \A r \in T : r \in Spots
    BY DEF Spots
  <2>2. CASE T \subseteq D
    <3>1. PICK b \in T : \A r \in T : b \notin Parts(h, r)
      BY DEF Forest, Rooted
    <3> QED
      BY <1>1, <2>1, <2>2, <3>1
  <2>3. CASE ~(T \subseteq D)
    <3>1. T \ D \in SUBSET Blocks /\ T \ D # {}
      BY <2>3
    <3>2. PICK b \in T \ D : \A r \in T \ D : b \notin Parts(h, r)
      BY <3>1 DEF Forest, Rooted
    <3>3. \A r \in T : b \notin Parts(h, r)
      BY <3>2 DEF Closed
    <3> QED
      BY <1>1, <2>1, <3>2, <3>3
  <2> QED
    BY <2>2, <2>3
<1>10. Grounded(g)
  <2> SUFFICES ASSUME NEW T \in SUBSET Blocks, T # {}
               PROVE  \E b \in T : Parts(g, b) \cap T = {}
    BY DEF Grounded
  <2>1. \A r \in T : r \in Spots
    BY DEF Spots
  <2>2. CASE T \cap D # {}
    <3>1. T \cap D \in SUBSET Blocks
      OBVIOUS
    <3>2. PICK b \in T \cap D : Parts(h, b) \cap (T \cap D) = {}
      BY <2>2, <3>1 DEF Forest, Grounded
    <3>3. Parts(h, b) \subseteq D /\ Parts(g, b) = Parts(h, b)
      BY <1>1, <2>1 DEF Closed
    <3> QED
      BY <3>2, <3>3
  <2>3. CASE T \cap D = {}
    <3>1. PICK b \in T : Parts(h, b) \cap T = {}
      BY DEF Forest, Grounded
    <3>2. Parts(g, b) \subseteq Parts(h, b) \cup D
      BY <1>1, <2>1
    <3> QED
      BY <2>3, <3>1, <3>2
  <2> QED
    BY <2>2, <2>3
<1> QED
  BY <1>1, <1>2, <1>4, <1>5, <1>8, <1>9, <1>10 DEF Forest, g

-----------------------------------------------------------------------------
(* A set of blocks is freed that nothing outside of it points to.          *)
LEMMA FreedIs ==
  ASSUME NEW h \in Heaps, NEW D \in SUBSET Blocks
  PROVE  /\ Freed(h, D) \in Heaps
         /\ \A r \in Spots \ D : /\ Freed(h, D)[r] = h[r]
                                 /\ Parts(Freed(h, D), r) = Parts(h, r)
         /\ \A r \in D : /\ Freed(h, D)[r] = Free
                         /\ Parts(Freed(h, D), r) = {}
<1> DEFINE g == Freed(h, D)
<1>1. Free \in [kind : {"free", "stack"} \cup Objects, cells : Seq(Cells)]
  BY DEF Free
<1>2. g \in Heaps
  BY <1>1 DEF Freed, Heaps
<1>3. \A r \in Spots \ D : g[r] = h[r]
  BY DEF Freed, Heaps
<1>4. \A r \in D : r \in Spots /\ g[r] = Free
  BY DEF Freed, Heaps, Spots
<1> HIDE DEF g
<1>5. \A r \in Spots \ D : Parts(g, r) = Parts(h, r)
  BY <1>3 DEF Parts
<1>6. \A r \in D : Parts(g, r) = {}
  BY <1>2, <1>4, PartsAreBlocks DEF Free
<1> QED
  BY <1>2, <1>3, <1>4, <1>5, <1>6 DEF g

LEMMA FreedForest ==
  ASSUME NEW h, NEW O, Forest(h, O), NEW D \in SUBSET Blocks, Closed(h, D),
         \A q \in Spots \ D : Parts(h, q) \cap D = {}
  PROVE  Forest(Freed(h, D), O \ D)
<1> DEFINE g == Freed(h, D)
<1>1. /\ g \in Heaps /\ h \in Heaps
      /\ \A r \in Spots \ D : g[r] = h[r] /\ Parts(g, r) = Parts(h, r)
      /\ \A r \in D : g[r] = Free /\ Parts(g, r) = {}
  BY FreedIs DEF Forest
<1> HIDE DEF g
<1>2. \A r \in Spots : Parts(g, r) \subseteq Parts(h, r)
  BY <1>1
<1>3. ASSUME NEW r \in Spots PROVE Tidy(r, g[r]) /\ Fits(g, g[r].cells)
  <2>1. CASE r \in D
    <3>1. g[r].cells = <<>> /\ g[r].kind = "free"
      BY <1>1, <2>1 DEF Free
    <3>2. DOMAIN g[r].cells = {} /\ Len(g[r].cells) = 0
      BY <3>1
    <3>3. r \notin Variables
      BY <2>1, VariantAssumption
    <3> QED
      BY <3>1, <3>2, <3>3, VariantAssumption DEF Tidy, Fits
  <2>2. CASE r \notin D
    <3>1. Tidy(r, g[r]) /\ Fits(h, g[r].cells) /\ Parts(h, r) = Ptrs(g[r].cells)
      BY <1>1, <2>2, PartsAreBlocks DEF Forest
    <3>2. Ptrs(g[r].cells) \subseteq Blocks \ D
      BY <1>1, <2>2, <3>1, PartsAreBlocks
    <3>3. \A b \in Blocks \ D : g[b] = h[b]
      BY <1>1 DEF Spots
    <3>4. Fits(g, g[r].cells)
      BY <3>1, <3>2, <3>3 DEF Fits, Ptrs
    <3> QED
      BY <3>1, <3>4
  <2> QED
    BY <2>1, <2>2
<1>4. Sole(g)
  BY <1>2 DEF Forest, Sole
<1>5. Rooted(g)
  <2>1. \A T \in SUBSET Blocks : \A q \in T : Parts(g, q) \subseteq Parts(h, q)
    BY <1>2 DEF Spots
  <2> QED
    BY <2>1 DEF Forest, Rooted
<1>7. Grounded(g)
  <2>1. \A b \in Blocks : Parts(g, b) \subseteq Parts(h, b)
    BY <1>2 DEF Spots
  <2>2. Grounded(h)
    BY DEF Forest
  <2> QED
    BY ONLY <2>1, <2>2 DEF Grounded
<1>6. KeptBut(g, O \ D)
  <2>1. O \ D \subseteq Blocks
    BY DEF Forest, KeptBut
  <2>2. ASSUME NEW b \in Blocks, g[b].kind # "free", b \notin O \ D
        PROVE  \E r \in Spots : b \in Parts(g, r)
    <3>1. b \notin D
      BY <1>1, <2>2 DEF Free
    <3>2. b \notin O /\ h[b].kind # "free"
      BY <1>1, <2>2, <3>1 DEF Spots
    <3>3. PICK r \in Spots : b \in Parts(h, r)
      BY <3>2 DEF Forest, KeptBut
    <3>4. r \notin D
      BY <3>1, <3>3 DEF Closed
    <3> QED
      BY <1>1, <3>3, <3>4
  <2>3. \A b \in O \ D : g[b].kind # "free" /\ \A r \in Spots : b \notin Parts(g, r)
    BY <1>1, <1>2, <2>1 DEF Forest, KeptBut, Spots
  <2> QED
    BY <2>1, <2>2, <2>3 DEF KeptBut
<1> QED
  BY <1>1, <1>3, <1>4, <1>5, <1>6, <1>7 DEF Forest, g

-----------------------------------------------------------------------------
(* A set of blocks with all that is in them is copied.                     *)
Placed(h, S, f) ==
  /\ f \in [S -> {b \in Blocks : h[b].kind = "free"}]
  /\ \A b, c \in S : f[b] = f[c] => b = c

Ones(h, S) == {s \in S : \A q \in S : s \notin Parts(h, q)}

Copies(S, f) == {f[s] : s \in S}

MovedCell(cell, f) ==
  [type |-> cell.type, ptr |-> IF cell.ptr = Nowhere THEN Nowhere ELSE f[cell.ptr]]

LEMMA MovedIs ==
  ASSUME NEW cells \in Seq(Cells), NEW S \in SUBSET Spots, Ptrs(cells) \subseteq S,
         NEW f \in [S -> Blocks],
         \A b, c \in S : f[b] = f[c] => b = c
  PROVE  /\ Moved(cells, f) \in Seq(Cells)
         /\ Len(Moved(cells, f)) = Len(cells)
         /\ DOMAIN Moved(cells, f) = DOMAIN cells
         /\ \A i \in DOMAIN cells : Moved(cells, f)[i] = MovedCell(cells[i], f)
         /\ Ptrs(Moved(cells, f)) = Copies(Ptrs(cells), f)
<1> DEFINE m == Moved(cells, f)
<1>1. \A i \in DOMAIN cells : cells[i] \in Cells
  OBVIOUS
<1>2. DOMAIN m = DOMAIN cells
  BY DEF Moved
<1>3. ASSUME NEW i \in DOMAIN cells
      PROVE  /\ m[i] \in Cells /\ m[i].type = cells[i].type
             /\ m[i].ptr = IF cells[i].ptr = Nowhere THEN Nowhere ELSE f[cells[i].ptr]
  <2>1. CASE cells[i].ptr = Nowhere
    BY <1>1, <2>1 DEF Moved
  <2>2. CASE cells[i].ptr # Nowhere
    <3>1. cells[i].ptr \in S /\ f[cells[i].ptr] \in Blocks
      BY <2>2 DEF Ptrs
    <3>2. m[i] = [cells[i] EXCEPT !.ptr = f[@]]
      BY <2>2 DEF Moved
    <3> QED
      BY <1>1, <2>2, <3>1, <3>2 DEF Cells
  <2> QED
    BY <2>1, <2>2
<1>4. \A b \in S : f[b] # Nowhere
  BY VariantAssumption
<1>9. ASSUME NEW i \in DOMAIN cells PROVE m[i] = MovedCell(cells[i], f)
  <2>1. m[i] = [type |-> m[i].type, ptr |-> m[i].ptr]
    BY <1>3 DEF Cells
  <2> QED
    BY <1>3, <2>1 DEF MovedCell
<1>5. Len(cells) \in Nat /\ DOMAIN cells = 1 .. Len(cells)
  OBVIOUS
<1>6. m = [i \in 1 .. Len(cells) |-> m[i]]
  BY <1>5 DEF Moved
<1> HIDE DEF m
<1>7. m \in Seq(Cells) /\ Len(m) = Len(cells)
  BY <1>3, <1>5, <1>6
<1>8. Ptrs(m) = Copies(Ptrs(cells), f)
  <2>1. ASSUME NEW x \in Ptrs(m) PROVE \E b \in Ptrs(cells) : x = f[b]
    <3>1. PICK i \in DOMAIN cells : x = m[i].ptr /\ x # Nowhere
      BY <1>2, <2>1 DEF Ptrs
    <3>2. cells[i].ptr \in Ptrs(cells) /\ x = f[cells[i].ptr]
      BY <1>3, <3>1 DEF Ptrs
    <3> QED
      BY <3>2
  <2>2. ASSUME NEW b \in Ptrs(cells) PROVE f[b] \in Ptrs(m)
    <3>1. PICK i \in DOMAIN cells : b = cells[i].ptr /\ b # Nowhere
      BY <2>2 DEF Ptrs
    <3>2. m[i].ptr = f[b] /\ f[b] # Nowhere
      BY <1>3, <1>4, <3>1, <2>2
    <3> QED
      BY <1>2, <3>2 DEF Ptrs
  <2> QED
    BY <2>1, <2>2 DEF Copies
<1> QED
  BY <1>2, <1>7, <1>8, <1>9 DEF m

LEMMA CopiedIs ==
  ASSUME NEW h \in Heaps, NEW S \in SUBSET Spots, Closed(h, S), NEW f, Placed(h, S, f)
  PROVE  /\ Copied(h, f) \in Heaps
         /\ \A s \in S : /\ f[s] \in Blocks
                         /\ Copied(h, f)[f[s]].kind = h[s].kind
                         /\ Copied(h, f)[f[s]].cells = Moved(h[s].cells, f)
                         /\ Parts(Copied(h, f), f[s]) = Copies(Parts(h, s), f)
         /\ \A r \in Spots \ Copies(S, f) :
              Copied(h, f)[r] = h[r] /\ Parts(Copied(h, f), r) = Parts(h, r)
<1> DEFINE g == Copied(h, f)
<1>1. /\ f \in [S -> Blocks] /\ DOMAIN f = S
      /\ \A b, c \in S : f[b] = f[c] => b = c
  BY DEF Placed
<1>2. DOMAIN h = Spots
  BY DEF Heaps
<1>3. ASSUME NEW s \in S
      PROVE  /\ h[s] \in [kind : {"free", "stack"} \cup Objects, cells : Seq(Cells)]
             /\ Ptrs(h[s].cells) \subseteq S /\ Ptrs(h[s].cells) = Parts(h, s)
             /\ Moved(h[s].cells, f) \in Seq(Cells)
             /\ Ptrs(Moved(h[s].cells, f)) = Copies(Ptrs(h[s].cells), f)
  <2>1. h[s] \in [kind : {"free", "stack"} \cup Objects, cells : Seq(Cells)]
    BY DEF Heaps
  <2>2. Ptrs(h[s].cells) = Parts(h, s)
    BY PartsAreBlocks
  <2>3. Parts(h, s) \subseteq S
    BY DEF Closed
  <2>4. h[s].cells \in Seq(Cells) /\ Ptrs(h[s].cells) \subseteq S
    BY <2>1, <2>2, <2>3
  <2> DEFINE cells == h[s].cells
  <2>5. cells \in Seq(Cells) /\ Ptrs(cells) \subseteq S
    BY <2>4
  <2> HIDE DEF cells
  <2>6. Moved(cells, f) \in Seq(Cells) /\ Ptrs(Moved(cells, f)) = Copies(Ptrs(cells), f)
    BY <1>1, <2>5, MovedIs
  <2> QED
    BY <2>1, <2>2, <2>4, <2>6 DEF cells
<1>4. ASSUME NEW s \in S
      PROVE  /\ g[f[s]] = [kind |-> h[s].kind, cells |-> Moved(h[s].cells, f)]
             /\ g[f[s]].kind = h[s].kind
             /\ g[f[s]].cells = Moved(h[s].cells, f)
  <2>1. f[s] \in Spots
    BY <1>1 DEF Spots
  <2>2. (CHOOSE c \in S : f[c] = f[s]) = s
    BY <1>1
  <2>3. g[f[s]] = [h[s] EXCEPT !.cells = Moved(@, f)]
    BY <1>1, <1>2, <2>1, <2>2 DEF Copied
  <2>4. h[s] \in [kind : {"free", "stack"} \cup Objects, cells : Seq(Cells)]
    BY <1>3
  <2> HIDE DEF g
  <2> QED
    BY <2>3, <2>4
<1>5. \A r \in Spots \ Copies(S, f) : g[r] = h[r]
  BY <1>1, <1>2 DEF Copied, Copies
<1>6. DOMAIN g = Spots /\ g = [r \in Spots |-> g[r]]
  BY <1>2 DEF Copied
<1> HIDE DEF g
<1>7. ASSUME NEW r \in Spots
      PROVE  g[r] \in [kind : {"free", "stack"} \cup Objects, cells : Seq(Cells)]
  <2>1. CASE r \in Copies(S, f)
    <3>1. PICK s \in S : r = f[s]
      BY <2>1 DEF Copies
    <3>2. g[r] = [kind |-> h[s].kind, cells |-> Moved(h[s].cells, f)]
      BY <1>4, <3>1
    <3>3. h[s].kind \in {"free", "stack"} \cup Objects /\ Moved(h[s].cells, f) \in Seq(Cells)
      BY <1>3
    <3> QED
      BY <3>2, <3>3
  <2>2. CASE r \notin Copies(S, f)
    BY <1>5, <2>2 DEF Heaps
  <2> QED
    BY <2>1, <2>2
<1>8. g \in Heaps
  BY <1>6, <1>7 DEF Heaps
<1>9. ASSUME NEW s \in S PROVE Parts(g, f[s]) = Copies(Parts(h, s), f)
  <2>1. f[s] \in Spots /\ g[f[s]].cells = Moved(h[s].cells, f)
    BY <1>1, <1>4 DEF Spots
  <2>2. Parts(g, f[s]) = Ptrs(Moved(h[s].cells, f))
    BY <1>8, <2>1, PartsAreBlocks
  <2>3. Ptrs(Moved(h[s].cells, f)) = Copies(Ptrs(h[s].cells), f)
    BY <1>3
  <2> QED
    BY <1>3, <2>2, <2>3
<1>10. \A r \in Spots \ Copies(S, f) : Parts(g, r) = Parts(h, r)
  BY <1>5 DEF Parts
<1>11. \A s \in S : f[s] \in Blocks /\ g[f[s]].kind = h[s].kind
                                 /\ g[f[s]].cells = Moved(h[s].cells, f)
  BY <1>1, <1>4
<1> QED
  BY <1>5, <1>8, <1>9, <1>10, <1>11, Zenon DEF g

(* What is pointed to is not free.                                         *)
LEMMA PartsUsed ==
  ASSUME NEW h, NEW O, Forest(h, O), NEW q \in Spots
  PROVE  /\ \A b \in Parts(h, q) : b \in Blocks /\ h[b].kind \in Objects /\ h[b].kind # "free"
         /\ h[q].kind = "free" => Parts(h, q) = {}
<1>1. h \in Heaps
  BY DEF Forest
<1>2. ASSUME NEW b \in Parts(h, q) PROVE h[b].kind \in Objects
  <2>1. PICK i \in DOMAIN h[q].cells : h[q].cells[i].ptr = b /\ b # Nowhere
    BY <1>2 DEF Parts
  <2> QED
    BY <2>1 DEF Forest, Tidy, Fits
<1> QED
  BY <1>1, <1>2, PartsAreBlocks, VariantAssumption DEF Forest, Tidy

(* The copied cells are as good as the cells.                              *)
LEMMA MovedRoom ==
  ASSUME NEW h, NEW O, Forest(h, O), NEW S \in SUBSET Spots, NEW f \in [S -> Blocks],
         \A b, c \in S : f[b] = f[c] => b = c,
         NEW s \in Spots \ Variables, Parts(h, s) \subseteq S, NEW r \in Blocks,
         NEW kind \in {"stack"} \cup Objects, NEW g \in Heaps,
         \A c \in S : g[f[c]].kind = h[c].kind
  PROVE  /\ Tidy(r, [kind |-> kind, cells |-> Moved(h[s].cells, f)])
         /\ Fits(g, Moved(h[s].cells, f))
<1> DEFINE cells == h[s].cells
           m == Moved(cells, f)
<1>1. h \in Heaps
  BY DEF Forest
<1>2. /\ cells \in Seq(Cells) /\ Ptrs(cells) \subseteq S
      /\ Tidy(s, h[s]) /\ Fits(h, cells)
  BY <1>1, PartsAreBlocks DEF Forest, Heaps
<1>3. /\ \A i \in DOMAIN cells : cells[i].type \notin Objects => cells[i].ptr = Nowhere
      /\ \A i, j \in DOMAIN cells :
           cells[i].ptr = cells[j].ptr /\ cells[i].ptr # Nowhere => i = j
      /\ Len(cells) <= MaxElements
  BY <1>2 DEF Tidy
<1> HIDE DEF cells
<1>4. /\ \A i \in DOMAIN cells : m[i] = MovedCell(cells[i], f)
      /\ Len(m) = Len(cells) /\ DOMAIN m = DOMAIN cells
  BY ONLY S \in SUBSET Spots, f \in [S -> Blocks],
     \A b, c \in S : f[b] = f[c] => b = c, <1>2, MovedIs
<1>5. Len(m) = Len(cells) /\ DOMAIN m = DOMAIN cells
  BY <1>4
<1> HIDE DEF m
<1>6. ASSUME NEW i \in DOMAIN cells
      PROVE  /\ m[i].type = cells[i].type
             /\ m[i].ptr = IF cells[i].ptr = Nowhere THEN Nowhere ELSE f[cells[i].ptr]
  <2>1. m[i] = MovedCell(cells[i], f)
    BY <1>4
  <2> QED
    BY <2>1 DEF MovedCell
<1>7. \A i \in DOMAIN cells : cells[i].ptr # Nowhere => cells[i].ptr \in S
  BY <1>2 DEF Ptrs
<1>8. \A i, j \in DOMAIN m : m[i].ptr = m[j].ptr /\ m[i].ptr # Nowhere => i = j
  BY <1>3, <1>5, <1>6, <1>7, VariantAssumption
<1>9. Tidy(r, [kind |-> kind, cells |-> m])
  <2>1. r \notin Variables
    BY VariantAssumption
  <2> QED
    BY <1>3, <1>5, <1>6, <1>8, <2>1, VariantAssumption DEF Tidy
<1>10. Fits(g, m)
  BY <1>2, <1>5, <1>6, <1>7 DEF Fits
<1> QED
  BY <1>9, <1>10 DEF m, cells

LEMMA CopiedForest ==
  ASSUME NEW h, NEW O, Forest(h, O), NEW S \in SUBSET (Spots \ Variables), Closed(h, S),
         NEW f, Placed(h, S, f), \A s \in S : h[s].kind # "free"
  PROVE  Forest(Copied(h, f), O \cup Copies(Ones(h, S), f))
<1> DEFINE g == Copied(h, f)
           N == Copies(S, f)
<1>1. /\ g \in Heaps /\ h \in Heaps
      /\ \A s \in S : /\ f[s] \in Blocks
                      /\ g[f[s]].kind = h[s].kind
                      /\ g[f[s]].cells = Moved(h[s].cells, f)
                      /\ Parts(g, f[s]) = Copies(Parts(h, s), f)
      /\ \A r \in Spots \ N : g[r] = h[r] /\ Parts(g, r) = Parts(h, r)
  BY CopiedIs DEF Forest
<1>2. /\ f \in [S -> Blocks]
      /\ \A b, c \in S : f[b] = f[c] => b = c
      /\ \A s \in S : h[f[s]].kind = "free"
  BY DEF Placed
<1>3. \A s \in S : s \in Spots \ Variables /\ Parts(h, s) \subseteq S
  BY DEF Closed
<1> HIDE DEF g
<1>4. \A q \in Spots : \A b \in Parts(h, q) : b \in Blocks \ N /\ h[b].kind # "free"
  BY <1>2, PartsUsed DEF Copies
<1>5. \A s \in S : f[s] \in Spots /\ Parts(h, f[s]) = {} /\ Parts(g, f[s]) \subseteq N
  BY <1>1, <1>2, <1>3, PartsUsed DEF Spots, Copies
<1>6. \A r \in Spots : Parts(g, r) \subseteq Blocks
  BY <1>1, PartsAreBlocks
<1>7. ASSUME NEW s \in S PROVE Tidy(f[s], g[f[s]]) /\ Fits(g, g[f[s]].cells)
  <2> DEFINE m == Moved(h[s].cells, f)
  <2>1. S \in SUBSET Spots /\ s \in Spots \ Variables /\ Parts(h, s) \subseteq S
    BY <1>3
  <2>2. \A c \in S : g[f[c]].kind = h[c].kind
    BY <1>1
  <2>3. f[s] \in Spots /\ g[f[s]].kind = h[s].kind /\ g[f[s]].cells = m
    BY <1>1, <1>5
  <2>4. g[f[s]] = [kind |-> h[s].kind, cells |-> m]
    BY <1>1, <2>3 DEF Heaps
  <2>6. h[s].kind \in {"stack"} \cup Objects
    BY <1>1, <2>1 DEF Heaps
  <2>5. Tidy(f[s], [kind |-> h[s].kind, cells |-> m]) /\ Fits(g, m)
    BY ONLY Forest(h, O), <1>1, <1>2, <2>1, <2>2, <2>3, <2>6, MovedRoom
  <2> QED
    BY <2>3, <2>4, <2>5
<1>8. ASSUME NEW r \in Spots \ N PROVE Tidy(r, g[r]) /\ Fits(g, g[r].cells)
  <2>1. Tidy(r, g[r]) /\ Fits(h, g[r].cells) /\ Ptrs(g[r].cells) = Parts(h, r)
    BY <1>1, PartsAreBlocks DEF Forest
  <2>2. \A b \in Ptrs(g[r].cells) : g[b].kind = h[b].kind
    BY <1>1, <1>4, <2>1 DEF Spots
  <2> QED
    BY <2>1, <2>2 DEF Fits, Ptrs
<1>9. \A r \in Spots : Tidy(r, g[r]) /\ Fits(g, g[r].cells)
  BY <1>7, <1>8 DEF Copies
<1>10. Sole(g)
  <2> SUFFICES ASSUME NEW q \in Spots, NEW r \in Spots, q # r,
                      NEW b \in Parts(g, q), b \in Parts(g, r)
               PROVE  FALSE
    BY DEF Sole
  <2>1. CASE q \in N /\ r \in N
    <3>1. PICK s \in S, t \in S : q = f[s] /\ r = f[t]
      BY <2>1 DEF Copies
    <3>2. PICK c \in Parts(h, s), d \in Parts(h, t) : f[c] = b /\ f[d] = b
      BY <1>1, <3>1 DEF Copies
    <3>3. c = d /\ s # t
      BY <1>2, <1>3, <3>1, <3>2
    <3> QED
      BY <1>3, <3>2, <3>3 DEF Forest, Sole
  <2>2. CASE q \notin N /\ r \notin N
    BY <1>1, <2>2 DEF Forest, Sole
  <2>3. \A x \in N : Parts(g, x) \subseteq N
    BY <1>5 DEF Copies
  <2>4. \A x \in Spots \ N : Parts(g, x) \cap N = {}
    BY <1>1, <1>4
  <2> QED
    BY <2>1, <2>2, <2>3, <2>4
<1>11. KeptBut(g, O \cup Copies(Ones(h, S), f))
  <2>1. Ones(h, S) \subseteq S
    BY DEF Ones
  <2>2. O \cup Copies(Ones(h, S), f) \subseteq Blocks
    BY <1>1, <2>1 DEF Copies, Forest, KeptBut
  <2>3. ASSUME NEW b \in Blocks, g[b].kind # "free",
               b \notin O \cup Copies(Ones(h, S), f)
        PROVE  \E q \in Spots : b \in Parts(g, q)
    <3>1. CASE b \in N
      <4>1. PICK s \in S : b = f[s] /\ s \notin Ones(h, S)
        BY <2>3, <3>1 DEF Copies
      <4>2. PICK q \in S : s \in Parts(h, q)
        BY <4>1 DEF Ones
      <4>3. b \in Parts(g, f[q])
        BY <1>1, <4>1, <4>2 DEF Copies
      <4> QED
        BY <1>5, <4>3
    <3>2. CASE b \notin N
      <4>1. h[b].kind # "free" /\ b \notin O
        BY <1>1, <2>3, <3>2 DEF Spots
      <4>2. PICK q \in Spots : b \in Parts(h, q)
        BY <4>1 DEF Forest, KeptBut
      <4>3. q \notin N
        BY <1>5, <4>2 DEF Copies
      <4> QED
        BY <1>1, <4>2, <4>3
    <3> QED
      BY <3>1, <3>2
  <2>4. ASSUME NEW b \in O
        PROVE  g[b].kind # "free" /\ \A q \in Spots : b \notin Parts(g, q)
    <3>1. b \in Blocks /\ h[b].kind # "free" /\ \A q \in Spots : b \notin Parts(h, q)
      BY DEF Forest, KeptBut
    <3>2. b \notin N
      BY <1>2, <3>1 DEF Copies
    <3>3. g[b].kind # "free"
      BY <1>1, <3>1, <3>2 DEF Spots
    <3> QED
      BY <1>1, <1>5, <3>1, <3>2, <3>3 DEF Copies
  <2>5. ASSUME NEW s \in Ones(h, S)
        PROVE  g[f[s]].kind # "free" /\ \A q \in Spots : f[s] \notin Parts(g, q)
    <3>1. s \in S /\ f[s] \in N /\ \A q \in S : s \notin Parts(h, q)
      BY DEF Ones, Copies
    <3>2. ASSUME NEW q \in Spots, f[s] \in Parts(g, q) PROVE FALSE
      <4>1. q \in N
        BY <1>1, <1>4, <3>1, <3>2
      <4>2. PICK t \in S : q = f[t]
        BY <4>1 DEF Copies
      <4>3. PICK c \in Parts(h, t) : f[c] = f[s]
        BY <1>1, <3>2, <4>2 DEF Copies
      <4> QED
        BY <1>2, <1>3, <3>1, <4>3
    <3> QED
      BY <1>1, <3>1, <3>2
  <2> QED
    BY <2>2, <2>3, <2>4, <2>5 DEF KeptBut, Copies
<1>12. Rooted(g)
  <2> SUFFICES ASSUME NEW T \in SUBSET Blocks, T # {}
               PROVE  \E b \in T : \A q \in T : b \notin Parts(g, q)
    BY DEF Rooted
  <2>1. \A q \in T : q \in Spots
    BY DEF Spots
  <2>2. CASE ~(T \subseteq N)
    <3>1. T \ N \in SUBSET Blocks /\ T \ N # {}
      BY <2>2
    <3>2. PICK b \in T \ N : \A q \in T \ N : b \notin Parts(h, q)
      BY <3>1 DEF Forest, Rooted
    <3>3. \A q \in T : b \notin Parts(g, q)
      BY <1>1, <1>5, <2>1, <3>2 DEF Copies
    <3> QED
      BY <3>2, <3>3
  <2>3. CASE T \subseteq N
    <3> DEFINE Z == {s \in S : f[s] \in T}
    <3>1. Z # {}
      BY <2>3 DEF Copies
    <3>2. PICK s \in Z : \A q \in Z : s \notin Parts(h, q)
      <4>1. CASE Z \subseteq Blocks
        BY <3>1, <4>1 DEF Forest, Rooted
      <4>2. CASE ~(Z \subseteq Blocks)
        BY <1>3, <1>4, <4>2
      <4> QED
        BY <4>1, <4>2
    <3>3. ASSUME NEW q \in T, f[s] \in Parts(g, q) PROVE FALSE
      <4>1. PICK t \in S : q = f[t]
        BY <2>3 DEF Copies
      <4>2. PICK c \in Parts(h, t) : f[c] = f[s]
        BY <1>1, <3>3, <4>1 DEF Copies
      <4>3. c = s /\ t \in Z
        BY <1>2, <1>3, <4>1, <4>2
      <4> QED
        BY <3>2, <4>2, <4>3
    <3> QED
      BY <3>2, <3>3
  <2> QED
    BY <2>2, <2>3
<1>13. Grounded(g)
  <2> SUFFICES ASSUME NEW T \in SUBSET Blocks, T # {}
               PROVE  \E b \in T : Parts(g, b) \cap T = {}
    BY DEF Grounded
  <2>1. CASE T \cap N = {}
    <3>1. PICK b \in T : Parts(h, b) \cap T = {}
      BY DEF Forest, Grounded
    <3>2. Parts(g, b) = Parts(h, b)
      BY <1>1, <2>1 DEF Spots
    <3> QED
      BY <3>1, <3>2
  <2>2. CASE T \cap N # {}
    <3> DEFINE Z == {s \in S : f[s] \in T}
    <3>1. Z \in SUBSET Spots /\ Z # {}
      BY <1>3, <2>2 DEF Copies
    <3>2. PICK s \in Z : Parts(h, s) \cap Z = {}
      <4> HIDE DEF Z
      <4> QED
        BY <1>1, <3>1, GroundedAnywhere DEF Forest
    <3>3. ASSUME NEW p \in Parts(g, f[s]), p \in T PROVE FALSE
      <4>1. PICK c \in Parts(h, s) : f[c] = p
        BY <1>1, <3>3 DEF Copies
      <4> QED
        BY <1>3, <3>2, <3>3, <4>1
    <3> QED
      BY <3>2, <3>3
  <2> QED
    BY <2>1, <2>2
<1> QED
  BY <1>1, <1>9, <1>10, <1>11, <1>12, <1>13 DEF Forest, g

-----------------------------------------------------------------------------
(* One Variant is replaced.                                                *)
LEMMA PlaceIs ==
  ASSUME NEW h \in Heaps
  PROVE  /\ \A at \in Places(h) :
              /\ at[1] \in Spots /\ at[2] \in DOMAIN h[at[1]].cells
              /\ at = <<at[1], at[2]>>
              /\ Cell(h, at) \in Cells
              /\ Cell(h, at).ptr # Nowhere => Cell(h, at).ptr \in Parts(h, at[1])
         /\ \A q \in Spots : \A i \in DOMAIN h[q].cells : <<q, i>> \in Places(h)
         /\ \A q \in Spots : \A b \in Parts(h, q) :
              \E at \in Places(h) : at[1] = q /\ Cell(h, at).ptr = b
<1>1. DOMAIN h = Spots
  BY DEF Heaps
<1>2. ASSUME NEW at \in Places(h)
      PROVE  /\ at[1] \in Spots /\ at[2] \in DOMAIN h[at[1]].cells
             /\ at = <<at[1], at[2]>>
             /\ Cell(h, at) \in Cells
             /\ Cell(h, at).ptr # Nowhere => Cell(h, at).ptr \in Parts(h, at[1])
  <2>1. PICK q \in Spots : at \in {q} \X DOMAIN h[q].cells
    BY <1>1 DEF Places
  <2>2. at[1] = q /\ at[2] \in DOMAIN h[q].cells /\ at = <<at[1], at[2]>>
    BY <2>1
  <2>3. h[q].cells \in Seq(Cells)
    BY DEF Heaps
  <2> QED
    BY <2>2, <2>3 DEF Cell, Parts
<1>3. ASSUME NEW q \in Spots, NEW i \in DOMAIN h[q].cells PROVE <<q, i>> \in Places(h)
  BY <1>1 DEF Places
<1>4. ASSUME NEW q \in Spots, NEW b \in Parts(h, q)
      PROVE  \E at \in Places(h) : at[1] = q /\ Cell(h, at).ptr = b
  <2>1. PICK i \in DOMAIN h[q].cells : h[q].cells[i].ptr = b
    BY DEF Parts
  <2>2. <<q, i>> \in Places(h) /\ Cell(h, <<q, i>>).ptr = b
    BY <1>3, <2>1 DEF Cell
  <2> QED
    BY <2>2
<1> QED
  BY <1>2, <1>3, <1>4

Rewritten(h, at, cell) == [h[at[1]].cells EXCEPT ![at[2]] = cell]

LEMMA WithIs ==
  ASSUME NEW h \in Heaps, NEW at \in Places(h), NEW cell \in Cells
  PROVE  /\ With(h, at, cell) = Put(h, at[1], Rewritten(h, at, cell))
         /\ With(h, at, cell) \in Heaps
         /\ Places(With(h, at, cell)) = Places(h)
         /\ Cell(With(h, at, cell), at) = cell
         /\ \A p \in Places(h) \ {at} : Cell(With(h, at, cell), p) = Cell(h, p)
         /\ \A r \in Spots : With(h, at, cell)[r].kind = h[r].kind
         /\ \A r \in Spots \ {at[1]} : With(h, at, cell)[r] = h[r]
         /\ With(h, at, cell)[at[1]].cells = Rewritten(h, at, cell)
<1> DEFINE q == at[1]
           cs == Rewritten(h, at, cell)
           g == With(h, at, cell)
<1>1. q \in Spots /\ at[2] \in DOMAIN h[q].cells /\ at = <<q, at[2]>>
  BY PlaceIs
<1>2. h[q].cells \in Seq(Cells)
  BY <1>1 DEF Heaps
<1>3. /\ cs \in Seq(Cells) /\ DOMAIN cs = DOMAIN h[q].cells
      /\ cs[at[2]] = cell
      /\ \A i \in DOMAIN cs \ {at[2]} : cs[i] = h[q].cells[i]
  BY <1>1, <1>2 DEF Rewritten
<1>4. g = Put(h, q, cs)
  BY DEF With, Put, Rewritten
<1> HIDE DEF q, cs, g
<1>5. /\ g \in Heaps /\ g[q].cells = cs
      /\ \A r \in Spots : g[r].kind = h[r].kind
      /\ \A r \in Spots \ {q} : g[r] = h[r]
  <2>1. /\ Put(h, q, cs) \in Heaps
        /\ Put(h, q, cs)[q] = [kind |-> h[q].kind, cells |-> cs]
        /\ \A r \in Spots : Put(h, q, cs)[r].kind = h[r].kind
        /\ \A r \in Spots \ {q} : Put(h, q, cs)[r] = h[r]
    BY <1>1, <1>3, PutIs
  <2> QED
    BY <1>4, <2>1
<1>6. \A r \in Spots : DOMAIN g[r].cells = DOMAIN h[r].cells
  BY <1>3, <1>5
<1>7. DOMAIN g = Spots /\ DOMAIN h = Spots
  BY <1>5 DEF Heaps
<1>8. Places(g) = Places(h)
  <2>1. {{b} \X DOMAIN g[b].cells : b \in DOMAIN g}
          = {{b} \X DOMAIN h[b].cells : b \in DOMAIN h}
    BY <1>6, <1>7
  <2> QED
    BY <2>1 DEF Places
<1>9. Cell(g, at) = cell
  BY <1>3, <1>5 DEF Cell, q
<1>10. ASSUME NEW p \in Places(h) \ {at} PROVE Cell(g, p) = Cell(h, p)
  <2>1. p[1] \in Spots /\ p[2] \in DOMAIN h[p[1]].cells /\ p = <<p[1], p[2]>>
    BY PlaceIs
  <2>2. CASE p[1] = q
    <3>1. p[2] # at[2]
      BY <1>1, <2>1, <2>2
    <3> QED
      BY <1>3, <1>5, <2>1, <2>2, <3>1 DEF Cell
  <2>3. CASE p[1] # q
    BY <1>5, <2>1, <2>3 DEF Cell
  <2> QED
    BY <2>2, <2>3
<1> QED
  BY <1>4, <1>5, <1>8, <1>9, <1>10 DEF g, q, cs

LEMMA WithForest ==
  ASSUME NEW h, NEW O, Forest(h, O), NEW at \in Places(h), NEW cell \in Cells,
         cell.type \notin Objects => cell.ptr = Nowhere,
         NEW D \in SUBSET Blocks, Closed(h, D), at[1] \notin D,
         cell.ptr # Nowhere => cell.ptr \in O \cap D /\ h[cell.ptr].kind = cell.type
  PROVE  Forest(With(h, at, cell), (O \cup ({Cell(h, at).ptr} \ {Nowhere})) \ {cell.ptr})
<1> DEFINE q == at[1]
           cells == h[q].cells
           old == Cell(h, at).ptr
           cs == Rewritten(h, at, cell)
<1>1. h \in Heaps
  BY DEF Forest
<1>2. q \in Spots /\ at[2] \in DOMAIN cells
  BY <1>1, PlaceIs
<1>3. cells \in Seq(Cells) /\ Tidy(q, h[q]) /\ Fits(h, cells) /\ Ptrs(cells) = Parts(h, q)
  BY <1>1, <1>2, PartsAreBlocks DEF Forest, Heaps
<1>4. /\ cs \in Seq(Cells) /\ DOMAIN cs = DOMAIN cells /\ Len(cs) = Len(cells)
      /\ cs[at[2]] = cell
      /\ \A i \in DOMAIN cs \ {at[2]} : cs[i] = cells[i]
  BY <1>2, <1>3 DEF Rewritten
<1>5. old = cells[at[2]].ptr
  BY DEF Cell
<1>6. /\ \A i \in DOMAIN cells : cells[i].type \notin Objects => cells[i].ptr = Nowhere
      /\ \A i, j \in DOMAIN cells :
           cells[i].ptr = cells[j].ptr /\ cells[i].ptr # Nowhere => i = j
      /\ Len(cells) <= MaxElements \/ q \in Variables
      /\ q \in Variables => Len(cells) = 1
  BY <1>3 DEF Tidy
<1>7. h[q].kind # "free"
  <2>1. h[q].kind = "free" => cells = <<>>
    BY <1>3 DEF Tidy
  <2> QED
    BY <1>2, <2>1
<1>8. \A i \in DOMAIN cells : cells[i].ptr # Nowhere => cells[i].ptr \in Parts(h, q)
  BY <1>3 DEF Ptrs
<1>9. \A b \in O : b \notin Parts(h, q) /\ b # Nowhere
  BY <1>2, VariantAssumption DEF Forest, KeptBut
<1>10. With(h, at, cell) = Put(h, q, cs)
  BY <1>1, WithIs
<1> HIDE DEF cs, cells, old, q
<1>11. \A i, j \in DOMAIN cs : cs[i].ptr = cs[j].ptr /\ cs[i].ptr # Nowhere => i = j
  <2> SUFFICES ASSUME NEW i \in DOMAIN cs, NEW j \in DOMAIN cs,
                      cs[i].ptr = cs[j].ptr, cs[i].ptr # Nowhere
               PROVE  i = j
    OBVIOUS
  <2>1. CASE i = at[2]
    BY <1>4, <1>8, <1>9, <2>1
  <2>2. CASE j = at[2]
    BY <1>4, <1>8, <1>9, <2>2
  <2>3. CASE i # at[2] /\ j # at[2]
    BY <1>4, <1>6, <2>3
  <2> QED
    BY <2>1, <2>2, <2>3
<1>12. \A i \in DOMAIN cs : cs[i].type \notin Objects => cs[i].ptr = Nowhere
  BY <1>4, <1>6
<1>13. Tidy(q, [kind |-> h[q].kind, cells |-> cs])
  BY <1>4, <1>6, <1>7, <1>11, <1>12 DEF Tidy
<1>14. Fits(h, cs)
  BY <1>3, <1>4 DEF Fits
<1>15. Ptrs(cs) = (Parts(h, q) \ {old}) \cup ({cell.ptr} \ {Nowhere})
  <2>1. ASSUME NEW b \in Ptrs(cs) PROVE b \in (Parts(h, q) \ {old}) \cup ({cell.ptr} \ {Nowhere})
    <3>1. PICK i \in DOMAIN cs : cs[i].ptr = b /\ b # Nowhere
      BY <2>1 DEF Ptrs
    <3>2. CASE i = at[2]
      BY <1>4, <3>1, <3>2
    <3>3. CASE i # at[2]
      BY <1>2, <1>4, <1>5, <1>6, <1>8, <3>1, <3>3
    <3> QED
      BY <3>2, <3>3
  <2>2. ASSUME NEW b \in Parts(h, q), b # old PROVE b \in Ptrs(cs)
    <3>1. PICK i \in DOMAIN cells : cells[i].ptr = b /\ b # Nowhere
      BY <1>3, <2>2 DEF Ptrs
    <3>2. cs[i].ptr = b
      BY <1>4, <1>5, <2>2, <3>1
    <3> QED
      BY <1>4, <3>1, <3>2 DEF Ptrs
  <2>3. cell.ptr # Nowhere => cell.ptr \in Ptrs(cs)
    BY <1>2, <1>4 DEF Ptrs
  <2> QED
    BY <2>1, <2>2, <2>3
<1>16. Ptrs(cs) \subseteq Parts(h, q) \cup (O \cap D)
  BY <1>15
<1>17. q \notin D
  BY DEF q
<1>18. Forest(Put(h, q, cs), (O \cup Parts(h, q)) \ Ptrs(cs))
  BY <1>2, <1>4, <1>13, <1>14, <1>16, <1>17, PutForest
<1>19. old # Nowhere => old \in Parts(h, q)
  BY <1>2, <1>5, <1>8
<1>20. (O \cup Parts(h, q)) \ Ptrs(cs) = (O \cup ({old} \ {Nowhere})) \ {cell.ptr}
  <2>1. Nowhere \notin Parts(h, q)
    BY DEF Parts
  <2> QED
    BY <1>9, <1>15, <1>19, <2>1
<1> QED
  BY <1>10, <1>18, <1>20 DEF old

(* The same, when the Variant gets nothing, and when it had nothing.       *)
LEMMA EmptiedForest ==
  ASSUME NEW h, NEW O, Forest(h, O), NEW at \in Places(h), NEW cell \in Cells,
         cell.ptr = Nowhere
  PROVE  Forest(With(h, at, cell), O \cup ({Cell(h, at).ptr} \ {Nowhere}))
<1>1. {} \in SUBSET Blocks /\ Closed(h, {}) /\ at[1] \notin {}
  BY DEF Closed
<1>2. Forest(With(h, at, cell), (O \cup ({Cell(h, at).ptr} \ {Nowhere})) \ {cell.ptr})
  BY <1>1, WithForest
<1>3. Nowhere \notin O
  BY VariantAssumption DEF Forest, KeptBut
<1>4. (O \cup ({Cell(h, at).ptr} \ {Nowhere})) \ {cell.ptr}
        = O \cup ({Cell(h, at).ptr} \ {Nowhere})
  BY <1>3
<1> QED
  BY <1>2, <1>4

-----------------------------------------------------------------------------
(* clear(): what a Variant owns is pointed to from nowhere else, and the   *)
(* Variant is not in it.                                                   *)
LEMMA SolePlace ==
  ASSUME NEW h, NEW O, Forest(h, O), NEW x \in Places(h), NEW y \in Places(h),
         Cell(h, x).ptr = Cell(h, y).ptr, Cell(h, x).ptr # Nowhere
  PROVE  x = y
<1>1. /\ x[1] \in Spots /\ x[2] \in DOMAIN h[x[1]].cells /\ x = <<x[1], x[2]>>
      /\ y[1] \in Spots /\ y[2] \in DOMAIN h[y[1]].cells /\ y = <<y[1], y[2]>>
      /\ Cell(h, x).ptr \in Parts(h, x[1]) /\ Cell(h, y).ptr \in Parts(h, y[1])
  BY PlaceIs DEF Forest
<1>2. x[1] = y[1]
  BY <1>1 DEF Forest, Sole
<1>3. x[2] = y[2]
  BY <1>1, <1>2 DEF Forest, Tidy, Cell
<1> QED
  BY <1>1, <1>2, <1>3

LEMMA OwnedApart ==
  ASSUME NEW h, NEW O, Forest(h, O), NEW at \in Places(h)
  PROVE  /\ OwnedBy(h, Cell(h, at)) \in SUBSET Blocks
         /\ Closed(h, OwnedBy(h, Cell(h, at)))
         /\ at[1] \notin OwnedBy(h, Cell(h, at))
         /\ Cell(h, at).ptr # Nowhere => Cell(h, at).ptr \in OwnedBy(h, Cell(h, at))
         /\ \A x \in Places(h) \ {at} :
              Cell(h, x).ptr \in OwnedBy(h, Cell(h, at)) =>
                x[1] \in OwnedBy(h, Cell(h, at))
<1> DEFINE p == Cell(h, at).ptr
           D == OwnedBy(h, Cell(h, at))
<1>1. h \in Heaps /\ at[1] \in Spots /\ (p # Nowhere => p \in Parts(h, at[1]))
  BY PlaceIs DEF Forest
<1>2. CASE p = Nowhere
  <2>1. D = {}
    BY <1>2 DEF OwnedBy, Owned
  <2> QED
    BY <1>2, <2>1 DEF Closed
<1>3. CASE p # Nowhere
  <2>1. p \in Blocks /\ p \in Spots /\ D = Owned(h, p)
    BY <1>1, <1>3, PartsAreBlocks DEF OwnedBy, Spots
  <2> HIDE DEF D, p
  <2>2. p \in D /\ D \in SUBSET Blocks /\ Closed(h, D)
    BY <1>1, <2>1, OwnedClosed
  <2>3. \A c \in D \ {p} : \E q \in D : c \in Parts(h, q)
    BY <1>1, <2>1, OwnedFromInside
  <2>4. at[1] \notin D
    <3>1. PICK c \in D : \A q \in D : c \notin Parts(h, q)
      BY <2>2 DEF Forest, Rooted
    <3> QED
      BY <1>1, <1>3, <2>3, <3>1
  <2>5. ASSUME NEW x \in Places(h) \ {at}, Cell(h, x).ptr \in D PROVE x[1] \in D
    <3>1. Cell(h, x).ptr # Nowhere /\ x[1] \in Spots
      BY <1>1, <2>2, <2>5, PlaceIs, VariantAssumption
    <3>2. Cell(h, x).ptr # p
      BY <3>1, SolePlace DEF p
    <3>3. PICK q \in D : Cell(h, x).ptr \in Parts(h, q)
      BY <2>3, <2>5, <3>2
    <3>4. q \in Spots /\ Cell(h, x).ptr \in Parts(h, x[1])
      BY <1>1, <2>2, <3>1, PlaceIs DEF Spots
    <3> QED
      BY <3>1, <3>3, <3>4 DEF Forest, Sole
  <2> QED
    BY <2>2, <2>4, <2>5 DEF D, p
<1> QED
  BY <1>2, <1>3

LEMMA ClearedForest ==
  ASSUME NEW h, Forest(h, {}), NEW at \in Places(h)
  PROVE  /\ Forest(Cleared(h, at), {})
         /\ at \in Places(Cleared(h, at))
         /\ Cell(Cleared(h, at), at) = Nothing
         /\ \A x \in Places(Cleared(h, at)) \ {at} :
              x \in Places(h) /\ Cell(Cleared(h, at), x) = Cell(h, x)
         /\ \A r \in Spots \ OwnedBy(h, Cell(h, at)) : Cleared(h, at)[r].kind = h[r].kind
         /\ \A r \in Spots : Parts(Cleared(h, at), r) \subseteq Parts(h, r)
         /\ \A r \in OwnedBy(h, Cell(h, at)) : Cleared(h, at)[r] = Free
         /\ \A x \in Places(h) \ {at} :
              x[1] \notin OwnedBy(h, Cell(h, at)) =>
                x \in Places(Cleared(h, at)) /\ Cell(Cleared(h, at), x) = Cell(h, x)
<1> DEFINE D == OwnedBy(h, Cell(h, at))
           e == With(h, at, Nothing)
           g == Cleared(h, at)
           N == {Cell(h, at).ptr} \ {Nowhere}
<1>1. h \in Heaps /\ Nothing \in Cells /\ Nothing.ptr = Nowhere
  BY DEF Forest, Cells, Nothing
<1>2. /\ D \in SUBSET Blocks /\ Closed(h, D) /\ at[1] \notin D /\ N \subseteq D
      /\ \A x \in Places(h) \ {at} : Cell(h, x).ptr \in D => x[1] \in D
  BY OwnedApart
<1>3. at[1] \in Spots /\ at[2] \in DOMAIN h[at[1]].cells
  BY <1>1, PlaceIs
<1>4. Forest(e, N)
  <2>1. Forest(e, {} \cup N)
    BY <1>1, EmptiedForest
  <2>2. {} \cup N = N
    OBVIOUS
  <2> QED
    BY <2>1, <2>2
<1>5. g = Freed(e, D)
  <2>1. DOMAIN h = Spots
    BY <1>1 DEF Heaps
  <2>2. at[1] \in DOMAIN h /\ at[1] \notin D
    BY <1>2, <1>3, <2>1
  <2> HIDE DEF D
  <2>3. g = With(Freed(h, D), at, Nothing)
    BY DEF Cleared, D
  <2>4. With(Freed(h, D), at, Nothing) = Freed(e, D)
    BY <2>1, <2>2 DEF With, Freed
  <2> QED
    BY <2>3, <2>4
<1>6. /\ e \in Heaps
      /\ Places(e) = Places(h)
      /\ Cell(e, at) = Nothing
      /\ \A x \in Places(h) \ {at} : Cell(e, x) = Cell(h, x)
      /\ \A r \in Spots : e[r].kind = h[r].kind
      /\ \A r \in Spots \ {at[1]} : e[r] = h[r]
  BY <1>1, WithIs
<1> HIDE DEF D, e, g
<1>7. \A q \in Spots : Parts(e, q) \subseteq Parts(h, q)
  <2> SUFFICES ASSUME NEW q \in Spots, NEW b \in Parts(e, q) PROVE b \in Parts(h, q)
    OBVIOUS
  <2>1. PICK x \in Places(e) : x[1] = q /\ Cell(e, x).ptr = b
    BY <1>6, PlaceIs
  <2>2. b # Nowhere /\ x \in Places(h) \ {at}
    BY <1>1, <1>6, <2>1 DEF Parts
  <2> QED
    BY <1>1, <1>6, <2>1, <2>2, PlaceIs
<1>8. \A q \in Spots \ D : Parts(e, q) \cap D = {}
  <2> SUFFICES ASSUME NEW q \in Spots \ D, NEW b \in Parts(e, q), b \in D PROVE FALSE
    OBVIOUS
  <2>1. PICK x \in Places(e) : x[1] = q /\ Cell(e, x).ptr = b
    BY <1>6, PlaceIs
  <2>2. b # Nowhere /\ x \in Places(h) \ {at}
    BY <1>1, <1>6, <2>1 DEF Parts
  <2> QED
    BY <1>2, <1>6, <2>1, <2>2
<1>9. Closed(e, D)
  BY <1>2, <1>7 DEF Closed, Spots
<1>10. Forest(g, {})
  <2>1. Forest(Freed(e, D), N \ D)
    BY <1>2, <1>4, <1>8, <1>9, FreedForest
  <2>2. N \ D = {}
    BY <1>2
  <2> QED
    BY <1>5, <2>1, <2>2
<1>11. /\ g \in Heaps
       /\ \A r \in Spots \ D : g[r] = e[r] /\ Parts(g, r) = Parts(e, r)
       /\ \A r \in D : g[r] = Free /\ Parts(g, r) = {}
  BY <1>2, <1>5, <1>6, FreedIs
<1>12. at \in Places(g) /\ Cell(g, at) = Nothing
  <2>1. g[at[1]] = e[at[1]]
    BY <1>2, <1>3, <1>11
  <2>2. at[2] \in DOMAIN e[at[1]].cells /\ at = <<at[1], at[2]>>
    BY <1>6, PlaceIs
  <2> QED
    BY <1>3, <1>6, <1>11, <2>1, <2>2, PlaceIs DEF Cell
<1>13. ASSUME NEW x \in Places(g) \ {at}
       PROVE  x \in Places(h) /\ Cell(g, x) = Cell(h, x)
  <2>1. x[1] \in Spots /\ x[2] \in DOMAIN g[x[1]].cells /\ x = <<x[1], x[2]>>
    BY <1>11, PlaceIs
  <2>2. x[1] \notin D
    BY <1>11, <2>1 DEF Free
  <2>3. g[x[1]] = e[x[1]]
    BY <1>11, <2>1, <2>2
  <2>4. x \in Places(e) /\ Cell(g, x) = Cell(e, x)
    BY <1>6, <2>1, <2>3, PlaceIs DEF Cell
  <2> QED
    BY <1>6, <2>4
<1>14. \A r \in Spots \ D : g[r].kind = h[r].kind
  BY <1>6, <1>11
<1>16. ASSUME NEW x \in Places(h) \ {at}, x[1] \notin D
       PROVE  x \in Places(g) /\ Cell(g, x) = Cell(h, x)
  <2>1. x[1] \in Spots /\ x[2] \in DOMAIN e[x[1]].cells /\ x = <<x[1], x[2]>>
    BY <1>6, PlaceIs
  <2>2. g[x[1]] = e[x[1]]
    BY <1>11, <1>16, <2>1
  <2> QED
    BY <1>6, <1>11, <2>1, <2>2, PlaceIs DEF Cell
<1>15. \A r \in Spots : Parts(g, r) \subseteq Parts(h, r)
  BY <1>7, <1>11
<1> QED
  BY <1>10, <1>11, <1>12, <1>13, <1>14, <1>15, <1>16 DEF D, g

-----------------------------------------------------------------------------
(* initFrom(): the copy of a payload has one orphan, the payload, and no   *)
(* Variant without payload that there was not before.                      *)
LEMMA OwnedCanBeCopied ==
  ASSUME NEW h, NEW O, Forest(h, O), NEW b \in Spots \ Variables, h[b].kind \in Objects
  PROVE  /\ Owned(h, b) \in SUBSET (Spots \ Variables)
         /\ Closed(h, Owned(h, b))
         /\ \A s \in Owned(h, b) : h[s].kind # "free"
         /\ Ones(h, Owned(h, b)) = {b}
<1> DEFINE S == Owned(h, b)
<1>1. h \in Heaps
  BY DEF Forest
<1>2. b \in S /\ S \subseteq Blocks \cup {b} /\ Closed(h, S)
  BY <1>1, OwnedClosed
<1>3. \A c \in S \ {b} : \E q \in S : c \in Parts(h, q)
  BY <1>1, OwnedFromInside
<1> HIDE DEF S
<1>4. S \in SUBSET (Spots \ Variables)
  BY <1>2, VariantAssumption DEF Spots
<1>5. \A s \in S : h[s].kind # "free"
  <2>1. h[b].kind # "free"
    BY VariantAssumption
  <2>2. \A s \in S \ {b} : h[s].kind # "free"
    BY <1>3, <1>4, PartsUsed
  <2> QED
    BY <2>1, <2>2
<1>6. ASSUME NEW q \in S, b \in Parts(h, q) PROVE FALSE
  <2>1. b \in Blocks
    BY <1>4, <1>6, PartsUsed
  <2>2. S \in SUBSET Blocks /\ S # {}
    BY <1>2, <2>1
  <2>3. PICK c \in S : \A r \in S : c \notin Parts(h, r)
    BY <2>2 DEF Forest, Rooted
  <2> QED
    BY <1>3, <1>6, <2>3
<1>7. Ones(h, S) = {b}
  BY <1>2, <1>3, <1>6 DEF Ones
<1> QED
  BY <1>2, <1>4, <1>5, <1>7 DEF S

LEMMA CopiedCells ==
  ASSUME NEW h \in Heaps, NEW S \in SUBSET Spots, Closed(h, S), NEW f, Placed(h, S, f),
         \A s \in S : \A i \in DOMAIN h[s].cells : ~Broken(h[s].cells[i]),
         NEW x \in Places(Copied(h, f)), Broken(Cell(Copied(h, f), x))
  PROVE  x \in Places(h) /\ Cell(h, x) = Cell(Copied(h, f), x)
<1> DEFINE g == Copied(h, f)
<1>1. /\ g \in Heaps
      /\ \A s \in S : g[f[s]].cells = Moved(h[s].cells, f)
      /\ \A r \in Spots \ Copies(S, f) : g[r] = h[r]
  BY CopiedIs
<1> HIDE DEF g
<1>2. x[1] \in Spots /\ x[2] \in DOMAIN g[x[1]].cells /\ x = <<x[1], x[2]>>
  BY <1>1, PlaceIs DEF g
<1>3. Broken(g[x[1]].cells[x[2]])
  BY DEF g, Cell
<1>4. f \in [S -> Blocks] /\ \A b, c \in S : f[b] = f[c] => b = c
  BY DEF Placed
<1>5. CASE x[1] \in Copies(S, f)
  <2>1. PICK s \in S : x[1] = f[s]
    BY <1>5 DEF Copies
  <2> DEFINE cells == h[s].cells
             i == x[2]
  <2>2. cells \in Seq(Cells) /\ Ptrs(cells) \subseteq S
    BY PartsAreBlocks DEF Heaps, Closed
  <2>3. i \in DOMAIN Moved(cells, f) /\ Broken(Moved(cells, f)[i])
    BY <1>1, <1>2, <1>3, <2>1
  <2> HIDE DEF cells, i
  <2>4. DOMAIN Moved(cells, f) = DOMAIN cells
    BY <1>4, <2>2, MovedIs
  <2>5. \A j \in DOMAIN cells : Moved(cells, f)[j] = MovedCell(cells[j], f)
    BY <1>4, <2>2, MovedIs
  <2>6. i \in DOMAIN cells /\ Broken(MovedCell(cells[i], f))
    BY <2>3, <2>4, <2>5
  <2>7. cells[i].ptr # Nowhere => cells[i].ptr \in S
    BY <2>2, <2>6 DEF Ptrs
  <2>8. Broken(cells[i])
    BY <1>4, <2>6, <2>7, VariantAssumption DEF Broken, MovedCell
  <2> QED
    BY <2>6, <2>8 DEF cells
<1>6. CASE x[1] \notin Copies(S, f)
  <2>1. g[x[1]] = h[x[1]]
    BY <1>1, <1>2, <1>6
  <2> QED
    BY <1>2, <2>1, PlaceIs DEF Cell, g
<1> QED
  BY <1>5, <1>6

LEMMA FilledForest ==
  ASSUME NEW h, Forest(h, {}), NEW type \in Objects, NEW at \in Places(h),
         Cell(h, at) = [type |-> type, ptr |-> Nowhere],
         NEW b \in Spots \ Variables, Readable(h, b, type),
         NEW f \in Placements(h, Owned(h, b))
  PROVE  LET g == With(Copied(h, f), at, [type |-> type, ptr |-> f[b]])
         IN  /\ Forest(g, {})
             /\ \A x \in Places(g) : Broken(Cell(g, x)) =>
                  x \in Places(h) \ {at} /\ Broken(Cell(h, x))
<1> DEFINE S == Owned(h, b)
           N == Copies(S, f)
           e == Copied(h, f)
           cell == [type |-> type, ptr |-> f[b]]
           g == With(e, at, cell)
<1>1. h \in Heaps
  BY DEF Forest
<1>2. /\ S \in SUBSET (Spots \ Variables) /\ Closed(h, S)
      /\ \A s \in S : h[s].kind # "free"
      /\ Ones(h, S) = {b} /\ b \in S
  BY <1>1, OwnedCanBeCopied, OwnedClosed DEF Readable
<1>3. Placed(h, S, f)
  BY DEF Placements, Placed
<1>4. Forest(e, {f[b]})
  <2>1. Forest(e, {} \cup Copies(Ones(h, S), f))
    BY <1>2, <1>3, CopiedForest
  <2>2. {} \cup Copies(Ones(h, S), f) = {f[b]}
    BY <1>2 DEF Copies
  <2> QED
    BY <2>1, <2>2
<1>5. /\ at[1] \in Spots /\ at[2] \in DOMAIN h[at[1]].cells /\ at = <<at[1], at[2]>>
  BY <1>1, PlaceIs
<1>6. \A s \in S : \A i \in DOMAIN h[s].cells : ~Broken(h[s].cells[i])
  BY DEF Readable
<1>7. at[1] \notin N
  <2>1. h[at[1]].kind # "free"
    BY <1>5 DEF Forest, Tidy
  <2> QED
    BY <1>3, <2>1 DEF Placed, Copies
<1>8. /\ e \in Heaps
      /\ \A s \in S : /\ f[s] \in Blocks
                      /\ e[f[s]].kind = h[s].kind
                      /\ Parts(e, f[s]) = Copies(Parts(h, s), f)
      /\ \A r \in Spots \ N : e[r] = h[r]
  BY <1>1, <1>2, <1>3, CopiedIs
<1>9. at \in Places(e) /\ Cell(e, at).ptr = Nowhere
  <2>1. e[at[1]] = h[at[1]]
    BY <1>5, <1>7, <1>8
  <2> QED
    BY <1>5, <1>8, <2>1, PlaceIs DEF Cell
<1>10. cell \in Cells /\ cell.ptr = f[b] /\ cell.type = type
  BY <1>2, <1>8 DEF Cells
<1>11. N \in SUBSET Blocks /\ Closed(e, N)
  BY <1>2, <1>8 DEF Closed, Copies
<1>12. f[b] \in N /\ e[f[b]].kind = type
  BY <1>2, <1>8 DEF Readable, Copies
<1> HIDE DEF cell, e, N, S
<1>13. Forest(g, {})
  <2>1. Forest(g, ({f[b]} \cup ({Cell(e, at).ptr} \ {Nowhere})) \ {cell.ptr})
    BY <1>4, <1>7, <1>9, <1>10, <1>11, <1>12, WithForest
  <2>2. ({f[b]} \cup ({Cell(e, at).ptr} \ {Nowhere})) \ {cell.ptr} = {}
    BY <1>9, <1>10
  <2> QED
    BY <2>1, <2>2
<1>14. /\ Places(g) = Places(e) /\ Cell(g, at) = cell
       /\ \A x \in Places(e) \ {at} : Cell(g, x) = Cell(e, x)
  BY <1>8, <1>9, <1>10, WithIs
<1> HIDE DEF g
<1>15. ASSUME NEW x \in Places(g), Broken(Cell(g, x))
       PROVE  x \in Places(h) \ {at} /\ Broken(Cell(h, x))
  <2>1. x # at
    BY <1>2, <1>8, <1>10, <1>14, <1>15, VariantAssumption DEF Broken
  <2>2. x \in Places(e) /\ Broken(Cell(e, x))
    BY <1>14, <1>15, <2>1
  <2>3. x \in Places(h) /\ Cell(h, x) = Cell(e, x)
    BY <1>1, <1>2, <1>3, <1>6, <2>2, CopiedCells DEF e
  <2> QED
    BY <2>1, <2>2, <2>3
<1> QED
  BY <1>13, <1>15 DEF g, cell, e

LEMMA TypedForest ==
  ASSUME NEW h, Forest(h, {}), NEW at \in Places(h), Cell(h, at).ptr = Nowhere,
         NEW type \in {"Invalid"} \cup Plain \cup Objects
  PROVE  /\ Forest(Typed(h, at, type), {})
         /\ Places(Typed(h, at, type)) = Places(h)
         /\ Cell(Typed(h, at, type), at) = [type |-> type, ptr |-> Nowhere]
         /\ \A x \in Places(h) \ {at} : Cell(Typed(h, at, type), x) = Cell(h, x)
         /\ \A r \in Spots : Typed(h, at, type)[r].kind = h[r].kind
         /\ \A r \in Spots : Parts(Typed(h, at, type), r) \subseteq Parts(h, r)
<1> DEFINE cell == [type |-> type, ptr |-> Nowhere]
           g == With(h, at, cell)
<1>1. cell \in Cells /\ cell.ptr = Nowhere /\ h \in Heaps
  BY DEF Cells, Forest
<1> HIDE DEF cell, g
<1>2. Forest(g, {})
  <2>1. Forest(g, {} \cup ({Cell(h, at).ptr} \ {Nowhere}))
    BY <1>1, EmptiedForest DEF g
  <2>2. {} \cup ({Cell(h, at).ptr} \ {Nowhere}) = {}
    OBVIOUS
  <2> QED
    BY <2>1, <2>2
<1>3. /\ g \in Heaps /\ Places(g) = Places(h) /\ Cell(g, at) = cell
      /\ \A x \in Places(h) \ {at} : Cell(g, x) = Cell(h, x)
      /\ \A r \in Spots : g[r].kind = h[r].kind
  BY <1>1, WithIs DEF g
<1>4. ASSUME NEW r \in Spots, NEW b \in Parts(g, r) PROVE b \in Parts(h, r)
  <2>1. PICK x \in Places(g) : x[1] = r /\ Cell(g, x).ptr = b
    BY <1>3, PlaceIs
  <2>2. b # Nowhere /\ x \in Places(h) \ {at}
    BY <1>1, <1>3, <2>1 DEF Parts
  <2> QED
    BY <1>1, <1>3, <2>1, <2>2, PlaceIs
<1>5. Typed(h, at, type) = g
  BY DEF Typed, g, cell
<1> QED
  BY <1>2, <1>3, <1>4, <1>5 DEF cell

-----------------------------------------------------------------------------
(* The steps.  One that is defined keeps the forest; one that is not       *)
(* leaves the heap as it was.                                              *)
LEMMA UndefinedStep ==
  ASSUME VariantInv, Undefined, overlapped' \in BOOLEAN, overlapped' \/ threw
  PROVE  VariantInv'
<1>1. heap' = heap /\ threw' = threw /\ undefined' = TRUE
  BY DEF Undefined
<1>2. Forest(heap, {})' /\ BrokenAfter'
  BY <1>1 DEF VariantInv, BrokenAfter
<1>3. threw \in BOOLEAN
  BY DEF VariantInv
<1>4. ({undefined, overlapped, threw} \subseteq BOOLEAN)'
  BY <1>1, <1>3
<1>5. DefinedUnlessOverlap'
  BY <1>1 DEF DefinedUnlessOverlap
<1> QED
  BY <1>2, <1>4, <1>5 DEF VariantInv

LEMMA DefinedStep ==
  ASSUME VariantInv, ~undefined, undefined' = undefined,
         overlapped' \in BOOLEAN, threw' \in BOOLEAN, Forest(heap', {}),
         \A x \in Places(heap') : Broken(Cell(heap', x)) => threw'
  PROVE  VariantInv'
<1>1. undefined = FALSE
  BY DEF VariantInv
<1>2. ({undefined, overlapped, threw} \subseteq BOOLEAN)' /\ DefinedUnlessOverlap'
  BY <1>1 DEF DefinedUnlessOverlap
<1>3. BrokenAfter' /\ Forest(heap, {})'
  BY DEF BrokenAfter
<1> QED
  BY <1>2, <1>3 DEF VariantInv

LEMMA NewPayloadStep ==
  ASSUME VariantInv, ~undefined, overlapped' \in BOOLEAN,
         NEW h, Forest(h, {}), NEW type \in Objects, NEW at \in Places(h),
         Cell(h, at) = [type |-> type, ptr |-> Nowhere],
         \A x \in Places(h) \ {at} : Broken(Cell(h, x)) => threw,
         NEW b \in Blocks \cup Objects \cup {Nowhere},
         ~Readable(h, b, type) => overlapped' \/ threw,
         NewPayload(h, at, type, b)
  PROVE  VariantInv'
<1>1. CASE ~Readable(h, b, type) /\ Undefined
  BY <1>1, UndefinedStep
<1>2. CASE heap' = h /\ threw' = TRUE /\ UNCHANGED undefined
  BY <1>2, DefinedStep
<1>3. CASE /\ Readable(h, b, type)
           /\ \E f \in Placements(h, Owned(h, b)) :
                heap' = With(Copied(h, f), at, [type |-> type, ptr |-> f[b]])
           /\ UNCHANGED <<undefined, threw>>
  <2>1. PICK f \in Placements(h, Owned(h, b)) :
               heap' = With(Copied(h, f), at, [type |-> type, ptr |-> f[b]])
    BY <1>3
  <2>2. b \in Spots \ Variables
    BY <1>3, VariantAssumption DEF Readable, Spots
  <2>3. /\ Forest(heap', {})
        /\ \A x \in Places(heap') : Broken(Cell(heap', x)) =>
             x \in Places(h) \ {at} /\ Broken(Cell(h, x))
    BY <1>3, <2>1, <2>2, FilledForest
  <2>4. threw' = threw /\ threw \in BOOLEAN
    BY <1>3 DEF VariantInv
  <2> QED
    BY <1>3, <2>3, <2>4, DefinedStep
<1> QED
  BY <1>1, <1>2, <1>3 DEF NewPayload

(* clear(), and the Variant has its new type.                              *)
LEMMA RetypedForest ==
  ASSUME NEW h, Forest(h, {}), NEW at \in Places(h),
         NEW type \in {"Invalid"} \cup Plain \cup Objects
  PROVE  LET g == Typed(Cleared(h, at), at, type)
         IN  /\ Forest(g, {})
             /\ at \in Places(g)
             /\ Cell(g, at) = [type |-> type, ptr |-> Nowhere]
             /\ \A x \in Places(g) \ {at} : x \in Places(h) /\ Cell(g, x) = Cell(h, x)
             /\ \A r \in Spots \ OwnedBy(h, Cell(h, at)) : g[r].kind = h[r].kind
             /\ \A r \in Spots : Parts(g, r) \subseteq Parts(h, r)
<1> DEFINE e == Cleared(h, at)
           g == Typed(e, at, type)
<1>1. /\ Forest(e, {}) /\ at \in Places(e) /\ Cell(e, at).ptr = Nowhere
      /\ \A x \in Places(e) \ {at} : x \in Places(h) /\ Cell(e, x) = Cell(h, x)
      /\ \A r \in Spots \ OwnedBy(h, Cell(h, at)) : e[r].kind = h[r].kind
      /\ \A r \in Spots : Parts(e, r) \subseteq Parts(h, r)
  BY ClearedForest DEF Nothing
<1> HIDE DEF e
<1>2. /\ Forest(g, {}) /\ Places(g) = Places(e)
      /\ Cell(g, at) = [type |-> type, ptr |-> Nowhere]
      /\ \A x \in Places(e) \ {at} : Cell(g, x) = Cell(e, x)
      /\ \A r \in Spots : g[r].kind = e[r].kind
      /\ \A r \in Spots : Parts(g, r) \subseteq Parts(e, r)
  BY <1>1, TypedForest
<1> HIDE DEF g
<1> QED
  BY <1>1, <1>2 DEF g, e

(* When the payload at b cannot be copied any more.                        *)
LEMMA NotReadable ==
  ASSUME VariantInv, NEW at \in Places(heap), NEW b \in Blocks \cup Objects,
         heap[b].kind \in Objects,
         ~Readable(Typed(Cleared(heap, at), at, heap[b].kind), b, heap[b].kind)
  PROVE  threw \/ b \in OwnedBy(heap, Cell(heap, at)) \/ at[1] \in Owned(heap, b)
<1> DEFINE type == heap[b].kind
           g == Typed(Cleared(heap, at), at, type)
<1>1. /\ Forest(heap, {}) /\ heap \in Heaps
      /\ \A x \in Places(heap) : Broken(Cell(heap, x)) => threw
  BY DEF VariantInv, Forest, BrokenAfter
<1>2. /\ Forest(g, {}) /\ g \in Heaps
      /\ \A x \in Places(g) \ {at} : x \in Places(heap) /\ Cell(g, x) = Cell(heap, x)
      /\ \A r \in Spots \ OwnedBy(heap, Cell(heap, at)) : g[r].kind = heap[r].kind
      /\ \A r \in Spots : Parts(g, r) \subseteq Parts(heap, r)
  BY <1>1, RetypedForest DEF Forest
<1> HIDE DEF g
<1>3. b \in Spots /\ b # Nowhere
  BY VariantAssumption DEF Spots
<1> SUFFICES ASSUME b \notin OwnedBy(heap, Cell(heap, at)) PROVE threw \/ at[1] \in Owned(heap, b)
  OBVIOUS
<1>4. PICK p \in Owned(g, b) : \E i \in DOMAIN g[p].cells : Broken(g[p].cells[i])
  BY <1>2, <1>3 DEF Readable, g
<1>5. PICK i \in DOMAIN g[p].cells : Broken(g[p].cells[i])
  BY <1>4
<1>6. Owned(g, b) \subseteq Owned(heap, b) /\ p \in Spots
  <2> DEFINE S == Owned(heap, b)
  <2>1. b \in S /\ S \subseteq Spots /\ Closed(heap, S)
    BY <1>1, <1>3, OwnedClosed DEF Spots
  <2> HIDE DEF S
  <2>2. Closed(g, S)
    BY <1>2, <2>1 DEF Closed
  <2>3. Owned(g, b) \subseteq S
    BY <1>2, <1>3, <2>1, <2>2, OwnedLeast
  <2> QED
    BY <2>1, <2>3 DEF S
<1>7. <<p, i>> \in Places(g) /\ Broken(Cell(g, <<p, i>>))
  BY <1>2, <1>5, <1>6, PlaceIs DEF Cell
<1>8. CASE <<p, i>> = at
  BY <1>6, <1>8
<1>9. CASE <<p, i>> # at
  BY <1>1, <1>2, <1>7, <1>9
<1> QED
  BY <1>8, <1>9

LEMMA AssignPlainStep ==
  ASSUME VariantInv, ~undefined, NEW at \in Places(heap), NEW type \in Plain,
         AssignPlain(at, type)
  PROVE  VariantInv'
<1>1. /\ Forest(heap, {}) /\ heap \in Heaps
      /\ \A x \in Places(heap) : Broken(Cell(heap, x)) => threw
      /\ overlapped \in BOOLEAN /\ threw \in BOOLEAN
  BY DEF VariantInv, Forest, BrokenAfter
<1>2. type \notin Objects
  BY VariantAssumption
<1>3. undefined' = undefined /\ overlapped' = overlapped /\ threw' = threw
  BY DEF AssignPlain
<1>4. /\ Forest(heap', {})
      /\ Cell(heap', at).type = type
      /\ \A x \in Places(heap') \ {at} : x \in Places(heap) /\ Cell(heap', x) = Cell(heap, x)
  <2>1. CASE Cell(heap, at).type # type
    <3>1. heap' = Typed(Cleared(heap, at), at, type)
      BY <2>1 DEF AssignPlain
    <3> DEFINE g == Typed(Cleared(heap, at), at, type)
    <3>2. /\ Forest(g, {}) /\ Cell(g, at) = [type |-> type, ptr |-> Nowhere]
          /\ \A x \in Places(g) \ {at} : x \in Places(heap) /\ Cell(g, x) = Cell(heap, x)
      <4>1. Forest(heap, {}) /\ type \in {"Invalid"} \cup Plain \cup Objects
        BY <1>1
      <4> QED
        BY ONLY <4>1, at \in Places(heap), RetypedForest
    <3> HIDE DEF g
    <3> QED
      BY <3>1, <3>2 DEF g
  <2>2. CASE Cell(heap, at).type = type
    <3>1. heap' = Typed(heap, at, type)
      BY <2>2 DEF AssignPlain
    <3>2. Cell(heap, at).ptr = Nowhere
      BY <1>1, <1>2, <2>2, PlaceIs DEF Forest, Tidy, Cell
    <3> DEFINE g == Typed(heap, at, type)
    <3>3. /\ Forest(g, {}) /\ Places(g) = Places(heap)
          /\ Cell(g, at) = [type |-> type, ptr |-> Nowhere]
          /\ \A x \in Places(heap) \ {at} : Cell(g, x) = Cell(heap, x)
      BY <1>1, <3>2, TypedForest
    <3> HIDE DEF g
    <3> QED
      BY <3>1, <3>3 DEF g
  <2> QED
    BY <2>1, <2>2
<1>5. \A x \in Places(heap') : Broken(Cell(heap', x)) => threw'
  BY <1>1, <1>2, <1>3, <1>4 DEF Broken
<1> QED
  BY <1>1, <1>3, <1>4, <1>5, DefinedStep

LEMMA InvFacts ==
  ASSUME VariantInv
  PROVE  /\ Forest(heap, {}) /\ heap \in Heaps
         /\ \A x \in Places(heap) : Broken(Cell(heap, x)) => threw
         /\ overlapped \in BOOLEAN /\ threw \in BOOLEAN
BY DEF VariantInv, Forest, BrokenAfter

LEMMA ClearStep ==
  ASSUME VariantInv, ~undefined, NEW at \in Places(heap), Clear(at)
  PROVE  VariantInv'
<1> DEFINE g == Cleared(heap, at)
<1>1. /\ Forest(heap, {})
      /\ \A x \in Places(heap) : Broken(Cell(heap, x)) => threw
      /\ overlapped \in BOOLEAN /\ threw \in BOOLEAN
  BY InvFacts
<1>2. heap' = g /\ undefined' = undefined /\ overlapped' = overlapped /\ threw' = threw
  BY DEF Clear
<1>3. /\ Forest(g, {}) /\ Cell(g, at) = Nothing
      /\ \A x \in Places(g) \ {at} : x \in Places(heap) /\ Cell(g, x) = Cell(heap, x)
  BY <1>1, ClearedForest
<1> HIDE DEF g
<1>4. ~Broken(Nothing)
  BY VariantAssumption DEF Broken, Nothing
<1>5. \A x \in Places(g) : Broken(Cell(g, x)) => threw
  BY <1>1, <1>3, <1>4
<1> QED
  BY <1>1, <1>2, <1>3, <1>5, DefinedStep

LEMMA AssignVariantStep ==
  ASSUME VariantInv, ~undefined, NEW at \in Places(heap), NEW from \in Places(heap),
         AssignVariant(at, from)
  PROVE  VariantInv'
<1> DEFINE cell == Cell(heap, from)
           e == Cleared(heap, at)
           D == OwnedBy(heap, Cell(heap, at))
           g == Typed(e, at, cell.type)
<1>1. /\ Forest(heap, {}) /\ heap \in Heaps
      /\ \A x \in Places(heap) : Broken(Cell(heap, x)) => threw
      /\ overlapped \in BOOLEAN /\ threw \in BOOLEAN
  BY InvFacts
<1>2. overlapped' = (overlapped \/ Inside(from, at) \/ Inside(at, from))
  BY DEF AssignVariant
<1>3. overlapped' \in BOOLEAN
  BY <1>2
<1>4. CASE at = from
  <2>1. heap' = heap /\ undefined' = undefined /\ threw' = threw
    BY <1>4 DEF AssignVariant
  <2> QED
    BY <1>1, <1>3, <2>1, DefinedStep
<1>5. ASSUME at # from, from[1] \in D PROVE overlapped'
  BY <1>2, <1>5 DEF Inside
<1>6. /\ cell \in Cells /\ from[1] \in Spots
      /\ heap[from[1]].kind # "free"
  <2>1. cell \in Cells /\ from[1] \in Spots /\ from[2] \in DOMAIN heap[from[1]].cells
    BY <1>1, PlaceIs
  <2> QED
    BY <1>1, <2>1 DEF Forest, Tidy
<1>7. CASE at # from /\ e[from[1]].kind = "free" /\ Undefined
  <2>1. \A r \in Spots \ D : e[r].kind = heap[r].kind
    BY <1>1, ClearedForest
  <2>2. from[1] \in D
    BY <1>6, <1>7, <2>1
  <2> QED
    BY <1>3, <1>5, <1>7, <2>2, UndefinedStep
<1>8. CASE /\ at # from /\ e[from[1]].kind # "free"
           /\ InitFrom(Typed(e, at, Cell(e, from).type), at, Cell(e, from))
  <2>1. from[1] \notin D /\ Cell(e, from) = cell
    <3>1. /\ \A r \in D : e[r] = Free
          /\ \A x \in Places(heap) \ {at} : x[1] \notin D => Cell(e, x) = Cell(heap, x)
      BY <1>1, ClearedForest
    <3> HIDE DEF D, e
    <3> QED
      BY <1>8, <3>1 DEF Free
  <2>2. InitFrom(g, at, cell)
    BY <1>8, <2>1
  <2>3. /\ Forest(g, {}) /\ at \in Places(g)
        /\ Cell(g, at) = [type |-> cell.type, ptr |-> Nowhere]
        /\ \A x \in Places(g) \ {at} : x \in Places(heap) /\ Cell(g, x) = Cell(heap, x)
    <3>1. cell.type \in {"Invalid"} \cup Plain \cup Objects
      BY <1>6 DEF Cells
    <3> HIDE DEF cell
    <3> QED
      BY ONLY <1>1, <3>1, at \in Places(heap), RetypedForest
  <2>4. CASE cell.type \notin Objects /\ heap' = g /\ UNCHANGED <<undefined, threw>>
    <3>1. ~Broken(Cell(g, at))
      BY <2>3, <2>4 DEF Broken
    <3> HIDE DEF g
    <3>2. \A x \in Places(g) : Broken(Cell(g, x)) => threw
      BY <1>1, <2>3, <3>1
    <3> QED
      BY <1>1, <1>3, <2>3, <2>4, <3>2, DefinedStep
  <2>5. CASE cell.type \in Objects /\ NewPayload(g, at, cell.type, cell.ptr)
    <3> DEFINE b == cell.ptr
    <3>1. b \in Blocks \cup Objects \cup {Nowhere}
      BY <1>6 DEF Cells
    <3>2. ASSUME ~Readable(g, b, cell.type) PROVE overlapped' \/ threw
      <4>1. CASE b = Nowhere
        BY <1>1, <2>5, <4>1 DEF Broken
      <4>2. CASE b # Nowhere
        <5>1. b \in Blocks /\ heap[b].kind = cell.type
          <6>1. b \in Blocks
            BY <1>6, <4>2 DEF Cells
          <6>2. from[2] \in DOMAIN heap[from[1]].cells
            BY <1>1, PlaceIs
          <6> QED
            BY <1>1, <1>6, <4>2, <6>1, <6>2 DEF Forest, Fits, Cell
        <5>2. b \in D => from[1] \in D
          BY <1>1, <1>8, OwnedApart
        <5>3. threw \/ b \in D \/ at[1] \in Owned(heap, b)
          BY <2>5, <3>2, <5>1, NotReadable
        <5>4. at[1] \in Owned(heap, b) => overlapped'
          BY <1>2 DEF Inside, OwnedBy
        <5> QED
          BY <1>5, <1>8, <5>2, <5>3, <5>4
      <4> QED
        BY <4>1, <4>2
    <3>3. \A x \in Places(g) \ {at} : Broken(Cell(g, x)) => threw
      BY <1>1, <2>3
    <3> HIDE DEF g, cell
    <3> QED
      BY <1>3, <2>3, <2>5, <3>1, <3>2, <3>3, NewPayloadStep
  <2> QED
    BY <2>2, <2>3, <2>4, <2>5 DEF InitFrom
<1> QED
  BY <1>4, <1>7, <1>8 DEF AssignVariant

-----------------------------------------------------------------------------
(* An element more, or less.                                               *)
LEMMA AppendForest ==
  ASSUME NEW h, NEW O, Forest(h, O), NEW b \in Blocks, h[b].kind # "free",
         Len(h[b].cells) < MaxElements,
         NEW cell \in Cells, cell.type \notin Objects => cell.ptr = Nowhere,
         NEW D \in SUBSET Blocks, Closed(h, D), b \notin D,
         cell.ptr # Nowhere => cell.ptr \in O \cap D /\ h[cell.ptr].kind = cell.type
  PROVE  LET g == [h EXCEPT ![b].cells = Append(@, cell)]
         IN  /\ Forest(g, O \ {cell.ptr})
             /\ \A x \in Places(g) : \/ Cell(g, x) = cell
                                     \/ x \in Places(h) /\ Cell(g, x) = Cell(h, x)
<1> DEFINE cells == h[b].cells
           cs == Append(cells, cell)
           g == Put(h, b, cs)
<1>1. h \in Heaps /\ b \in Spots
  BY DEF Forest, Spots
<1>2. /\ cells \in Seq(Cells) /\ Ptrs(cells) = Parts(h, b)
      /\ Tidy(b, h[b]) /\ Fits(h, cells)
  BY <1>1, PartsAreBlocks DEF Forest, Heaps
<1>3. [h EXCEPT ![b].cells = Append(@, cell)] = g
  BY DEF Put
<1>4. /\ \A i \in DOMAIN cells : cells[i].type \notin Objects => cells[i].ptr = Nowhere
      /\ \A i, j \in DOMAIN cells :
           cells[i].ptr = cells[j].ptr /\ cells[i].ptr # Nowhere => i = j
  BY <1>2 DEF Tidy
<1> HIDE DEF cells
<1>5. /\ cs \in Seq(Cells) /\ Len(cs) = Len(cells) + 1 /\ DOMAIN cs = 1 .. Len(cs)
      /\ DOMAIN cells = 1 .. Len(cells) /\ Len(cells) \in Nat
      /\ cs[Len(cs)] = cell
      /\ \A i \in 1 .. Len(cells) : cs[i] = cells[i]
  <2>1. Len(cells) \in Nat /\ DOMAIN cells = 1 .. Len(cells)
    BY <1>2
  <2>2. /\ cs \in Seq(Cells) /\ Len(cs) = Len(cells) + 1
        /\ cs[Len(cells) + 1] = cell
        /\ \A i \in 1 .. Len(cells) : cs[i] = cells[i]
    BY <1>2, AppendProperties
  <2> HIDE DEF cs
  <2> QED
    BY <2>1, <2>2
<1> HIDE DEF cs
<1>6. \A i \in DOMAIN cs : i = Len(cs) \/ (i \in DOMAIN cells /\ cs[i] = cells[i])
  BY <1>5
<1>7. \A i \in DOMAIN cells : cells[i].ptr # Nowhere => cells[i].ptr \in Parts(h, b)
  BY <1>2 DEF Ptrs
<1>8. \A c \in O : c \notin Parts(h, b) /\ c # Nowhere
  BY <1>1, VariantAssumption DEF Forest, KeptBut
<1>9. \A i, j \in DOMAIN cs : cs[i].ptr = cs[j].ptr /\ cs[i].ptr # Nowhere => i = j
  <2> SUFFICES ASSUME NEW i \in DOMAIN cs, NEW j \in DOMAIN cs,
                      cs[i].ptr = cs[j].ptr, cs[i].ptr # Nowhere
               PROVE  i = j
    OBVIOUS
  <2>1. CASE i = Len(cs)
    BY <1>5, <1>6, <1>7, <1>8, <2>1
  <2>2. CASE j = Len(cs)
    BY <1>5, <1>6, <1>7, <1>8, <2>2
  <2>3. CASE i # Len(cs) /\ j # Len(cs)
    BY <1>4, <1>6, <2>3
  <2> QED
    BY <2>1, <2>2, <2>3
<1>10. \A i \in DOMAIN cs : cs[i].type \notin Objects => cs[i].ptr = Nowhere
  BY <1>4, <1>5, <1>6
<1>11. Len(cs) <= MaxElements
  BY <1>5, VariantAssumption DEF cells
<1>12. Tidy(b, [kind |-> h[b].kind, cells |-> cs])
  <2>1. b \notin Variables
    BY VariantAssumption
  <2> QED
    BY <1>9, <1>10, <1>11, <2>1 DEF Tidy
<1>13. Fits(h, cs)
  BY <1>2, <1>5, <1>6 DEF Fits
<1>14. Ptrs(cs) = Parts(h, b) \cup ({cell.ptr} \ {Nowhere})
  <2>1. ASSUME NEW c \in Ptrs(cs) PROVE c \in Parts(h, b) \cup ({cell.ptr} \ {Nowhere})
    <3>1. PICK i \in DOMAIN cs : cs[i].ptr = c /\ c # Nowhere
      BY <2>1 DEF Ptrs
    <3> QED
      BY <1>5, <1>6, <1>7, <3>1
  <2>2. ASSUME NEW c \in Parts(h, b) PROVE c \in Ptrs(cs)
    <3>1. PICK i \in DOMAIN cells : cells[i].ptr = c /\ c # Nowhere
      BY <1>2, <2>2 DEF Ptrs
    <3>2. i \in DOMAIN cs /\ cs[i].ptr = c
      BY <1>5, <3>1
    <3> QED
      BY <3>1, <3>2 DEF Ptrs
  <2>3. cell.ptr # Nowhere => cell.ptr \in Ptrs(cs)
    BY <1>5 DEF Ptrs
  <2> QED
    BY <2>1, <2>2, <2>3
<1>15. Ptrs(cs) \subseteq Parts(h, b) \cup (O \cap D)
  BY <1>14
<1>16. Forest(g, O \ {cell.ptr})
  <2>1. Forest(g, (O \cup Parts(h, b)) \ Ptrs(cs))
    BY <1>1, <1>5, <1>12, <1>13, <1>15, PutForest
  <2>2. (O \cup Parts(h, b)) \ Ptrs(cs) = O \ {cell.ptr}
    BY <1>8, <1>14
  <2> QED
    BY <2>1, <2>2
<1>17. /\ g \in Heaps /\ g[b] = [kind |-> h[b].kind, cells |-> cs]
       /\ \A r \in Spots \ {b} : g[r] = h[r]
  BY <1>1, <1>5, PutIs
<1> HIDE DEF g
<1>18. ASSUME NEW x \in Places(g)
       PROVE  Cell(g, x) = cell \/ (x \in Places(h) /\ Cell(g, x) = Cell(h, x))
  <2>1. x[1] \in Spots /\ x[2] \in DOMAIN g[x[1]].cells /\ x = <<x[1], x[2]>>
    BY <1>17, PlaceIs
  <2>2. CASE x[1] # b
    BY <1>1, <1>17, <2>1, <2>2, PlaceIs DEF Cell
  <2>3. CASE x[1] = b
    <3>1. x[2] \in DOMAIN cs /\ Cell(g, x) = cs[x[2]]
      BY <1>17, <2>1, <2>3 DEF Cell
    <3>2. x[2] \in DOMAIN cells => x \in Places(h) /\ Cell(h, x) = cells[x[2]]
      BY <1>1, <2>1, <2>3, PlaceIs DEF Cell, cells
    <3>3. CASE x[2] = Len(cs)
      BY <1>5, <3>1, <3>3
    <3>4. CASE x[2] # Len(cs)
      BY <1>6, <3>1, <3>2, <3>4
    <3> QED
      BY <3>3, <3>4
  <2> QED
    BY <2>2, <2>3
<1> QED
  BY <1>3, <1>16, <1>18

Without(cells, k) == SubSeq(cells, 1, k - 1) \o SubSeq(cells, k + 1, Len(cells))

LEMMA WithoutIs ==
  ASSUME NEW cells \in Seq(Cells), NEW k \in DOMAIN cells
  PROVE  /\ Without(cells, k) \in Seq(Cells)
         /\ Len(Without(cells, k)) = Len(cells) - 1
         /\ \A i \in DOMAIN Without(cells, k) :
              Without(cells, k)[i] = IF i < k THEN cells[i] ELSE cells[i + 1]
<1> DEFINE n == Len(cells)
           l == SubSeq(cells, 1, k - 1)
           r == SubSeq(cells, k + 1, n)
<1>1. /\ n \in Nat /\ k \in 1 .. n /\ DOMAIN cells = 1 .. n
      /\ \A i \in 1 .. n : cells[i] \in Cells
  OBVIOUS
<1> HIDE DEF n
<1>2. /\ l \in Seq(Cells) /\ Len(l) = k - 1
      /\ \A i \in 1 .. k - 1 : l[i] = cells[i]
  <2>1. \A i \in 1 .. k - 1 : cells[i] \in Cells
    BY <1>1
  <2>2. 1 \in Int /\ k - 1 \in Int
    BY <1>1
  <2>3. /\ l \in Seq(Cells) /\ Len(l) = IF 1 <= k - 1 THEN (k - 1) - 1 + 1 ELSE 0
        /\ \A i \in 1 .. (k - 1) - 1 + 1 : l[i] = cells[1 + i - 1]
    BY <2>1, <2>2, SubSeqProperties
  <2> HIDE DEF l
  <2> QED
    BY <1>1, <2>3
<1>3. /\ r \in Seq(Cells) /\ Len(r) = n - k
      /\ \A i \in 1 .. n - k : r[i] = cells[k + i]
  <2>1. \A i \in k + 1 .. n : cells[i] \in Cells
    BY <1>1
  <2>2. k + 1 \in Int /\ n \in Int
    BY <1>1
  <2>3. /\ r \in Seq(Cells) /\ Len(r) = IF k + 1 <= n THEN n - (k + 1) + 1 ELSE 0
        /\ \A i \in 1 .. n - (k + 1) + 1 : r[i] = cells[(k + 1) + i - 1]
    BY <2>1, <2>2, SubSeqProperties
  <2> HIDE DEF r
  <2>4. Len(r) = n - k
    BY <1>1, <2>3
  <2>5. ASSUME NEW i \in 1 .. n - k PROVE r[i] = cells[k + i]
    <3>1. (k + 1) + i - 1 = k + i /\ i \in 1 .. n - (k + 1) + 1
      BY <1>1
    <3> QED
      BY <2>3, <3>1
  <2> QED
    BY <2>3, <2>4, <2>5
<1> HIDE DEF l, r
<1>4. /\ l \o r \in Seq(Cells) /\ Len(l \o r) = Len(l) + Len(r)
      /\ \A i \in 1 .. Len(l) + Len(r) :
           (l \o r)[i] = IF i <= Len(l) THEN l[i] ELSE r[i - Len(l)]
  BY <1>2, <1>3, ConcatProperties
<1> DEFINE w == l \o r
<1>5. /\ w \in Seq(Cells) /\ Len(w) = n - 1 /\ DOMAIN w = 1 .. n - 1
  BY <1>1, <1>2, <1>3, <1>4
<1>6. ASSUME NEW i \in 1 .. n - 1 PROVE w[i] = IF i < k THEN cells[i] ELSE cells[i + 1]
  <2>1. CASE i < k
    BY <1>1, <1>2, <1>3, <1>4, <2>1
  <2>2. CASE i >= k
    <3>1. w[i] = r[i - (k - 1)] /\ i - (k - 1) \in 1 .. n - k
      <4>1. Len(l) = k - 1 /\ Len(r) = n - k
        BY <1>2, <1>3
      <4>2. i \in 1 .. Len(l) + Len(r) /\ ~(i <= Len(l))
        BY <1>1, <2>2, <4>1
      <4>3. w[i] = r[i - Len(l)]
        BY <1>4, <4>2
      <4> HIDE DEF w
      <4> QED
        BY <1>1, <2>2, <4>1, <4>3
    <3>2. k + (i - (k - 1)) = i + 1
      BY <1>1
    <3> QED
      BY <1>1, <1>3, <2>2, <3>1, <3>2
  <2>3. i < k \/ i >= k
    BY <1>1
  <2> HIDE DEF w
  <2> QED
    BY <2>1, <2>2, <2>3
<1>7. Without(cells, k) = w
  BY DEF Without, l, r, n
<1> HIDE DEF w
<1> QED
  BY <1>5, <1>6, <1>7 DEF n

LEMMA WithoutForest ==
  ASSUME NEW h, Forest(h, {}), NEW at \in Places(h), at[1] \in Blocks,
         Cell(h, at).ptr = Nowhere,
         NEW left, left = Put(h, at[1], Without(h[at[1]].cells, at[2]))
  PROVE  /\ Forest(left, {})
         /\ \A x \in Places(left) : \E y \in Places(h) : Cell(left, x) = Cell(h, y)
<1> DEFINE q == at[1]
           k == at[2]
           cells == h[q].cells
           cs == Without(cells, k)
           g == Put(h, q, cs)
           to(i) == IF i < k THEN i ELSE i + 1
<1>1. h \in Heaps /\ q \in Spots /\ k \in DOMAIN cells
  BY PlaceIs DEF Forest
<1>2. /\ cells \in Seq(Cells) /\ Ptrs(cells) = Parts(h, q)
      /\ Tidy(q, h[q]) /\ Fits(h, cells)
  BY <1>1, PartsAreBlocks DEF Forest, Heaps
<1>3. cells[k].ptr = Nowhere
  BY DEF Cell
<1>4. /\ \A i \in DOMAIN cells : cells[i].type \notin Objects => cells[i].ptr = Nowhere
      /\ \A i, j \in DOMAIN cells :
           cells[i].ptr = cells[j].ptr /\ cells[i].ptr # Nowhere => i = j
      /\ Len(cells) <= MaxElements \/ q \in Variables
      /\ h[q].kind # "free"
  <2>1. h[q].kind = "free" => cells = <<>>
    BY <1>2 DEF Tidy
  <2> QED
    BY <1>1, <1>2, <2>1 DEF Tidy
<1>5. q \notin Variables
  BY VariantAssumption
<1> HIDE DEF cells, k, q
<1>6. /\ cs \in Seq(Cells) /\ Len(cs) = Len(cells) - 1
      /\ \A i \in DOMAIN cs : cs[i] = IF i < k THEN cells[i] ELSE cells[i + 1]
  BY <1>1, <1>2, WithoutIs
<1> HIDE DEF cs
<1>7. /\ Len(cells) \in Nat /\ DOMAIN cells = 1 .. Len(cells) /\ k \in 1 .. Len(cells)
      /\ DOMAIN cs = 1 .. Len(cells) - 1
  BY <1>1, <1>2, <1>6
<1>8. \A i \in DOMAIN cs : to(i) \in DOMAIN cells /\ cs[i] = cells[to(i)]
  BY <1>6, <1>7
<1>9. \A i, j \in DOMAIN cs : to(i) = to(j) => i = j
  BY <1>7
<1>10. \A j \in DOMAIN cells : j # k => \E i \in DOMAIN cs : to(i) = j
  <2> SUFFICES ASSUME NEW j \in DOMAIN cells, j # k PROVE \E i \in DOMAIN cs : to(i) = j
    OBVIOUS
  <2>1. CASE j < k
    BY <1>7, <2>1
  <2>2. CASE j > k
    <3>1. j - 1 \in DOMAIN cs /\ to(j - 1) = j
      BY <1>7, <2>2
    <3> QED
      BY <3>1
  <2> QED
    BY <1>7, <2>1, <2>2
<1> HIDE DEF to
<1>11. /\ \A i \in DOMAIN cs : cs[i].type \notin Objects => cs[i].ptr = Nowhere
       /\ \A i, j \in DOMAIN cs :
            cs[i].ptr = cs[j].ptr /\ cs[i].ptr # Nowhere => i = j
  BY <1>4, <1>8, <1>9
<1>12. Len(cs) <= MaxElements \/ q \in Variables
  BY <1>4, <1>6, <1>7, VariantAssumption
<1>13. Tidy(q, [kind |-> h[q].kind, cells |-> cs])
  BY <1>4, <1>11, <1>12, <1>5 DEF Tidy
<1>14. Fits(h, cs)
  BY <1>2, <1>8 DEF Fits
<1>15. Ptrs(cs) = Parts(h, q)
  <2>1. ASSUME NEW b \in Ptrs(cs) PROVE b \in Ptrs(cells)
    BY <1>8 DEF Ptrs
  <2>2. ASSUME NEW b \in Ptrs(cells) PROVE b \in Ptrs(cs)
    <3>1. PICK j \in DOMAIN cells : cells[j].ptr = b /\ b # Nowhere
      BY DEF Ptrs
    <3>2. PICK i \in DOMAIN cs : to(i) = j
      BY <1>3, <1>10, <3>1
    <3> QED
      BY <1>8, <3>1, <3>2 DEF Ptrs
  <2> QED
    BY <1>2, <2>1, <2>2
<1>16. Forest(g, {})
  <2>1. {} \in SUBSET Blocks /\ Closed(h, {}) /\ q \notin {}
    BY DEF Closed
  <2>2. Ptrs(cs) \subseteq Parts(h, q) \cup ({} \cap {})
    BY <1>15
  <2>3. Forest(g, ({} \cup Parts(h, q)) \ Ptrs(cs))
    BY <1>1, <1>6, <1>13, <1>14, <2>1, <2>2, PutForest
  <2>4. ({} \cup Parts(h, q)) \ Ptrs(cs) = {}
    BY <1>15
  <2> QED
    BY <2>3, <2>4
<1>17. /\ g \in Heaps /\ g[q] = [kind |-> h[q].kind, cells |-> cs]
       /\ \A r \in Spots \ {q} : g[r] = h[r]
  BY <1>1, <1>6, PutIs
<1> HIDE DEF g
<1>18. ASSUME NEW x \in Places(g) PROVE \E y \in Places(h) : Cell(g, x) = Cell(h, y)
  <2>1. x[1] \in Spots /\ x[2] \in DOMAIN g[x[1]].cells /\ x = <<x[1], x[2]>>
    BY <1>17, PlaceIs
  <2>2. CASE x[1] # q
    BY <1>1, <1>17, <2>1, <2>2, PlaceIs DEF Cell
  <2>3. CASE x[1] = q
    <3>1. x[2] \in DOMAIN cs /\ Cell(g, x) = cs[x[2]]
      BY <1>17, <2>1, <2>3 DEF Cell
    <3>2. to(x[2]) \in DOMAIN cells /\ Cell(g, x) = cells[to(x[2])]
      BY <1>8, <3>1
    <3>3. <<q, to(x[2])>> \in Places(h) /\ Cell(h, <<q, to(x[2])>>) = cells[to(x[2])]
      BY <1>1, <3>2, PlaceIs DEF Cell, cells
    <3> QED
      BY <3>2, <3>3
  <2> QED
    BY <2>2, <2>3
<1>19. left = g
  BY DEF g, cs, q, k, cells
<1> QED
  BY <1>16, <1>18, <1>19

LEMMA EraseStep ==
  ASSUME VariantInv, ~undefined, NEW at \in Places(heap), Erase(at)
  PROVE  VariantInv'
<1> DEFINE e == Cleared(heap, at)
           g == Put(e, at[1], Without(e[at[1]].cells, at[2]))
<1>1. /\ Forest(heap, {})
      /\ \A x \in Places(heap) : Broken(Cell(heap, x)) => threw
      /\ overlapped \in BOOLEAN /\ threw \in BOOLEAN
  BY InvFacts
<1>2. heap' = g /\ undefined' = undefined /\ overlapped' = overlapped /\ threw' = threw
  <2>1. e \in Heaps /\ at[1] \in Spots
    BY <1>1, ClearedForest, PlaceIs DEF Forest
  <2>2. heap' = [e EXCEPT ![at[1]].cells =
                   SubSeq(@, 1, at[2] - 1) \o SubSeq(@, at[2] + 1, Len(@))]
    BY DEF Erase
  <2> HIDE DEF e
  <2>3. heap' = g
    BY <2>1, <2>2 DEF Put, Without
  <2> QED
    BY <2>3 DEF Erase
<1>3. /\ Forest(e, {}) /\ at \in Places(e) /\ Cell(e, at) = Nothing
      /\ \A x \in Places(e) \ {at} : x \in Places(heap) /\ Cell(e, x) = Cell(heap, x)
  BY <1>1, ClearedForest
<1> HIDE DEF e
<1>4. /\ Forest(g, {})
      /\ \A x \in Places(g) : \E y \in Places(e) : Cell(g, x) = Cell(e, y)
  <2>1. Cell(e, at).ptr = Nowhere
    BY <1>3 DEF Nothing
  <2>2. at[1] \in Blocks
    BY DEF Erase
  <2>3. g = Put(e, at[1], Without(e[at[1]].cells, at[2]))
    OBVIOUS
  <2> HIDE DEF g
  <2> QED
    BY <1>3, <2>1, <2>2, <2>3, WithoutForest
<1> HIDE DEF g
<1>5. ~Broken(Nothing)
  BY VariantAssumption DEF Broken, Nothing
<1>6. \A x \in Places(g) : Broken(Cell(g, x)) => threw
  BY <1>1, <1>3, <1>4, <1>5
<1> QED
  BY <1>1, <1>2, <1>4, <1>6, DefinedStep

LEMMA InsertStep ==
  ASSUME VariantInv, ~undefined, NEW b \in Blocks, Insert(b)
  PROVE  VariantInv'
<1> DEFINE g == [heap EXCEPT ![b].cells = Append(@, Nothing)]
<1>1. /\ Forest(heap, {})
      /\ \A x \in Places(heap) : Broken(Cell(heap, x)) => threw
      /\ overlapped \in BOOLEAN /\ threw \in BOOLEAN
  BY InvFacts
<1>2. heap' = g /\ undefined' = undefined /\ overlapped' = overlapped /\ threw' = threw
  BY DEF Insert
<1>3. /\ Forest(g, {} \ {Nothing.ptr})
      /\ \A x \in Places(g) : \/ Cell(g, x) = Nothing
                              \/ x \in Places(heap) /\ Cell(g, x) = Cell(heap, x)
  <2>1. heap[b].kind # "free" /\ Len(heap[b].cells) < MaxElements
    BY DEF Insert
  <2>2. /\ Nothing \in Cells /\ Nothing.ptr = Nowhere
        /\ {} \in SUBSET Blocks /\ Closed(heap, {}) /\ b \notin {}
    BY DEF Nothing, Cells, Closed
  <2> QED
    BY <1>1, <2>1, <2>2, AppendForest
<1> HIDE DEF g
<1>4. Forest(g, {})
  <2>1. {} \ {Nothing.ptr} = {}
    OBVIOUS
  <2> QED
    BY <1>3, <2>1
<1>5. ~Broken(Nothing)
  BY VariantAssumption DEF Broken, Nothing
<1>6. \A x \in Places(g) : Broken(Cell(g, x)) => threw
  BY <1>1, <1>3, <1>5
<1> QED
  BY <1>1, <1>2, <1>4, <1>6, DefinedStep

(* A payload that belongs to a Variant of its type cannot be read only     *)
(* because there is a Variant without payload in it.                       *)
LEMMA ReadableUnlessBroken ==
  ASSUME VariantInv, NEW b \in Blocks \cup Objects, ~Readable(heap, b, heap[b].kind)
  PROVE  threw
<1>1. /\ heap \in Heaps /\ \A x \in Places(heap) : Broken(Cell(heap, x)) => threw
  BY InvFacts
<1>2. b \in Spots /\ b # Nowhere
  BY VariantAssumption DEF Spots
<1>3. PICK p \in Owned(heap, b) : \E i \in DOMAIN heap[p].cells : Broken(heap[p].cells[i])
  BY <1>2 DEF Readable
<1>4. PICK i \in DOMAIN heap[p].cells : Broken(heap[p].cells[i])
  BY <1>3
<1>5. p \in Spots
  BY <1>1, <1>2, OwnedClosed DEF Spots
<1>6. <<p, i>> \in Places(heap) /\ Broken(Cell(heap, <<p, i>>))
  BY <1>1, <1>4, <1>5, PlaceIs DEF Cell
<1> QED
  BY <1>1, <1>6

LEMMA PointerIs ==
  ASSUME VariantInv, NEW at \in Places(heap), Cell(heap, at).type \in Objects
  PROVE  \/ Cell(heap, at).ptr = Nowhere /\ threw
         \/ /\ Cell(heap, at).ptr \in Blocks
            /\ heap[Cell(heap, at).ptr].kind = Cell(heap, at).type
<1>1. /\ Forest(heap, {}) /\ heap \in Heaps
      /\ \A x \in Places(heap) : Broken(Cell(heap, x)) => threw
  BY InvFacts
<1>2. /\ at[1] \in Spots /\ at[2] \in DOMAIN heap[at[1]].cells
      /\ Cell(heap, at).ptr \in Blocks \cup {Nowhere}
  BY <1>1, PlaceIs DEF Cells
<1>3. CASE Cell(heap, at).ptr = Nowhere
  BY <1>1, <1>3 DEF Broken
<1>4. CASE Cell(heap, at).ptr # Nowhere
  BY <1>1, <1>2, <1>4 DEF Forest, Fits, Cell
<1> QED
  BY <1>3, <1>4

LEMMA PushBackStep ==
  ASSUME VariantInv, ~undefined, NEW b \in Blocks, NEW from \in Places(heap),
         PushBack(b, from)
  PROVE  VariantInv'
<1> DEFINE cell == Cell(heap, from)
           type == cell.type
           c == cell.ptr
           S == Owned(heap, c)
<1>1. /\ Forest(heap, {}) /\ heap \in Heaps
      /\ \A x \in Places(heap) : Broken(Cell(heap, x)) => threw
      /\ overlapped \in BOOLEAN /\ threw \in BOOLEAN
  BY InvFacts
<1>2. /\ overlapped' = overlapped /\ overlapped' \in BOOLEAN
      /\ heap[b].kind # "free" /\ Len(heap[b].cells) < MaxElements /\ b \in Spots
  BY <1>1 DEF PushBack, Spots
<1>3. /\ cell \in Cells
      /\ from[1] \in Spots /\ from[2] \in DOMAIN heap[from[1]].cells
  BY <1>1, PlaceIs
<1>4. CASE type \notin Objects /\ heap' = [heap EXCEPT ![b].cells = Append(@, cell)]
             /\ UNCHANGED <<undefined, threw>>
  <2> DEFINE g == [heap EXCEPT ![b].cells = Append(@, cell)]
  <2>1. c = Nowhere
    BY <1>1, <1>3, <1>4 DEF Forest, Tidy, Cell
  <2>2. {} \in SUBSET Blocks /\ Closed(heap, {}) /\ b \notin {}
    BY DEF Closed
  <2> HIDE DEF cell
  <2>3. /\ Forest(g, {} \ {c})
        /\ \A x \in Places(g) : \/ Cell(g, x) = cell
                                \/ x \in Places(heap) /\ Cell(g, x) = Cell(heap, x)
    BY <1>1, <1>2, <1>3, <2>1, <2>2, AppendForest
  <2>4. heap' = g
    BY <1>4
  <2> HIDE DEF g
  <2>5. {} \ {c} = {}
    OBVIOUS
  <2>6. \A x \in Places(g) : Broken(Cell(g, x)) => threw
    BY <1>1, <1>4, <2>3 DEF Broken
  <2> QED
    BY <1>1, <1>2, <1>4, <2>3, <2>4, <2>5, <2>6, DefinedStep
<1>5. CASE type \in Objects /\ ~Readable(heap, c, type) /\ Undefined
  <2>1. threw
    BY <1>5, PointerIs, ReadableUnlessBroken
  <2> QED
    BY <1>2, <1>5, <2>1, UndefinedStep
<1>6. CASE /\ type \in Objects /\ Readable(heap, c, type)
           /\ \E f \in Placements(heap, S) :
                heap' = [Copied(heap, f) EXCEPT ![b].cells =
                           Append(@, [cell EXCEPT !.ptr = f[@]])]
           /\ UNCHANGED <<undefined, threw>>
  <2>1. PICK f \in Placements(heap, S) :
               heap' = [Copied(heap, f) EXCEPT ![b].cells =
                          Append(@, [cell EXCEPT !.ptr = f[@]])]
    BY <1>6
  <2> DEFINE e == Copied(heap, f)
             N == Copies(S, f)
             new == [cell EXCEPT !.ptr = f[@]]
             g == [e EXCEPT ![b].cells = Append(@, new)]
  <2>2. /\ c \in Blocks /\ heap[c].kind = type /\ c \in Spots \ Variables
        /\ \A s \in S : \A i \in DOMAIN heap[s].cells : ~Broken(heap[s].cells[i])
    BY <1>3, <1>6, VariantAssumption DEF Readable, Cells, Spots
  <2>3. /\ S \in SUBSET (Spots \ Variables) /\ Closed(heap, S)
        /\ \A s \in S : heap[s].kind # "free"
        /\ Ones(heap, S) = {c} /\ c \in S
    BY <1>1, <1>6, <2>2, OwnedCanBeCopied, OwnedClosed
  <2>4. Placed(heap, S, f)
    BY DEF Placements, Placed
  <2>5. Forest(e, {f[c]})
    <3>1. Forest(e, {} \cup Copies(Ones(heap, S), f))
      BY <1>1, <2>3, <2>4, CopiedForest
    <3>2. {} \cup Copies(Ones(heap, S), f) = {f[c]}
      BY <2>3 DEF Copies
    <3> QED
      BY <3>1, <3>2
  <2>6. /\ e \in Heaps
        /\ \A s \in S : /\ f[s] \in Blocks
                        /\ e[f[s]].kind = heap[s].kind
                        /\ Parts(e, f[s]) = Copies(Parts(heap, s), f)
        /\ \A r \in Spots \ N : e[r] = heap[r]
    BY <1>1, <2>3, <2>4, CopiedIs
  <2>7. \A x \in Places(e) : Broken(Cell(e, x)) => x \in Places(heap) /\ Cell(heap, x) = Cell(e, x)
    BY <1>1, <2>2, <2>3, <2>4, CopiedCells
  <2>8. b \notin N
    BY <1>2, <2>4 DEF Placed, Copies
  <2>9. e[b].kind # "free" /\ Len(e[b].cells) < MaxElements
    BY <1>2, <2>6, <2>8
  <2>10. N \in SUBSET Blocks /\ Closed(e, N)
    BY <2>3, <2>6 DEF Closed, Copies
  <2>11. new \in Cells /\ new.ptr = f[c] /\ new.type = type
    BY <1>3, <2>3, <2>6 DEF Cells
  <2>12. f[c] \in N /\ e[f[c]].kind = type
    BY <2>2, <2>3, <2>6 DEF Copies
  <2>18. /\ new.type \notin Objects => new.ptr = Nowhere
         /\ new.ptr \in {f[c]} \cap N /\ e[new.ptr].kind = new.type
    BY <1>6, <2>11, <2>12
  <2> DEFINE O == {f[c]}
  <2>19. Forest(e, O) /\ (new.ptr # Nowhere => new.ptr \in O \cap N /\ e[new.ptr].kind = new.type)
    BY <2>5, <2>18
  <2> HIDE DEF e, N, new, S, cell, O
  <2>13. /\ Forest(g, O \ {new.ptr})
         /\ \A x \in Places(g) : \/ Cell(g, x) = new
                                 \/ x \in Places(e) /\ Cell(g, x) = Cell(e, x)
    BY ONLY <2>8, <2>9, <2>10, <2>11, <2>18, <2>19, AppendForest
  <2>14. heap' = g
    BY <2>1 DEF e, new
  <2> HIDE DEF g
  <2>15. O \ {new.ptr} = {}
    BY <2>11 DEF O
  <2>16. ~Broken(new)
    BY <2>3, <2>6, <2>11, VariantAssumption DEF Broken
  <2>17. \A x \in Places(g) : Broken(Cell(g, x)) => threw
    BY <1>1, <2>7, <2>13, <2>16
  <2> QED
    BY <1>1, <1>2, <1>6, <2>13, <2>14, <2>15, <2>17, DefinedStep
<1> QED
  BY <1>4, <1>5, <1>6 DEF PushBack

-----------------------------------------------------------------------------
(* The assignment of std::list and std::map: the elements of one are       *)
(* destroyed, and it gets copies of those of the other.                    *)
LEMMA OwnedDisjoint ==
  ASSUME NEW h, NEW O, Forest(h, O), NEW own \in Spots, NEW b \in Spots,
         own \notin Owned(h, b), b \notin Owned(h, own)
  PROVE  Owned(h, own) \cap Owned(h, b) = {}
<1> DEFINE S == Owned(h, own)
           R == Owned(h, b)
<1>1. h \in Heaps
  BY DEF Forest
<1>2. /\ S \subseteq Blocks \cup {own} /\ R \subseteq Blocks \cup {b}
      /\ own \notin R /\ b \notin S /\ S \subseteq Spots /\ R \subseteq Spots
  BY <1>1, OwnedClosed DEF Spots
<1>3. /\ \A c \in S : c # own => \E q \in S : c \in Parts(h, q)
      /\ \A c \in R : c # b => \E q \in R : c \in Parts(h, q)
  BY <1>1, OwnedFromInside
<1> HIDE DEF S, R
<1> SUFFICES ASSUME S \cap R # {} PROVE FALSE
  BY DEF S, R
<1>4. S \cap R \in SUBSET Blocks
  BY <1>2
<1>5. PICK c \in S \cap R : \A q \in S \cap R : c \notin Parts(h, q)
  BY <1>4 DEF Forest, Rooted
<1>6. c # own /\ c # b
  BY DEF S, R
<1>7. PICK q \in S : c \in Parts(h, q)
  BY <1>3, <1>6
<1>8. PICK r \in R : c \in Parts(h, r)
  BY <1>3, <1>6
<1>9. q = r
  BY <1>2, <1>7, <1>8 DEF Forest, Sole, Spots
<1> QED
  BY <1>5, <1>7, <1>8, <1>9

LEMMA EmptiedContainer ==
  ASSUME NEW h, Forest(h, {}), NEW own \in Blocks, h[own].kind \in Objects
  PROVE  LET g == Freed(Put(h, own, <<>>), Owned(h, own) \ {own})
         IN  /\ Forest(g, {})
             /\ g[own] = [kind |-> h[own].kind, cells |-> <<>>]
             /\ \A r \in Spots \ Owned(h, own) : g[r] = h[r]
             /\ \A r \in Owned(h, own) \ {own} : g[r] = Free
<1> DEFINE S == Owned(h, own)
           D == S \ {own}
           e == Put(h, own, <<>>)
           g == Freed(e, D)
<1>1. h \in Heaps /\ own \in Spots \ Variables /\ h[own].kind # "free"
  BY VariantAssumption DEF Forest, Spots
<1>2. /\ S \in SUBSET Blocks /\ own \in S /\ Closed(h, S)
      /\ \A c \in D : \E q \in S : c \in Parts(h, q)
      /\ Ones(h, S) = {own}
  <2>1. own \in Spots
    BY <1>1
  <2>2. S \in SUBSET Blocks /\ own \in S /\ Closed(h, S)
    BY <1>1, <2>1, OwnedClosed
  <2>3. \A c \in D : \E q \in S : c \in Parts(h, q)
    BY <1>1, <2>1, OwnedFromInside
  <2>4. Ones(h, S) = {own}
    BY <1>1, OwnedCanBeCopied
  <2> QED
    BY <2>2, <2>3, <2>4
<1> HIDE DEF S
<1>3. \A q \in S : own \notin Parts(h, q)
  BY <1>2 DEF Ones
<1>4. Closed(h, D) /\ Parts(h, own) \subseteq D
  BY <1>2, <1>3 DEF Closed
<1>5. <<>> \in Seq(Cells) /\ DOMAIN <<>> = {} /\ Len(<<>>) = 0
  OBVIOUS
<1>6. Ptrs(<<>>) = {}
  BY <1>5 DEF Ptrs
<1>7. /\ e \in Heaps /\ e[own] = [kind |-> h[own].kind, cells |-> <<>>]
      /\ Parts(e, own) = {}
      /\ \A r \in Spots \ {own} : e[r] = h[r] /\ Parts(e, r) = Parts(h, r)
  <2> DEFINE nil == <<>>
  <2>1. nil \in Seq(Cells) /\ Ptrs(nil) = {}
    BY <1>5, <1>6
  <2> HIDE DEF nil
  <2>2. /\ Put(h, own, nil) \in Heaps
        /\ Put(h, own, nil)[own] = [kind |-> h[own].kind, cells |-> nil]
        /\ Parts(Put(h, own, nil), own) = Ptrs(nil)
        /\ \A r \in Spots \ {own} : /\ Put(h, own, nil)[r] = h[r]
                                     /\ Parts(Put(h, own, nil), r) = Parts(h, r)
    BY <1>1, <2>1, PutIs
  <2>3. e = Put(h, own, nil)
    BY DEF nil
  <2> HIDE DEF e
  <2>4. /\ e \in Heaps /\ e[own] = [kind |-> h[own].kind, cells |-> nil]
        /\ Parts(e, own) = {}
        /\ \A r \in Spots \ {own} : e[r] = h[r] /\ Parts(e, r) = Parts(h, r)
    BY <2>1, <2>2, <2>3
  <2> QED
    BY <2>4 DEF nil
<1>8. Forest(e, Parts(h, own))
  <2>1. Tidy(own, [kind |-> h[own].kind, cells |-> <<>>]) /\ Fits(h, <<>>)
    BY <1>5, VariantAssumption DEF Tidy, Fits
  <2>2. {} \in SUBSET Blocks /\ Closed(h, {}) /\ own \notin {}
        /\ Ptrs(<<>>) \subseteq Parts(h, own) \cup ({} \cap {})
    BY <1>6 DEF Closed
  <2>3. Forest(e, ({} \cup Parts(h, own)) \ Ptrs(<<>>))
    BY <1>1, <1>5, <2>1, <2>2, PutForest
  <2>4. ({} \cup Parts(h, own)) \ Ptrs(<<>>) = Parts(h, own)
    BY <1>6
  <2> QED
    BY <2>3, <2>4
<1> HIDE DEF e
<1>9. D \in SUBSET Blocks
  BY <1>2
<1>10. Closed(e, D)
  BY <1>4, <1>7, <1>9 DEF Closed, Spots
<1>11. ASSUME NEW q \in Spots \ D, NEW c \in Parts(e, q), c \in D PROVE FALSE
  <2>1. q # own /\ c \in Parts(h, q)
    BY <1>7, <1>11
  <2>2. PICK r \in S : c \in Parts(h, r)
    BY <1>2, <1>11
  <2>3. r = q
    BY <1>2, <2>1, <2>2 DEF Forest, Sole, Spots
  <2> QED
    BY <1>11, <2>1, <2>2, <2>3
<1>12. Forest(g, {})
  <2>1. \A q \in Spots \ D : Parts(e, q) \cap D = {}
    BY <1>11
  <2>2. Forest(g, Parts(h, own) \ D)
    BY <1>8, <1>9, <1>10, <2>1, FreedForest
  <2>3. Parts(h, own) \ D = {}
    BY <1>4
  <2> QED
    BY <2>2, <2>3
<1>13. /\ \A r \in Spots \ D : g[r] = e[r]
       /\ \A r \in D : g[r] = Free
  BY <1>7, <1>9, FreedIs
<1> HIDE DEF g
<1>14. g[own] = [kind |-> h[own].kind, cells |-> <<>>]
  BY <1>1, <1>7, <1>13
<1>15. \A r \in Spots \ S : g[r] = h[r]
  BY <1>2, <1>7, <1>13
<1> QED
  BY <1>12, <1>13, <1>14, <1>15 DEF g, e, S

LEMMA InPlaceForest ==
  ASSUME NEW h, Forest(h, {}), NEW own \in Blocks, h[own].kind \in Objects,
         NEW b \in Spots \ Variables, h[b].kind \in Objects, own # b,
         own \notin Owned(h, b), b \notin Owned(h, own), Readable(h, b, h[b].kind),
         NEW f \in Placements(h, Owned(h, b) \ {b})
  PROVE  LET g == Put(Copied(Freed(h, Owned(h, own) \ {own}), f), own,
                      Moved(h[b].cells, f))
         IN  /\ Forest(g, {})
             /\ \A x \in Places(g) : Broken(Cell(g, x)) =>
                  \E y \in Places(h) : Broken(Cell(h, y))
<1> DEFINE W == Owned(h, own)
           D == W \ {own}
           R == Owned(h, b)
           S == R \ {b}
           N == Copies(S, f)
           k == Freed(h, D)
           k2 == Freed(Put(h, own, <<>>), D)
           e == Copied(k, f)
           e2 == Copied(k2, f)
           m == Moved(h[b].cells, f)
           g == Put(e2, own, m)
<1>1. h \in Heaps /\ own \in Spots \ Variables /\ b \in Spots
  BY VariantAssumption DEF Forest, Spots
<1>2. /\ R \in SUBSET (Spots \ Variables) /\ Closed(h, R) /\ b \in R
      /\ \A s \in R : h[s].kind # "free"
      /\ Ones(h, R) = {b} /\ R \subseteq Blocks \cup {b}
      /\ \A s \in R : \A i \in DOMAIN h[s].cells : ~Broken(h[s].cells[i])
  BY <1>1, OwnedCanBeCopied, OwnedClosed DEF Readable
<1>3. W \in SUBSET Blocks /\ own \in W /\ \A c \in W : h[c].kind # "free"
  BY <1>1, OwnedCanBeCopied, OwnedClosed
<1>4. W \cap R = {}
  BY <1>1, OwnedDisjoint
<1>5. S \in SUBSET Blocks /\ S \in SUBSET (Spots \ Variables) /\ Parts(h, b) \subseteq S
      /\ Closed(h, S)
  <2>1. \A q \in R : b \notin Parts(h, q)
    BY <1>2 DEF Ones
  <2> HIDE DEF R
  <2> QED
    BY <1>2, <2>1 DEF Closed
<1>6. /\ f \in [S -> Blocks] /\ \A s, t \in S : f[s] = f[t] => s = t
      /\ \A s \in S : h[f[s]].kind = "free" /\ f[s] \in Blocks
  BY DEF Placements
<1>7. \A s \in S : f[s] \notin W
  BY <1>3, <1>6
<1>8. /\ Forest(k2, {})
      /\ k2[own] = [kind |-> h[own].kind, cells |-> <<>>]
      /\ \A r \in Spots \ W : k2[r] = h[r]
      /\ \A r \in D : k2[r] = Free
  BY EmptiedContainer
<1>9. /\ k \in Heaps
      /\ \A r \in Spots \ D : k[r] = h[r]
      /\ \A r \in D : k[r] = Free
  BY <1>1, <1>3, FreedIs
<1>10. k2 \in Heaps
  BY <1>8 DEF Forest
<1> HIDE DEF k, k2, R, W
<1>11. /\ \A r \in Spots \ {own} : k[r] = k2[r]
       /\ \A r \in R : k2[r] = h[r] /\ k[r] = h[r]
       /\ k[own].kind = h[own].kind /\ k2[own].kind = h[own].kind
  <2>1. \A r \in Spots : r = own \/ r \in D \/ r \in Spots \ W
    OBVIOUS
  <2>2. \A r \in Spots \ {own} : k[r] = k2[r]
    BY <1>8, <1>9, <2>1
  <2>3. \A r \in R : r \in Spots \ W
    BY <1>2, <1>4
  <2>4. k2[own].kind = h[own].kind
    BY <1>8
  <2> QED
    BY <1>1, <1>8, <1>9, <2>2, <2>3, <2>4
<1>12. \A r \in R : Parts(k2, r) = Parts(h, r) /\ Parts(k, r) = Parts(h, r)
  BY <1>11 DEF Parts
<1>13. /\ Closed(k2, S) /\ Closed(k, S)
       /\ \A s \in S : k2[s].kind # "free"
       /\ \A s \in S : \A i \in DOMAIN k2[s].cells : ~Broken(k2[s].cells[i])
  BY <1>2, <1>5, <1>11, <1>12 DEF Closed
<1>14. Placed(k2, S, f) /\ Placed(k, S, f)
  <2>1. \A s \in S : f[s] \in Spots \ W
    BY <1>6, <1>7 DEF Spots
  <2>2. \A s \in S : k2[f[s]] = h[f[s]] /\ k[f[s]] = h[f[s]]
    BY <1>8, <1>9, <2>1
  <2>3. \A s \in S : f[s] \in {c \in Blocks : k2[c].kind = "free"}
    BY <1>6, <2>2
  <2>4. \A s \in S : f[s] \in {c \in Blocks : k[c].kind = "free"}
    BY <1>6, <2>2
  <2> QED
    BY <1>6, <2>3, <2>4 DEF Placed
<1> HIDE DEF S
<1>15. S \in SUBSET Spots
  BY <1>5
<1>16. /\ e2 \in Heaps
       /\ \A s \in S : /\ f[s] \in Blocks
                       /\ e2[f[s]].kind = k2[s].kind
                       /\ e2[f[s]].cells = Moved(k2[s].cells, f)
                       /\ Parts(e2, f[s]) = Copies(Parts(k2, s), f)
       /\ \A r \in Spots \ N : e2[r] = k2[r] /\ Parts(e2, r) = Parts(k2, r)
  BY <1>10, <1>13, <1>14, <1>15, CopiedIs
<1>17. /\ e \in Heaps
       /\ \A s \in S : /\ f[s] \in Blocks
                       /\ e[f[s]].kind = k[s].kind
                       /\ e[f[s]].cells = Moved(k[s].cells, f)
       /\ \A r \in Spots \ N : e[r] = k[r]
  BY <1>9, <1>13, <1>14, <1>15, CopiedIs
<1>18. own \notin N /\ S \subseteq R /\ own \notin S
  BY <1>3, <1>4, <1>7 DEF Copies, S
<1> HIDE DEF e, e2
<1>19. \A r \in Spots \ {own} : e[r] = e2[r]
  <2>1. ASSUME NEW s \in S PROVE e[f[s]] = e2[f[s]]
    <3>1. k[s] = k2[s] /\ f[s] \in Spots
      BY <1>11, <1>15, <1>16, <1>18 DEF Spots
    <3>2. e[f[s]].kind = e2[f[s]].kind /\ e[f[s]].cells = e2[f[s]].cells
      BY <1>16, <1>17, <3>1
    <3>3. /\ e[f[s]] \in [kind : {"free", "stack"} \cup Objects, cells : Seq(Cells)]
          /\ e2[f[s]] \in [kind : {"free", "stack"} \cup Objects, cells : Seq(Cells)]
      BY <1>16, <1>17, <3>1 DEF Heaps
    <3> QED
      BY <3>2, <3>3
  <2>2. \A r \in Spots \ N : r # own => e[r] = e2[r]
    BY <1>11, <1>16, <1>17
  <2> QED
    BY <2>1, <2>2 DEF Copies
<1>20. /\ m \in Seq(Cells) /\ Ptrs(m) = Copies(Parts(h, b), f)
       /\ DOMAIN m = DOMAIN h[b].cells
       /\ \A i \in DOMAIN h[b].cells : m[i] = MovedCell(h[b].cells[i], f)
  <2> DEFINE cells == h[b].cells
  <2>1. cells \in Seq(Cells) /\ Ptrs(cells) = Parts(h, b) /\ Ptrs(cells) \subseteq S
    BY <1>1, <1>5, PartsAreBlocks DEF Heaps, S
  <2> HIDE DEF cells
  <2>2. f \in [S -> Blocks] /\ \A s, t \in S : f[s] = f[t] => s = t
    BY <1>6 DEF S
  <2>3. /\ Moved(cells, f) \in Seq(Cells)
        /\ Len(Moved(cells, f)) = Len(cells)
        /\ DOMAIN Moved(cells, f) = DOMAIN cells
        /\ \A i \in DOMAIN cells : Moved(cells, f)[i] = MovedCell(cells[i], f)
        /\ Ptrs(Moved(cells, f)) = Copies(Ptrs(cells), f)
    BY ONLY <1>15, <2>1, <2>2, MovedIs
  <2> QED
    BY <2>1, <2>3 DEF cells
<1> HIDE DEF m
<1>21. Put(e, own, m) = g
  <2>1. /\ Put(e, own, m) \in Heaps /\ g \in Heaps
        /\ Put(e, own, m)[own] = [kind |-> e[own].kind, cells |-> m]
        /\ g[own] = [kind |-> e2[own].kind, cells |-> m]
        /\ \A r \in Spots \ {own} : Put(e, own, m)[r] = e[r]
        /\ \A r \in Spots \ {own} : g[r] = e2[r]
    BY <1>1, <1>16, <1>17, <1>20, PutIs
  <2>2. e[own].kind = e2[own].kind
    BY <1>1, <1>11, <1>16, <1>17, <1>18
  <2> DEFINE l == Put(e, own, m)
  <2> HIDE DEF g, l
  <2>3. \A r \in Spots : l[r] = g[r]
    BY <1>19, <2>1, <2>2 DEF l
  <2>4. l \in Heaps
    BY <2>1 DEF l
  <2>5. l = g
    BY <2>1, <2>3, <2>4 DEF Heaps
  <2> QED
    BY <2>5 DEF l
<1>22. Forest(e2, Copies(Parts(h, b), f))
  <2>1. Ones(k2, S) = Parts(h, b)
    <3>1. ASSUME NEW c \in Parts(h, b), NEW q \in S, c \in Parts(k2, q) PROVE FALSE
      <4>1. c \in Parts(h, q) /\ q # b /\ q \in Spots
        BY <1>12, <1>15, <1>18, <3>1 DEF S
      <4> QED
        BY <1>1, <3>1, <4>1 DEF Forest, Sole
    <3>2. ASSUME NEW s \in S, s \notin Parts(h, b) PROVE \E q \in S : s \in Parts(k2, q)
      <4>1. s \in R /\ s # b
        BY DEF S
      <4>2. PICK q \in R : s \in Parts(h, q)
        BY <1>1, <4>1, OwnedFromInside DEF R
      <4>3. q \in S /\ s \in Parts(k2, q)
        BY <1>12, <3>2, <4>2 DEF S
      <4> QED
        BY <4>3
    <3>3. Parts(h, b) \subseteq S
      BY <1>5
    <3> QED
      BY <3>1, <3>2, <3>3 DEF Ones
  <2>2. S \in SUBSET (Spots \ Variables)
    BY <1>5
  <2>3. Forest(e2, {} \cup Copies(Ones(k2, S), f))
    BY <1>8, <1>13, <1>14, <2>2, CopiedForest DEF e2
  <2>4. {} \cup Copies(Ones(k2, S), f) = Copies(Parts(h, b), f)
    BY <2>1
  <2> QED
    BY <2>3, <2>4
<1>23. Tidy(own, [kind |-> e2[own].kind, cells |-> m]) /\ Fits(e2, m)
  <2>1. \A c \in S : e2[f[c]].kind = h[c].kind
    BY <1>11, <1>16, <1>18
  <2>2. e2[own].kind = h[own].kind
    BY <1>1, <1>11, <1>16, <1>18
  <2>3. h[own].kind \in {"stack"} \cup Objects
    OBVIOUS
  <2>4. f \in [S -> Blocks] /\ \A s, t \in S : f[s] = f[t] => s = t
    BY <1>6 DEF S
  <2>5. Parts(h, b) \subseteq S
    BY <1>5
  <2>6. Tidy(own, [kind |-> h[own].kind, cells |-> m]) /\ Fits(e2, m)
    BY ONLY Forest(h, {}), b \in Spots \ Variables, own \in Blocks,
       <1>15, <1>16, <2>1, <2>3, <2>4, <2>5, MovedRoom DEF m
  <2> QED
    BY <2>2, <2>6
<1>24. Forest(g, {})
  <2>1. N \in SUBSET Blocks /\ Closed(e2, N) /\ Copies(Parts(h, b), f) \subseteq N
    <3>1. \A s \in S : Parts(e2, f[s]) = Copies(Parts(h, s), f) /\ Parts(h, s) \subseteq S
      BY <1>5, <1>12, <1>16, <1>18 DEF Closed
    <3>2. Parts(h, b) \subseteq S
      BY <1>5
    <3> QED
      BY <1>16, <3>1, <3>2 DEF Closed, Copies
  <2>2. Parts(e2, own) = {}
    <3>1. e2[own].cells = <<>>
      BY <1>1, <1>8, <1>16, <1>18
    <3> QED
      BY <1>1, <1>16, <3>1, PartsAreBlocks
  <2> DEFINE O == Copies(Parts(h, b), f)
  <2>3. Ptrs(m) \subseteq Parts(e2, own) \cup (O \cap N)
    BY <1>20, <2>1
  <2>4. Forest(e2, O)
    BY <1>22
  <2> HIDE DEF O, N
  <2>5. Forest(g, (O \cup Parts(e2, own)) \ Ptrs(m))
    BY <1>1, <1>18, <1>20, <1>23, <2>1, <2>3, <2>4, PutForest
  <2>6. (O \cup Parts(e2, own)) \ Ptrs(m) = {}
    BY <1>20, <2>2 DEF O
  <2> QED
    BY <2>5, <2>6
<1>25. /\ g \in Heaps /\ g[own] = [kind |-> e2[own].kind, cells |-> m]
       /\ \A r \in Spots \ {own} : g[r] = e2[r]
  BY <1>1, <1>16, <1>20, PutIs
<1> HIDE DEF g
<1>26. ASSUME NEW x \in Places(g), Broken(Cell(g, x))
       PROVE  \E y \in Places(h) : Broken(Cell(h, y))
  <2>1. x[1] \in Spots /\ x[2] \in DOMAIN g[x[1]].cells /\ x = <<x[1], x[2]>>
    BY <1>25, PlaceIs
  <2>2. CASE x[1] = own
    <3>1. x[2] \in DOMAIN m /\ Broken(m[x[2]])
      BY <1>25, <1>26, <2>1, <2>2 DEF Cell
    <3> DEFINE c == h[b].cells[x[2]]
    <3>2. x[2] \in DOMAIN h[b].cells /\ Broken(MovedCell(c, f))
      BY <1>20, <3>1
    <3>3. h[b].cells \in Seq(Cells) /\ Ptrs(h[b].cells) = Parts(h, b)
      BY <1>1, PartsAreBlocks DEF Heaps
    <3>4. c.ptr # Nowhere => c.ptr \in S
      BY <1>5, <3>2, <3>3 DEF Ptrs
    <3>5. \A s \in S : f[s] # Nowhere
      BY <1>16, VariantAssumption
    <3>6. Broken(c)
      BY <3>2, <3>4, <3>5 DEF Broken, MovedCell
    <3> QED
      BY <1>2, <3>2, <3>6
  <2>3. CASE x[1] # own
    <3>1. x \in Places(e2) /\ Cell(g, x) = Cell(e2, x)
      BY <1>16, <1>25, <2>1, <2>3, PlaceIs DEF Cell
    <3>2. x \in Places(k2) /\ Cell(k2, x) = Cell(e2, x)
      BY <1>10, <1>13, <1>14, <1>15, <1>26, <3>1, CopiedCells DEF e2
    <3>3. x[2] \in DOMAIN k2[x[1]].cells
      BY <1>10, <3>2, PlaceIs
    <3>4. x[1] \notin W
      BY <1>8, <2>3, <3>3 DEF Free
    <3>5. x \in Places(h) /\ Cell(h, x) = Cell(k2, x)
      BY <1>1, <1>8, <2>1, <3>3, <3>4, PlaceIs DEF Cell
    <3> QED
      BY <1>26, <3>1, <3>2, <3>5
  <2> QED
    BY <2>2, <2>3
<1>27. /\ Forest(Put(e, own, m), {})
       /\ \A x \in Places(Put(e, own, m)) : Broken(Cell(Put(e, own, m), x)) =>
            \E y \in Places(h) : Broken(Cell(h, y))
  BY <1>21, <1>24, <1>26
<1> QED
  BY <1>27 DEF e, k, m, W

LEMMA AssignPayloadStep ==
  ASSUME VariantInv, ~undefined, NEW at \in Places(heap), NEW b \in Blocks \cup Objects,
         heap[b].kind \in Objects, AssignPayload(at, b)
  PROVE  VariantInv'
<1> DEFINE type == heap[b].kind
           own == Cell(heap, at).ptr
           g == Typed(Cleared(heap, at), at, type)
<1>1. /\ Forest(heap, {}) /\ heap \in Heaps
      /\ \A x \in Places(heap) : Broken(Cell(heap, x)) => threw
      /\ overlapped \in BOOLEAN /\ threw \in BOOLEAN
  BY InvFacts
<1>2. overlapped' = (overlapped \/ (own # Nowhere /\ Overlap(own, b))
                                \/ at[1] \in Owned(heap, b))
  BY DEF AssignPayload
<1>3. overlapped' \in BOOLEAN
  BY <1>2
<1>4. b \in Spots \ Variables
  BY VariantAssumption DEF Spots
<1>5. CASE Cell(heap, at).type # type /\ NewPayload(g, at, type, b)
  <2>1. /\ Forest(g, {}) /\ at \in Places(g)
        /\ Cell(g, at) = [type |-> type, ptr |-> Nowhere]
        /\ \A x \in Places(g) \ {at} : x \in Places(heap) /\ Cell(g, x) = Cell(heap, x)
    <3>1. type \in {"Invalid"} \cup Plain \cup Objects
      OBVIOUS
    <3> HIDE DEF type
    <3> QED
      BY ONLY <1>1, <3>1, at \in Places(heap), RetypedForest
  <2>2. ASSUME ~Readable(g, b, type) PROVE overlapped' \/ threw
    <3>1. threw \/ b \in OwnedBy(heap, Cell(heap, at)) \/ at[1] \in Owned(heap, b)
      BY <2>2, NotReadable
    <3>2. ASSUME b \in OwnedBy(heap, Cell(heap, at)) PROVE own # Nowhere /\ Overlap(own, b)
      <4>1. own # Nowhere /\ b \in Owned(heap, own)
        BY <3>2 DEF OwnedBy, Owned
      <4>2. heap[own].kind = Cell(heap, at).type
        <5>1. at[1] \in Spots /\ at[2] \in DOMAIN heap[at[1]].cells
          BY <1>1, PlaceIs
        <5> QED
          BY <1>1, <4>1, <5>1 DEF Forest, Fits, Cell
      <4> QED
        BY <1>5, <4>1, <4>2 DEF Overlap
    <3> QED
      BY <1>2, <3>1, <3>2
  <2>3. \A x \in Places(g) \ {at} : Broken(Cell(g, x)) => threw
    BY <1>1, <2>1
  <2>4. b \in Blocks \cup Objects \cup {Nowhere} /\ type \in Objects
    OBVIOUS
  <2> HIDE DEF g, type
  <2> QED
    BY <1>3, <1>5, <2>1, <2>2, <2>3, <2>4, NewPayloadStep
<1>6. CASE Cell(heap, at).type = type /\ AssignInPlace(own, b)
  <2>1. (own = Nowhere /\ threw) \/ (own \in Blocks /\ heap[own].kind = type)
    BY <1>6, PointerIs
  <2>2. CASE (own = Nowhere \/ Overlap(own, b)) /\ Undefined
    <3>1. overlapped' \/ threw
      <4>1. own \in Blocks => own # Nowhere
        BY VariantAssumption
      <4> QED
        BY <1>2, <2>1, <2>2, <4>1
    <3> QED
      BY <1>3, <2>2, <3>1, UndefinedStep
  <2>3. CASE own = b /\ UNCHANGED <<heap, undefined, threw>>
    BY <1>1, <1>3, <2>3, DefinedStep
  <2>4. CASE ~Readable(heap, b, heap[b].kind) /\ Undefined
    BY <1>3, <2>4, ReadableUnlessBroken, UndefinedStep
  <2>5. CASE /\ own \notin {b, Nowhere} /\ ~Overlap(own, b)
             /\ Readable(heap, b, heap[b].kind)
             /\ \E f \in Placements(heap, Owned(heap, b) \ {b}) :
                  heap' = [Copied(Freed(heap, Owned(heap, own) \ {own}), f)
                             EXCEPT ![own].cells = Moved(heap[b].cells, f)]
             /\ UNCHANGED <<undefined, threw>>
    <3>1. PICK f \in Placements(heap, Owned(heap, b) \ {b}) :
                 heap' = [Copied(Freed(heap, Owned(heap, own) \ {own}), f)
                            EXCEPT ![own].cells = Moved(heap[b].cells, f)]
      BY <2>5
    <3> DEFINE new == Put(Copied(Freed(heap, Owned(heap, own) \ {own}), f), own,
                          Moved(heap[b].cells, f))
    <3>2. heap' = new
      BY <3>1 DEF Put
    <3>3. /\ own \in Blocks /\ heap[own].kind \in Objects /\ own # b
          /\ own \notin Owned(heap, b) /\ b \notin Owned(heap, own)
      BY <2>1, <2>5 DEF Overlap
    <3>4. Readable(heap, b, heap[b].kind)
      BY <2>5
    <3> HIDE DEF own, type
    <3>5. /\ Forest(new, {})
          /\ \A x \in Places(new) : Broken(Cell(new, x)) =>
               \E y \in Places(heap) : Broken(Cell(heap, y))
      BY <1>1, <1>4, <3>3, <3>4, InPlaceForest
    <3> HIDE DEF new
    <3>6. \A x \in Places(new) : Broken(Cell(new, x)) => threw
      BY <1>1, <3>5
    <3> QED
      BY <1>1, <1>3, <2>5, <3>2, <3>5, <3>6, DefinedStep
  <2> QED
    BY <1>6, <2>2, <2>3, <2>4, <2>5 DEF AssignInPlace
<1> QED
  BY <1>5, <1>6 DEF AssignPayload

-----------------------------------------------------------------------------
LEMMA VariantInvHolds == VariantSpec => []VariantInv
<1>1. VariantInit => VariantInv
  <2> SUFFICES ASSUME VariantInit PROVE VariantInv
    OBVIOUS
  <2>1. DOMAIN heap = Spots
    BY DEF VariantInit, Spots
  <2>2. ASSUME NEW q \in Spots
        PROVE  /\ heap[q] \in [kind : {"free", "stack"} \cup Objects, cells : Seq(Cells)]
               /\ q \in Blocks => heap[q].kind = "free"
               /\ heap[q].kind = "free" => heap[q].cells = <<>>
               /\ heap[q].cells = <<>> \/ (q \in Variables /\ heap[q].cells = <<Nothing>>)
    <3>1. Nothing \in Cells /\ <<Nothing>> \in Seq(Cells) /\ <<>> \in Seq(Cells)
      BY DEF Nothing, Cells
    <3>2. CASE q \in Blocks
      <4>1. heap[q] = [kind |-> "free", cells |-> <<>>]
        BY <3>2, VariantAssumption DEF VariantInit, Free, Spots
      <4> QED
        BY <3>1, <4>1
    <3>3. CASE q \in Variables
      <4>1. heap[q] = [kind |-> "stack", cells |-> <<Nothing>>] /\ q \notin Blocks
        BY <3>3, VariantAssumption DEF VariantInit, Spots
      <4> QED
        BY <3>1, <3>3, <4>1
    <3>4. CASE q \in Objects
      <4>1. heap[q] = [kind |-> q, cells |-> <<>>] /\ q \notin Blocks
        BY <3>4, VariantAssumption DEF VariantInit, Spots
      <4> QED
        BY <3>1, <3>4, <4>1
    <3> QED
      BY <3>2, <3>3, <3>4 DEF Spots
  <2>3. heap \in Heaps
    <3>1. heap = [q \in Spots |-> heap[q]]
      BY <2>1 DEF VariantInit, Spots
    <3> QED
      BY <2>2, <3>1 DEF Heaps
  <2>4. DOMAIN <<>> = {} /\ DOMAIN <<Nothing>> = {1} /\ <<Nothing>>[1] = Nothing
    OBVIOUS
  <2>5. ASSUME NEW q \in Spots, NEW i \in DOMAIN heap[q].cells
        PROVE  heap[q].cells[i] = Nothing /\ q \in Variables /\ i = 1
    <3>1. heap[q].cells = <<>> \/ (q \in Variables /\ heap[q].cells = <<Nothing>>)
      BY <2>2
    <3> QED
      BY ONLY <2>4, <2>5, <3>1
  <2>6. \A q \in Spots : Parts(heap, q) = {}
    BY <2>5 DEF Parts, Nothing
  <2>7. ASSUME NEW q \in Spots PROVE Tidy(q, heap[q]) /\ Fits(heap, heap[q].cells)
    <3>1. \A i \in DOMAIN heap[q].cells : heap[q].cells[i].ptr = Nowhere /\ i = 1
      BY <2>5 DEF Nothing
    <3>2. Len(heap[q].cells) <= MaxElements \/ q \in Variables
      <4>1. heap[q].cells = <<>> \/ q \in Variables
        BY <2>2
      <4> QED
        BY <4>1, VariantAssumption
    <3>3. heap[q].kind = "free" => heap[q].cells = <<>>
      BY <2>2
    <3>4. q \in Variables => Len(heap[q].cells) = 1
      <4>1. q \in Variables => heap[q].cells = <<Nothing>>
        BY VariantAssumption DEF VariantInit
      <4> QED
        BY <4>1
    <3> QED
      BY <3>1, <3>2, <3>3, <3>4 DEF Tidy, Fits
  <2>8. Sole(heap)
    BY <2>6 DEF Sole
  <2>9. KeptBut(heap, {})
    <3>1. ASSUME NEW b \in Blocks PROVE heap[b].kind = "free"
      <4>1. b \in Spots
        BY DEF Spots
      <4> QED
        BY <2>2, <4>1
    <3> QED
      BY <3>1 DEF KeptBut
  <2>10. Rooted(heap)
    BY <2>6 DEF Rooted, Spots
  <2>13. Grounded(heap)
    BY <2>6 DEF Grounded, Spots
  <2>11. Forest(heap, {})
    BY <2>3, <2>7, <2>8, <2>9, <2>10, <2>13 DEF Forest
  <2>12. BrokenAfter
    <3>1. ASSUME NEW x \in Places(heap) PROVE ~Broken(Cell(heap, x))
      <4>1. Cell(heap, x) = Nothing
        BY <2>3, <2>5, PlaceIs DEF Cell
      <4> QED
        BY <4>1, VariantAssumption DEF Broken, Nothing
    <3> QED
      BY <3>1 DEF BrokenAfter
  <2> QED
    BY <2>11, <2>12 DEF VariantInit, VariantInv, DefinedUnlessOverlap
<1>2. VariantInv /\ [VariantNext]_variantVars => VariantInv'
  <2> SUFFICES ASSUME VariantInv, [VariantNext]_variantVars PROVE VariantInv'
    OBVIOUS
  <2>1. ASSUME NEW at \in Places(heap), NEW type \in Plain, ~undefined, AssignPlain(at, type)
        PROVE  VariantInv'
    BY <2>1, AssignPlainStep
  <2>2. ASSUME NEW at \in Places(heap), NEW from \in Places(heap), ~undefined,
               AssignVariant(at, from)
        PROVE  VariantInv'
    BY <2>2, AssignVariantStep
  <2>3. ASSUME NEW at \in Places(heap), NEW b \in Blocks \cup Objects, ~undefined,
               heap[b].kind \in Objects, AssignPayload(at, b)
        PROVE  VariantInv'
    BY <2>3, AssignPayloadStep
  <2>4. ASSUME NEW at \in Places(heap), ~undefined, Clear(at) PROVE VariantInv'
    BY <2>4, ClearStep
  <2>5. ASSUME NEW at \in Places(heap), ~undefined, Erase(at) PROVE VariantInv'
    BY <2>5, EraseStep
  <2>6. ASSUME NEW b \in Blocks, ~undefined, Insert(b) PROVE VariantInv'
    BY <2>6, InsertStep
  <2>7. ASSUME NEW b \in Blocks, NEW from \in Places(heap), ~undefined, PushBack(b, from)
        PROVE  VariantInv'
    BY <2>7, PushBackStep
  <2>8. CASE UNCHANGED variantVars
    BY <2>8 DEF variantVars, VariantInv, BrokenAfter, DefinedUnlessOverlap
  <2> QED
    BY <2>1, <2>2, <2>3, <2>4, <2>5, <2>6, <2>7, <2>8
       DEF VariantNext, Operation, Change
<1> QED
  BY <1>1, <1>2, PTL DEF VariantSpec

-----------------------------------------------------------------------------
(* A Variant without payload points to none; a list or map is not longer   *)
(* than the program makes it; only Variant's own types occur: what the     *)
(* cases of Variant::clear() and Variant::initFrom() rely on.              *)
THEOREM VariantTyped == VariantSpec => []VariantTypeOK
<1>1. VariantInv => VariantTypeOK
  <2> SUFFICES ASSUME VariantInv PROVE VariantTypeOK
    OBVIOUS
  <2>1. heap \in Heaps /\ DOMAIN heap = Spots
    BY DEF VariantInv, Forest, Heaps
  <2>2. ASSUME NEW b \in Spots
        PROVE  /\ heap[b].kind \in {"free", "stack"} \cup Objects
               /\ Len(heap[b].cells) <= MaxElements \/ b \in Variables
    BY <2>1 DEF VariantInv, Forest, Tidy, Heaps
  <2>3. ASSUME NEW b \in Spots, NEW i \in DOMAIN heap[b].cells
        PROVE  /\ heap[b].cells[i].type \in {"Invalid"} \cup Plain \cup Objects
               /\ heap[b].cells[i].ptr \in
                    IF heap[b].cells[i].type \in Objects THEN Blocks \cup {Nowhere}
                                                         ELSE {Nowhere}
    <3>1. heap[b].cells \in Seq(Cells)
      BY <2>1 DEF Heaps
    <3>2. heap[b].cells[i] \in Cells
      BY <3>1
    <3>3. heap[b].cells[i].type \notin Objects => heap[b].cells[i].ptr = Nowhere
      BY DEF VariantInv, Forest, Tidy
    <3> QED
      BY <3>2, <3>3 DEF Cells
  <2> QED
    BY <2>1, <2>2, <2>3 DEF VariantTypeOK, VariantInv
<1> QED
  BY <1>1, VariantInvHolds, PTL

(* Each string, list and map on the heap belongs to exactly one Variant,   *)
(* which has its type and is not inside it: no sequence of assignments,    *)
(* insertions and removals makes Variant::clear() (Variant.cpp:159) delete *)
(* one twice, or leaves one that no clear() will delete, and an allocation *)
(* that failed is no exception.                                            *)
THEOREM PayloadsOwned == VariantSpec => []EachPayloadOwned
<1>1. VariantInv => EachPayloadOwned
  <2> SUFFICES ASSUME VariantInv PROVE EachPayloadOwned
    OBVIOUS
  <2>1. heap \in Heaps /\ Forest(heap, {})
    BY DEF VariantInv, Forest
  <2>2. ASSUME NEW b \in Blocks, heap[b].kind # "free"
        PROVE  \E at \in Places(heap) : /\ Owners(b) = {at}
                                        /\ Cell(heap, at).type = heap[b].kind
                                        /\ at[1] # b
    <3>1. PICK q \in Spots : b \in Parts(heap, q)
      BY <2>1, <2>2 DEF Forest, KeptBut
    <3>2. PICK at \in Places(heap) : at[1] = q /\ Cell(heap, at).ptr = b
      BY <2>1, <3>1, PlaceIs
    <3>3. b # Nowhere /\ b \in Spots
      BY VariantAssumption DEF Spots
    <3>4. \A x \in Places(heap) : Cell(heap, x).ptr = b => x = at
      BY <2>1, <3>2, <3>3, SolePlace
    <3>5. Owners(b) = {at}
      BY <3>2, <3>4 DEF Owners
    <3>6. Cell(heap, at).type = heap[b].kind
      <4>1. at[1] \in Spots /\ at[2] \in DOMAIN heap[at[1]].cells
        BY <2>1, PlaceIs
      <4>2. Fits(heap, heap[at[1]].cells)
        BY <2>1, <4>1 DEF Forest
      <4> QED
        BY <3>2, <3>3, <4>1, <4>2 DEF Fits, Cell
    <3>7. at[1] # b
      <4>1. Rooted(heap) /\ {b} \in SUBSET Blocks /\ {b} # {}
        BY <2>1 DEF Forest
      <4>2. b \notin Parts(heap, b)
        BY <4>1 DEF Rooted
      <4> QED
        BY <3>1, <3>2, <4>2
    <3> QED
      BY <3>5, <3>6, <3>7
  <2>3. ASSUME NEW at \in Places(heap), Cell(heap, at).ptr # Nowhere
        PROVE  heap[Cell(heap, at).ptr].kind # "free"
    <3>1. at[1] \in Spots /\ Cell(heap, at).ptr \in Parts(heap, at[1])
      BY <2>1, <2>3, PlaceIs
    <3> QED
      BY <2>1, <3>1, PartsUsed
  <2>4. \A at \in Places(heap) : Broken(Cell(heap, at)) => threw
    BY DEF VariantInv, BrokenAfter
  <2> QED
    BY <2>2, <2>3, <2>4 DEF EachPayloadOwned
<1> QED
  BY <1>1, VariantInvHolds, PTL

(* A program none of whose assignments is between a Variant and a part of  *)
(* it, and whose allocations succeed, never makes the assignments of       *)
(* Variant.cpp:70-152 read freed memory or dereference a null m_data.      *)
THEOREM UndefinedNeedsOverlap == VariantSpec => []DefinedUnlessOverlap
<1>1. VariantInv => DefinedUnlessOverlap
  BY DEF VariantInv
<1> QED
  BY <1>1, VariantInvHolds, PTL

-----------------------------------------------------------------------------
(* What a step leaves alone: each of the three changes writes to one       *)
(* block, to what it frees, or to free blocks.                             *)
InUse(h, r) == r \in Blocks => h[r].kind # "free"

LEMMA WithElsewhere ==
  ASSUME NEW h, DOMAIN h = Spots, NEW at, NEW cell, NEW r \in Spots, r # at[1]
  PROVE  DOMAIN With(h, at, cell) = Spots /\ With(h, at, cell)[r] = h[r]
BY DEF With

LEMMA FreedElsewhere ==
  ASSUME NEW h, DOMAIN h = Spots, NEW D, NEW r \in Spots \ D
  PROVE  DOMAIN Freed(h, D) = Spots /\ Freed(h, D)[r] = h[r]
BY DEF Freed

LEMMA CopiedElsewhere ==
  ASSUME NEW h, DOMAIN h = Spots, NEW S, NEW f \in Placements(h, S),
         NEW r \in Spots, InUse(h, r)
  PROVE  DOMAIN Copied(h, f) = Spots /\ Copied(h, f)[r] = h[r]
<1>1. DOMAIN f = S /\ \A s \in S : f[s] \in Blocks /\ h[f[s]].kind = "free"
  BY DEF Placements
<1>2. ~\E s \in DOMAIN f : f[s] = r
  BY <1>1 DEF InUse
<1> QED
  BY <1>2 DEF Copied

LEMMA ClearedElsewhere ==
  ASSUME VariantInv, NEW at \in Places(heap), NEW r \in Spots \ Owned(heap, at[1])
  PROVE  /\ DOMAIN Cleared(heap, at) = Spots
         /\ Cleared(heap, at)[r] = heap[r]
         /\ at[1] \in Spots /\ r # at[1] /\ r # Cell(heap, at).ptr
         /\ r \notin OwnedBy(heap, Cell(heap, at))
<1>1. heap \in Heaps /\ DOMAIN heap = Spots
  BY InvFacts DEF Heaps
<1>2. /\ at[1] \in Spots
      /\ Cell(heap, at).ptr # Nowhere => Cell(heap, at).ptr \in Parts(heap, at[1])
  BY <1>1, PlaceIs
<1>3. at[1] \in Owned(heap, at[1]) /\ Closed(heap, Owned(heap, at[1]))
  BY <1>1, <1>2, OwnedClosed
<1>4. Cell(heap, at).ptr # Nowhere => Cell(heap, at).ptr \in Owned(heap, at[1]) \cap Spots
  <2>1. Parts(heap, at[1]) \subseteq Spots
    BY <1>1, <1>2, PartsAreBlocks DEF Spots
  <2> QED
    BY <1>2, <1>3, <2>1 DEF Closed
<1>5. OwnedBy(heap, Cell(heap, at)) \subseteq Owned(heap, at[1])
  <2>1. CASE Cell(heap, at).ptr = Nowhere
    BY <2>1 DEF OwnedBy, Owned
  <2>2. CASE Cell(heap, at).ptr # Nowhere
    BY <1>1, <1>3, <1>4, <2>2, OwnedLeast DEF OwnedBy
  <2> QED
    BY <2>1, <2>2
<1>6. r # Nowhere
  BY VariantAssumption DEF Spots
<1>7. /\ DOMAIN Freed(heap, OwnedBy(heap, Cell(heap, at))) = Spots
      /\ Freed(heap, OwnedBy(heap, Cell(heap, at)))[r] = heap[r]
  BY <1>1, <1>5, FreedElsewhere
<1>8. r # at[1]
  BY <1>3
<1> QED
  BY <1>2, <1>4, <1>5, <1>6, <1>7, <1>8, WithElsewhere DEF Cleared

LEMMA NewPayloadElsewhere ==
  ASSUME NEW h, DOMAIN h = Spots, NEW at, NEW type, NEW b, NewPayload(h, at, type, b),
         NEW r \in Spots, r # at[1], h[r] = heap[r], InUse(heap, r)
  PROVE  heap'[r] = heap[r]
<1>1. CASE Undefined
  BY <1>1 DEF Undefined
<1>2. CASE heap' = h
  BY <1>2
<1>3. InUse(h, r)
  BY DEF InUse
<1>4. ASSUME NEW f \in Placements(h, Owned(h, b)),
             heap' = With(Copied(h, f), at, [type |-> type, ptr |-> f[b]])
      PROVE  heap'[r] = heap[r]
  BY <1>3, <1>4, CopiedElsewhere, WithElsewhere
<1> QED
  BY <1>1, <1>2, <1>4 DEF NewPayload

LEMMA InitFromElsewhere ==
  ASSUME NEW h, DOMAIN h = Spots, NEW at, NEW cell, InitFrom(h, at, cell),
         NEW r \in Spots, r # at[1], h[r] = heap[r], InUse(heap, r)
  PROVE  heap'[r] = heap[r]
BY NewPayloadElsewhere DEF InitFrom

(* A step changes what is free and what belongs to one block or variable.  *)
Confined(x) ==
  \A r \in Spots \ Owned(heap, x) : InUse(heap, r) => heap'[r] = heap[r]

LEMMA AssignmentConfined ==
  ASSUME VariantInv, NEW at \in Places(heap),
         \/ \E type \in Plain : AssignPlain(at, type)
         \/ \E from \in Places(heap) : AssignVariant(at, from)
         \/ \E b \in Blocks \cup Objects : AssignPayload(at, b)
         \/ Clear(at) \/ Erase(at)
  PROVE  at[1] \in Spots /\ Confined(at[1])
<1>0. heap \in Heaps /\ DOMAIN heap = Spots
  BY InvFacts DEF Heaps
<1>00. at[1] \in Spots
  BY <1>0, PlaceIs
<1> SUFFICES ASSUME NEW r \in Spots \ Owned(heap, at[1]), InUse(heap, r)
             PROVE  heap'[r] = heap[r]
  BY <1>00 DEF Confined
<1> DEFINE g == Cleared(heap, at)
<1>1. /\ DOMAIN g = Spots /\ g[r] = heap[r]
      /\ r # at[1] /\ r # Cell(heap, at).ptr
      /\ r \notin OwnedBy(heap, Cell(heap, at))
  BY ClearedElsewhere
<1> HIDE DEF g
<1>2. ASSUME NEW type PROVE DOMAIN Typed(g, at, type) = Spots /\ Typed(g, at, type)[r] = heap[r]
  BY <1>1, WithElsewhere DEF Typed
<1>3. ASSUME NEW type \in Plain, AssignPlain(at, type) PROVE heap'[r] = heap[r]
  <2>1. Typed(heap, at, type)[r] = heap[r]
    BY <1>0, <1>1, WithElsewhere DEF Typed
  <2> QED
    BY <1>2, <1>3, <2>1 DEF AssignPlain, g
<1>4. ASSUME NEW from \in Places(heap), AssignVariant(at, from) PROVE heap'[r] = heap[r]
  <2>1. CASE heap' = heap
    BY <2>1
  <2>2. ASSUME InitFrom(Typed(g, at, Cell(g, from).type), at, Cell(g, from))
        PROVE  heap'[r] = heap[r]
    BY <1>1, <1>2, <2>2, InitFromElsewhere
  <2> QED
    BY <1>4, <2>1, <2>2 DEF AssignVariant, Undefined, g
<1>5. ASSUME NEW b \in Blocks \cup Objects, AssignPayload(at, b) PROVE heap'[r] = heap[r]
  <2> DEFINE type == heap[b].kind
             own == Cell(heap, at).ptr
  <2>1. CASE NewPayload(Typed(g, at, type), at, type, b)
    BY <1>1, <1>2, <2>1, NewPayloadElsewhere
  <2>2. CASE heap' = heap
    BY <2>2
  <2>3. ASSUME NEW f \in Placements(heap, Owned(heap, b) \ {b}),
               heap' = [Copied(Freed(heap, Owned(heap, own) \ {own}), f)
                          EXCEPT ![own].cells = Moved(heap[b].cells, f)]
        PROVE  heap'[r] = heap[r]
    <3>1. r \notin Owned(heap, own) /\ r # own
      BY <1>1 DEF OwnedBy
    <3> DEFINE e == Freed(heap, Owned(heap, own) \ {own})
    <3>2. DOMAIN e = Spots /\ e[r] = heap[r]
      BY <1>0, <3>1, FreedElsewhere
    <3>3. ~\E s \in DOMAIN f : f[s] = r
      BY DEF Placements, InUse
    <3>4. DOMAIN Copied(e, f) = Spots /\ Copied(e, f)[r] = e[r]
      BY <3>2, <3>3 DEF Copied
    <3> HIDE DEF e
    <3> QED
      BY <2>3, <3>1, <3>2, <3>4 DEF e
  <2> QED
    BY <1>5, <2>1, <2>2, <2>3 DEF AssignPayload, AssignInPlace, Undefined, g
<1>6. CASE Clear(at)
  BY <1>1, <1>6 DEF Clear, g
<1>7. CASE Erase(at)
  BY <1>1, <1>7 DEF Erase, g
<1> QED
  BY <1>3, <1>4, <1>5, <1>6, <1>7

LEMMA AppendConfined ==
  ASSUME VariantInv, NEW b \in Blocks,
         Insert(b) \/ \E from \in Places(heap) : PushBack(b, from)
  PROVE  b \in Spots /\ Confined(b)
<1>1. heap \in Heaps /\ DOMAIN heap = Spots /\ b \in Spots
  BY InvFacts DEF Heaps, Spots
<1> SUFFICES ASSUME NEW r \in Spots \ Owned(heap, b), InUse(heap, r)
             PROVE  heap'[r] = heap[r]
  BY <1>1 DEF Confined
<1>2. r # b
  BY <1>1, OwnedClosed
<1>3. CASE Insert(b)
  BY <1>1, <1>2, <1>3 DEF Insert
<1>4. ASSUME NEW from \in Places(heap), PushBack(b, from) PROVE heap'[r] = heap[r]
  <2> DEFINE cell == Cell(heap, from)
  <2>1. CASE heap' = heap
    BY <2>1
  <2>2. CASE heap' = [heap EXCEPT ![b].cells = Append(@, cell)]
    BY <1>1, <1>2, <2>2
  <2>3. ASSUME NEW f \in Placements(heap, Owned(heap, cell.ptr)),
               heap' = [Copied(heap, f) EXCEPT ![b].cells =
                          Append(@, [cell EXCEPT !.ptr = f[@]])]
        PROVE  heap'[r] = heap[r]
    <3>1. DOMAIN Copied(heap, f) = Spots /\ Copied(heap, f)[r] = heap[r]
      BY <1>1, CopiedElsewhere
    <3> QED
      BY <1>2, <2>3, <3>1
  <2> QED
    BY <1>4, <2>1, <2>2, <2>3 DEF PushBack, Undefined
<1> QED
  BY <1>3, <1>4

(* What belongs to two belongs to a variable only by way of the other one. *)
LEMMA VariablesApart ==
  ASSUME VariantInv, NEW v \in Variables, NEW x \in Spots,
         Owned(heap, x) \cap Owned(heap, v) # {}
  PROVE  x \in Owned(heap, v)
<1>1. Forest(heap, {}) /\ heap \in Heaps /\ v \in Spots
  BY InvFacts DEF Spots
<1>2. /\ v \in Owned(heap, v)
      /\ Owned(heap, v) \subseteq Blocks \cup {v}
      /\ Owned(heap, x) \subseteq Blocks \cup {x}
  BY <1>1, OwnedClosed
<1>3. v \notin Blocks
  BY VariantAssumption
<1> SUFFICES ASSUME x # v, x \notin Owned(heap, v) PROVE FALSE
  BY <1>2
<1>4. v \notin Owned(heap, x)
  BY <1>2, <1>3
<1> QED
  BY <1>1, <1>4, OwnedDisjoint

LEMMA OwnedUsed ==
  ASSUME VariantInv, NEW v \in Variables
  PROVE  \A b \in Owned(heap, v) : b \in Spots /\ InUse(heap, b)
<1>1. Forest(heap, {}) /\ heap \in Heaps /\ v \in Spots
  BY InvFacts DEF Spots
<1>2. Owned(heap, v) \subseteq Blocks \cup {v}
  BY <1>1, OwnedClosed
<1>3. ASSUME NEW b \in Owned(heap, v), b # v PROVE heap[b].kind # "free"
  <2>1. PICK q \in Owned(heap, v) : b \in Parts(heap, q)
    BY <1>1, <1>3, OwnedFromInside
  <2>2. q \in Spots
    BY <1>1, <1>2 DEF Spots
  <2> QED
    BY <1>1, <2>1, <2>2, PartsUsed
<1>4. v \notin Blocks
  BY VariantAssumption
<1> QED
  BY <1>1, <1>2, <1>3, <1>4 DEF Spots, InUse

LEMMA OwnedSame ==
  ASSUME NEW h \in Heaps, NEW g \in Heaps, NEW b \in Spots,
         \A s \in Owned(h, b) : g[s] = h[s]
  PROVE  Owned(g, b) = Owned(h, b)
<1>1. /\ b \in Owned(h, b) /\ Closed(h, Owned(h, b))
      /\ b \in Owned(g, b) /\ Closed(g, Owned(g, b))
  BY OwnedClosed
<1>2. Closed(g, Owned(h, b))
  BY <1>1 DEF Closed, Parts
<1>3. Owned(g, b) \subseteq Owned(h, b)
  BY <1>1, <1>2, OwnedLeast
<1>4. Closed(h, Owned(g, b))
  BY <1>1, <1>3 DEF Closed, Parts
<1> QED
  BY <1>1, <1>3, <1>4, OwnedLeast

(* A variable has what it had, and all that belongs to it is as it was.    *)
Untouched(v) ==
  /\ Owned(heap', v) = Owned(heap, v)
  /\ \A b \in Owned(heap, v) : heap'[b] = heap[b]

(* A step changes what belongs to one variable at most.                    *)
OneVariableChanges ==
  [][\A v, w \in Variables : v # w => Untouched(v) \/ Untouched(w)]_variantVars

(* What is done in one block or variable is confined to it and what        *)
(* belongs to it.                                                          *)
LEMMA OperationConfined ==
  ASSUME VariantInv, NEW x, Operation(x)
  PROVE  x \in Spots /\ Confined(x)
<1>1. ASSUME NEW at \in Places(heap), at[1] = x, Change(at)
      PROVE  x \in Spots /\ Confined(x)
  BY <1>1, AssignmentConfined DEF Change
<1>2. ASSUME x \in Blocks, Insert(x) \/ \E from \in Places(heap) : PushBack(x, from)
      PROVE  x \in Spots /\ Confined(x)
  BY <1>2, AppendConfined
<1> QED
  BY <1>1, <1>2 DEF Operation

(* A variable that it does not belong to is not touched.                   *)
LEMMA OperationElsewhere ==
  ASSUME VariantInv, VariantInv', NEW x, Operation(x),
         NEW u \in Variables, x \notin Owned(heap, u)
  PROVE  Untouched(u)
<1>1. heap \in Heaps /\ heap' \in Heaps /\ u \in Spots
  BY DEF VariantInv, Forest, Spots
<1>2. x \in Spots /\ Confined(x)
  BY OperationConfined
<1>3. \A b \in Owned(heap, u) : b \in Spots /\ InUse(heap, b)
  BY OwnedUsed
<1>4. Owned(heap, x) \cap Owned(heap, u) = {}
  BY <1>2, VariablesApart
<1>5. \A b \in Owned(heap, u) : heap'[b] = heap[b]
  BY <1>2, <1>3, <1>4 DEF Confined
<1> QED
  BY <1>1, <1>5, OwnedSame DEF Untouched

LEMMA OtherUntouched ==
  ASSUME VariantInv, VariantInv', [VariantNext]_variantVars,
         NEW v \in Variables, NEW w \in Variables, v # w
  PROVE  Untouched(v) \/ Untouched(w)
<1>1. /\ heap \in Heaps /\ heap' \in Heaps
      /\ Forest(heap, {}) /\ Variables \subseteq Spots
  BY DEF VariantInv, Forest, Spots
<1>2. CASE UNCHANGED variantVars
  BY <1>2 DEF variantVars, Untouched
<1>3. CASE VariantNext
  <2>1. PICK x \in Spots : Operation(x)
    BY <1>3, OperationConfined DEF VariantNext
  <2>2. ASSUME NEW u \in Variables, x \notin Owned(heap, u) PROVE Untouched(u)
    BY <2>1, <2>2, OperationElsewhere
  <2>3. ~(x \in Owned(heap, v) /\ x \in Owned(heap, w))
    <3>1. v \in Owned(heap, v) /\ v \in Spots
      BY <1>1, OwnedClosed
    <3>2. Owned(heap, w) \subseteq Blocks \cup {w} /\ v \notin Blocks
      BY <1>1, VariantAssumption, OwnedClosed
    <3> QED
      BY <3>1, <3>2, VariablesApart
  <2> QED
    BY <2>2, <2>3
<1> QED
  BY <1>2, <1>3

(* Two variables of the program never share anything: an operator = that   *)
(* throws, or that assigns a part of one variable to a part of another, is *)
(* no exception (Variant.cpp:70-152, 373-395).                             *)
THEOREM VariablesShareNothing == VariantSpec => OneVariableChanges
<1>1. VariantInv /\ VariantInv' /\ [VariantNext]_variantVars =>
        \A v, w \in Variables : v # w => Untouched(v) \/ Untouched(w)
  BY OtherUntouched
<1> QED
  BY <1>1, VariantInvHolds, PTL DEF VariantSpec, OneVariableChanges

-----------------------------------------------------------------------------
(* The payload at c is a copy of the one that was at b: block by block the *)
(* same, with pointers to the copies.                                      *)
IsCopy(h, b, g, c) ==
  \E f \in [Owned(h, b) -> Owned(g, c)] :
    /\ f[b] = c
    /\ \A s, t \in Owned(h, b) : f[s] = f[t] => s = t
    /\ \A p \in Owned(g, c) : \E s \in Owned(h, b) : f[s] = p
    /\ \A s \in Owned(h, b) : /\ g[f[s]].kind = h[s].kind
                              /\ g[f[s]].cells = Moved(h[s].cells, f)

LEMMA FilledIsCopy ==
  ASSUME NEW h, Forest(h, {}), NEW type \in Objects, NEW at \in Places(h),
         Cell(h, at) = [type |-> type, ptr |-> Nowhere],
         NEW b \in Spots \ Variables, Readable(h, b, type),
         NEW f \in Placements(h, Owned(h, b))
  PROVE  LET g == With(Copied(h, f), at, [type |-> type, ptr |-> f[b]])
         IN  Cell(g, at) = [type |-> type, ptr |-> f[b]] /\ IsCopy(h, b, g, f[b])
<1> DEFINE S == Owned(h, b)
           e == Copied(h, f)
           cell == [type |-> type, ptr |-> f[b]]
           g == With(e, at, cell)
           N == Copies(S, f)
<1>1. h \in Heaps
  BY DEF Forest
<1>2. S \in SUBSET Spots /\ Closed(h, S) /\ b \in S
  BY <1>1, OwnedCanBeCopied, OwnedClosed DEF Readable
<1>3. Placed(h, S, f) /\ f \in [S -> Blocks] /\ \A s, t \in S : f[s] = f[t] => s = t
  BY DEF Placements, Placed
<1>4. /\ at[1] \in Spots /\ at[2] \in DOMAIN h[at[1]].cells /\ at = <<at[1], at[2]>>
  BY <1>1, PlaceIs
<1>5. at[1] \notin N
  <2>1. h[at[1]].kind # "free"
    BY <1>4 DEF Forest, Tidy
  <2> QED
    BY <1>3, <2>1 DEF Placed, Copies
<1>6. /\ e \in Heaps
      /\ \A s \in S : /\ f[s] \in Blocks
                      /\ e[f[s]].kind = h[s].kind
                      /\ e[f[s]].cells = Moved(h[s].cells, f)
                      /\ Parts(e, f[s]) = Copies(Parts(h, s), f)
      /\ \A r \in Spots \ N : e[r] = h[r]
  BY <1>1, <1>2, <1>3, CopiedIs
<1>7. cell \in Cells
  BY <1>2, <1>3 DEF Cells
<1> HIDE DEF e, cell, S
<1>8. at \in Places(e)
  <2>1. e[at[1]] = h[at[1]]
    BY <1>4, <1>5, <1>6
  <2> QED
    BY <1>4, <1>6, <2>1, PlaceIs
<1>9. g \in Heaps /\ Cell(g, at) = cell /\ \A r \in Spots \ {at[1]} : g[r] = e[r]
  BY <1>6, <1>7, <1>8, WithIs
<1> HIDE DEF g
<1>10. \A s \in S : /\ f[s] \in Spots /\ g[f[s]] = e[f[s]]
                    /\ Parts(g, f[s]) = Copies(Parts(h, s), f)
  <2>1. ASSUME NEW s \in S PROVE f[s] \in Spots /\ g[f[s]] = e[f[s]]
    BY <1>5, <1>6, <1>9 DEF Copies, Spots
  <2> QED
    BY <1>6, <2>1 DEF Parts
<1>11. Owned(g, f[b]) \subseteq N
  <2>1. f[b] \in N /\ f[b] \in Spots
    BY <1>2, <1>10 DEF Copies
  <2>2. Closed(g, N)
    BY <1>2, <1>10 DEF Closed, Copies
  <2> HIDE DEF N
  <2> QED
    BY <1>9, <2>1, <2>2, OwnedLeast
<1>12. \A s \in S : f[s] \in Owned(g, f[b])
  <2> DEFINE T == {s \in S : f[s] \in Owned(g, f[b])}
  <2>1. f[b] \in Owned(g, f[b]) /\ Closed(g, Owned(g, f[b]))
    BY <1>2, <1>9, <1>10, OwnedClosed
  <2>2. b \in T
    BY <1>2, <2>1
  <2>3. ASSUME NEW s \in T, NEW p \in Parts(h, s) PROVE p \in T
    <3>1. p \in S
      BY <1>2, <2>3 DEF Closed
    <3>2. f[p] \in Parts(g, f[s])
      BY <1>10, <2>3 DEF Copies
    <3> QED
      BY <2>1, <2>3, <3>1, <3>2 DEF Closed
  <2>4. Closed(h, T)
    BY <2>3 DEF Closed
  <2>5. T \subseteq S
    OBVIOUS
  <2> HIDE DEF T
  <2>6. S \subseteq T
    BY <1>1, <1>2, <2>2, <2>4, OwnedLeast DEF S
  <2> QED
    BY <2>6 DEF T
<1>13. f \in [S -> Owned(g, f[b])]
  BY <1>3, <1>12
<1>14. \A p \in Owned(g, f[b]) : \E s \in S : f[s] = p
  BY <1>11 DEF Copies
<1>15. \A s \in S : g[f[s]].kind = h[s].kind /\ g[f[s]].cells = Moved(h[s].cells, f)
  BY <1>6, <1>10
<1>16. IsCopy(h, b, g, f[b])
  BY <1>3, <1>13, <1>14, <1>15 DEF IsCopy, S
<1> QED
  BY <1>9, <1>16 DEF g, e, cell

(* Two Variants of which neither is a part of the other share nothing.     *)
LEMMA CopySourceApart ==
  ASSUME NEW h, NEW O, Forest(h, O), NEW at \in Places(h), NEW from \in Places(h),
         at # from, from[1] \notin OwnedBy(h, Cell(h, at)),
         at[1] \notin OwnedBy(h, Cell(h, from))
  PROVE  OwnedBy(h, Cell(h, at)) \cap OwnedBy(h, Cell(h, from)) = {}
<1> DEFINE a == Cell(h, at).ptr
           b == Cell(h, from).ptr
<1>1. h \in Heaps
  BY DEF Forest
<1>2. CASE a = Nowhere \/ b = Nowhere
  BY <1>2 DEF OwnedBy, Owned
<1>3. CASE a # Nowhere /\ b # Nowhere
  <2>1. a \in Spots /\ b \in Spots
    <3>1. Cell(h, at) \in Cells /\ Cell(h, from) \in Cells
      BY <1>1, PlaceIs
    <3> QED
      BY <1>3, <3>1 DEF Cells, Spots
  <2>2. a \notin OwnedBy(h, Cell(h, from)) /\ b \notin OwnedBy(h, Cell(h, at))
    BY OwnedApart
  <2> QED
    BY <2>1, <2>2, OwnedDisjoint DEF OwnedBy
<1> QED
  BY <1>2, <1>3

(* What operator =(const Variant&) does to a Variant that has nothing to   *)
(* do with the source: it has the type of the source and a copy of its     *)
(* payload, or the type alone when there was no memory for the copy.       *)
Assigned(at, from) ==
  /\ Cell(heap', at).type = Cell(heap, from).type
  /\ \/ Cell(heap, from).type \notin Objects
     \/ Cell(heap', at).ptr = Nowhere /\ threw'
     \/ Cell(heap, from).ptr # Nowhere /\
        IsCopy(heap, Cell(heap, from).ptr, heap', Cell(heap', at).ptr)

LEMMA AssignVariantCopies ==
  ASSUME VariantInv, NEW at \in Places(heap), NEW from \in Places(heap),
         AssignVariant(at, from), at # from, ~Inside(at, from), ~Inside(from, at),
         ~undefined'
  PROVE  Assigned(at, from)
<1> DEFINE cell == Cell(heap, from)
           type == cell.type
           b == cell.ptr
           e == Cleared(heap, at)
           D == OwnedBy(heap, Cell(heap, at))
           g == Typed(e, at, type)
<1>1. Forest(heap, {}) /\ heap \in Heaps /\ DOMAIN heap = Spots
  BY InvFacts DEF Heaps
<1>2. /\ cell \in Cells /\ from[1] \in Spots
      /\ at[1] \in Spots /\ from[1] \notin D
      /\ from[2] \in DOMAIN heap[from[1]].cells
  BY <1>1, PlaceIs DEF Inside
<1>3. Cell(e, from) = cell
  <2>1. \A x \in Places(heap) \ {at} : x[1] \notin D => Cell(e, x) = Cell(heap, x)
    BY <1>1, ClearedForest
  <2> HIDE DEF D, e
  <2> QED
    BY <1>2, <2>1
<1>4. InitFrom(g, at, cell)
  BY <1>3 DEF AssignVariant, Undefined
<1>5. /\ Forest(g, {}) /\ at \in Places(g)
      /\ Cell(g, at) = [type |-> type, ptr |-> Nowhere]
  <2>1. type \in {"Invalid"} \cup Plain \cup Objects
    BY <1>2 DEF Cells
  <2> HIDE DEF type
  <2> QED
    BY ONLY <1>1, <2>1, at \in Places(heap), RetypedForest
<1>6. ASSUME NEW r \in Spots, r # at[1], r \notin D PROVE g[r] = heap[r]
  <2>1. DOMAIN Freed(heap, D) = Spots /\ Freed(heap, D)[r] = heap[r]
    BY <1>1, <1>6, FreedElsewhere
  <2>2. DOMAIN e = Spots /\ e[r] = heap[r]
    BY <1>6, <2>1, WithElsewhere DEF Cleared
  <2> HIDE DEF e
  <2> QED
    BY <1>6, <2>2, WithElsewhere DEF Typed
<1>7. CASE type \notin Objects /\ heap' = g
  <2> HIDE DEF g
  <2> QED
    BY <1>5, <1>7 DEF Assigned
<1>8. CASE type \in Objects /\ NewPayload(g, at, type, b)
  <2>1. CASE heap' = g /\ threw' = TRUE
    <3> HIDE DEF g
    <3> QED
      BY <1>5, <2>1 DEF Assigned
  <2>2. ASSUME Readable(g, b, type),
               NEW f \in Placements(g, Owned(g, b)),
               heap' = With(Copied(g, f), at, [type |-> type, ptr |-> f[b]])
        PROVE  Assigned(at, from)
    <3>1. b # Nowhere /\ b \in Blocks /\ b \in Spots \ Variables
      BY <1>2, <2>2, VariantAssumption DEF Readable, Cells, Spots
    <3>2. Cell(heap', at) = [type |-> type, ptr |-> f[b]] /\ IsCopy(g, b, heap', f[b])
      <4> HIDE DEF g, type, b
      <4> QED
        BY <1>5, <1>8, <2>2, <3>1, FilledIsCopy
    <3>3. ASSUME NEW s \in Owned(heap, b) PROVE s \in Spots /\ g[s] = heap[s]
      <4>1. s # at[1]
        BY <3>3 DEF Inside, OwnedBy
      <4>2. s \in Spots
        BY <1>1, <3>1, <3>3, OwnedClosed DEF Spots
      <4>3. s \notin D
        BY <1>1, <1>2, <3>3, CopySourceApart DEF OwnedBy, Inside
      <4> QED
        BY <1>6, <4>1, <4>2, <4>3
    <3>4. g \in Heaps
      BY <1>5 DEF Forest
    <3> HIDE DEF g, b, type
    <3>5. Owned(g, b) = Owned(heap, b)
      BY <1>1, <3>1, <3>3, <3>4, OwnedSame
    <3>6. IsCopy(heap, b, heap', f[b])
      BY <3>2, <3>3, <3>5 DEF IsCopy
    <3> QED
      BY <3>1, <3>2, <3>6 DEF Assigned, b, type
  <2> QED
    BY <1>8, <2>1, <2>2 DEF NewPayload, Undefined
<1> QED
  BY <1>4, <1>7, <1>8 DEF InitFrom

AssignmentIsACopy ==
  [][\A at, from \in Places(heap) :
       /\ AssignVariant(at, from)
       /\ at # from /\ ~Inside(at, from) /\ ~Inside(from, at) /\ ~undefined'
       => Assigned(at, from)]_variantVars

(* Variant.cpp:70-78, 373-395: the copy is a deep one, whatever is in the  *)
(* source, and nothing of the source is lost or confused on the way.       *)
THEOREM AssignedIsACopy == VariantSpec => AssignmentIsACopy
<1>1. VariantInv =>
        \A at, from \in Places(heap) :
          /\ AssignVariant(at, from)
          /\ at # from /\ ~Inside(at, from) /\ ~Inside(from, at) /\ ~undefined'
          => Assigned(at, from)
  BY AssignVariantCopies
<1> QED
  BY <1>1, VariantInvHolds, PTL DEF AssignmentIsACopy

-----------------------------------------------------------------------------
(* Contents is by recursion on what is inside what.  That there is one     *)
(* function that its equation is true of, and no second one, follows from  *)
(* Grounded.                                                               *)

(* What Contents says of the payload at b, when of says what is in its     *)
(* parts.                                                                  *)
Row(h, of, b) ==
  [i \in DOMAIN h[b].cells |->
     <<h[b].cells[i].type,
       IF h[b].cells[i].ptr = Nowhere THEN <<>> ELSE of[h[b].cells[i].ptr]>>]

Solves(h, S, of) == of = [b \in S |-> Row(h, of, b)]

LEMMA RowSame ==
  ASSUME NEW h, NEW b, NEW of, NEW to, \A p \in Parts(h, b) : of[p] = to[p]
  PROVE  Row(h, of, b) = Row(h, to, b)
<1>1. \A i \in DOMAIN h[b].cells :
        h[b].cells[i].ptr # Nowhere => h[b].cells[i].ptr \in Parts(h, b)
  BY DEF Parts
<1>2. ASSUME NEW i \in DOMAIN h[b].cells
      PROVE  (IF h[b].cells[i].ptr = Nowhere THEN <<>> ELSE of[h[b].cells[i].ptr])
               = (IF h[b].cells[i].ptr = Nowhere THEN <<>> ELSE to[h[b].cells[i].ptr])
  BY <1>1
<1> QED
  BY <1>2 DEF Row

(* No two functions can solve the equation differently.                    *)
LEMMA SolutionsAgree ==
  ASSUME NEW h \in Heaps, Grounded(h), NEW S \in SUBSET Spots, NEW T \in SUBSET Spots,
         Closed(h, S), Closed(h, T), NEW of, Solves(h, S, of), NEW to, Solves(h, T, to)
  PROVE  \A b \in S \cap T : of[b] = to[b]
<1> DEFINE X == {b \in S \cap T : of[b] # to[b]}
<1> SUFFICES ASSUME X # {} PROVE FALSE
  OBVIOUS
<1>1. X \in SUBSET Spots
  OBVIOUS
<1>2. PICK b \in X : Parts(h, b) \cap X = {}
  <2> HIDE DEF X
  <2> QED
    BY <1>1, GroundedAnywhere
<1>3. \A p \in Parts(h, b) : of[p] = to[p]
  BY <1>2 DEF Closed
<1>4. Row(h, of, b) = Row(h, to, b)
  BY <1>3, RowSame
<1>5. of[b] = Row(h, of, b) /\ to[b] = Row(h, to, b)
  BY DEF Solves
<1> QED
  BY <1>4, <1>5

LEMMA SolutionExists ==
  ASSUME NEW h \in Heaps, Grounded(h)
  PROVE  \E of : Solves(h, Spots, of)
<1> DEFINE Local(b, S, of) == b \in S /\ S \subseteq Spots /\ Closed(h, S) /\ Solves(h, S, of)
           G == {b \in Spots : \E S, of : Local(b, S, of)}
           At(b, x) == \E S, of : Local(b, S, of) /\ x = of[b]
           W == [b \in G |-> CHOOSE x : At(b, x)]
<1>1. ASSUME NEW S, NEW of, S \subseteq Spots, Closed(h, S), Solves(h, S, of)
      PROVE  S \subseteq G /\ \A b \in S : W[b] = of[b]
  <2>1. ASSUME NEW b \in S PROVE b \in G /\ W[b] = of[b]
    <3>1. Local(b, S, of) /\ b \in G
      BY <1>1
    <3>2. At(b, of[b])
      BY <3>1
    <3>3. ASSUME NEW x, At(b, x) PROVE x = of[b]
      <4>1. PICK T, to : Local(b, T, to) /\ x = to[b]
        BY <3>3
      <4>2. S \in SUBSET Spots /\ T \in SUBSET Spots /\ b \in S \cap T
        BY <1>1, <4>1
      <4>3. of[b] = to[b]
        BY ONLY h \in Heaps, Grounded(h), <1>1, <4>1, <4>2, SolutionsAgree
      <4> QED
        BY <4>1, <4>3
    <3>4. W[b] = CHOOSE x : At(b, x)
      BY <3>1
    <3> HIDE DEF At, W, Local
    <3> QED
      BY <3>1, <3>2, <3>3, <3>4
  <2> QED
    BY <2>1
<1>2. G \subseteq Spots /\ Closed(h, G) /\ Solves(h, G, W)
  <2>1. ASSUME NEW b \in G
        PROVE  Parts(h, b) \subseteq G /\ W[b] = Row(h, W, b)
    <3>1. PICK S, of : Local(b, S, of)
      OBVIOUS
    <3>2. b \in S /\ S \subseteq Spots /\ Closed(h, S) /\ Solves(h, S, of)
      BY <3>1
    <3>3. Parts(h, b) \subseteq S /\ of[b] = Row(h, of, b)
      BY <3>2 DEF Closed, Solves
    <3> HIDE DEF W, G
    <3>4. S \subseteq G /\ \A c \in S : W[c] = of[c]
      BY ONLY <1>1, <3>2
    <3>5. Row(h, of, b) = Row(h, W, b)
      BY <3>3, <3>4, RowSame
    <3> QED
      BY <3>2, <3>3, <3>4, <3>5
  <2>2. W = [b \in G |-> W[b]]
    OBVIOUS
  <2>3. G \subseteq Spots
    OBVIOUS
  <2> HIDE DEF G, W
  <2> QED
    BY <2>1, <2>2, <2>3 DEF Closed, Solves
<1>3. G = Spots
  <2> DEFINE T == Spots \ G
  <2> SUFFICES ASSUME T # {} PROVE FALSE
    BY <1>2
  <2>1. T \in SUBSET Spots
    OBVIOUS
  <2>2. PICK c \in T : Parts(h, c) \cap T = {}
    <3> HIDE DEF T
    <3> QED
      BY <2>1, GroundedAnywhere
  <2>3. c \in Spots /\ c \notin G /\ Parts(h, c) \subseteq G
    <3>1. Parts(h, c) \subseteq Blocks
      BY PartsAreBlocks
    <3> QED
      BY <2>2, <3>1 DEF Spots
  <2> DEFINE S == G \cup {c}
             of == [b \in S |-> IF b = c THEN Row(h, W, c) ELSE W[b]]
  <2>4. S \subseteq Spots /\ Closed(h, S) /\ c \in S
    BY <1>2, <2>3 DEF Closed
  <2>5. \A b \in G : of[b] = W[b]
    BY <2>3
  <2>6. of[c] = Row(h, W, c) /\ of = [b \in S |-> of[b]]
    OBVIOUS
  <2>7. \A b \in G : W[b] = Row(h, W, b)
    BY <1>2 DEF Solves
  <2> HIDE DEF G, W, of
  <2>8. ASSUME NEW b \in S PROVE of[b] = Row(h, of, b)
    <3>1. Parts(h, b) \subseteq G
      BY <1>2, <2>3 DEF Closed
    <3>2. Row(h, of, b) = Row(h, W, b)
      BY <2>5, <3>1, RowSame
    <3> QED
      BY <2>5, <2>6, <2>7, <3>2
  <2>9. Solves(h, S, of)
    BY <2>6, <2>8 DEF Solves
  <2> HIDE DEF S
  <2>10. S \subseteq G
    BY <1>1, <2>4, <2>9
  <2> QED
    BY <2>3, <2>4, <2>10
<1> HIDE DEF G, W
<1> QED
  BY <1>2, <1>3

(* So Contents is what its definition says.                                *)
LEMMA ContentsIs ==
  ASSUME NEW h \in Heaps, Grounded(h)
  PROVE  \E of : Solves(h, Spots, of) /\ \A v \in Spots : Contents(h, v) = of[v]
<1> DEFINE of == CHOOSE x : Solves(h, Spots, x)
<1>1. Solves(h, Spots, of)
  <2>1. \E x : Solves(h, Spots, x)
    BY SolutionExists
  <2> HIDE DEF Solves
  <2> QED
    BY <2>1
<1>2. DOMAIN h = Spots
  BY DEF Heaps
<1>3. ASSUME NEW v \in Spots PROVE Contents(h, v) = of[v]
  BY <1>2 DEF Contents, Solves, Row
<1> QED
  BY <1>1, <1>3

(* The cells of t in g say what those of s in h say, with pointers to what *)
(* m makes of them.                                                        *)
Alike(h, s, g, t, m) ==
  /\ DOMAIN g[t].cells = DOMAIN h[s].cells
  /\ \A i \in DOMAIN h[s].cells :
       /\ g[t].cells[i].type = h[s].cells[i].type
       /\ g[t].cells[i].ptr = IF h[s].cells[i].ptr = Nowhere THEN Nowhere
                              ELSE m[h[s].cells[i].ptr]

LEMMA AlikeContents ==
  ASSUME NEW h \in Heaps, Grounded(h), NEW g \in Heaps, Grounded(g),
         NEW S \in SUBSET Spots, Closed(h, S), NEW m \in [S -> Spots],
         \A s \in S : Alike(h, s, g, m[s], m)
  PROVE  \A s \in S : Contents(g, m[s]) = Contents(h, s)
<1>1. PICK of : Solves(h, Spots, of) /\ \A v \in Spots : Contents(h, v) = of[v]
  BY ContentsIs
<1>2. PICK to : Solves(g, Spots, to) /\ \A v \in Spots : Contents(g, v) = to[v]
  BY ContentsIs
<1> DEFINE X == {s \in S : to[m[s]] # of[s]}
<1>3. X = {}
  <2> SUFFICES ASSUME X # {} PROVE FALSE
    OBVIOUS
  <2>1. X \in SUBSET Spots
    OBVIOUS
  <2>2. PICK s \in X : Parts(h, s) \cap X = {}
    <3> HIDE DEF X
    <3> QED
      BY <2>1, GroundedAnywhere
  <2>3. s \in S /\ to[m[s]] # of[s] /\ \A p \in Parts(h, s) : p \in S /\ to[m[p]] = of[p]
    BY <2>2 DEF Closed
  <2>4. of[s] = Row(h, of, s) /\ to[m[s]] = Row(g, to, m[s])
    BY <1>1, <1>2, <2>3 DEF Solves
  <2>5. DOMAIN g[m[s]].cells = DOMAIN h[s].cells
    BY <2>3 DEF Alike
  <2>6. ASSUME NEW i \in DOMAIN h[s].cells
        PROVE  <<g[m[s]].cells[i].type,
                 IF g[m[s]].cells[i].ptr = Nowhere THEN <<>> ELSE to[g[m[s]].cells[i].ptr]>>
                 = <<h[s].cells[i].type,
                     IF h[s].cells[i].ptr = Nowhere THEN <<>> ELSE of[h[s].cells[i].ptr]>>
    <3> DEFINE p == h[s].cells[i].ptr
               q == g[m[s]].cells[i].ptr
    <3>1. /\ g[m[s]].cells[i].type = h[s].cells[i].type
          /\ q = IF p = Nowhere THEN Nowhere ELSE m[p]
      BY <2>3 DEF Alike
    <3>2. p # Nowhere => p \in Parts(h, s)
      BY DEF Parts
    <3>3. p # Nowhere => q = m[p] /\ q # Nowhere /\ to[q] = of[p]
      BY <2>3, <3>1, <3>2, VariantAssumption DEF Spots
    <3> HIDE DEF p, q
    <3>4. (IF q = Nowhere THEN <<>> ELSE to[q]) = (IF p = Nowhere THEN <<>> ELSE of[p])
      BY <3>1, <3>3
    <3> QED
      BY <3>1, <3>4 DEF p, q
  <2>7. Row(g, to, m[s]) = Row(h, of, s)
    BY <2>5, <2>6 DEF Row
  <2> QED
    BY <2>3, <2>4, <2>7
<1> QED
  BY <1>1, <1>2, <1>3

LEMMA MovedAlike ==
  ASSUME NEW cells, NEW f, NEW i \in DOMAIN cells, NEW c \in Cells, cells[i] = c
  PROVE  /\ DOMAIN Moved(cells, f) = DOMAIN cells
         /\ Moved(cells, f)[i].type = c.type
         /\ Moved(cells, f)[i].ptr = IF c.ptr = Nowhere THEN Nowhere ELSE f[c.ptr]
<1>1. DOMAIN Moved(cells, f) = DOMAIN cells
  BY DEF Moved
<1>2. Moved(cells, f)[i] = IF c.ptr = Nowhere THEN c ELSE [c EXCEPT !.ptr = f[@]]
  BY DEF Moved
<1>3. CASE c.ptr = Nowhere
  BY <1>1, <1>2, <1>3
<1>4. CASE c.ptr # Nowhere
  <2>1. [c EXCEPT !.ptr = f[@]] = [type |-> c.type, ptr |-> f[c.ptr]]
    BY DEF Cells
  <2> QED
    BY <1>1, <1>2, <1>4, <2>1
<1> QED
  BY <1>3, <1>4

(* What nothing was done to has the value that it had.                     *)
LEMMA UntouchedContents ==
  ASSUME VariantInv, VariantInv', NEW w \in Variables, Untouched(w)
  PROVE  Contents(heap', w) = Contents(heap, w)
<1>1. /\ heap \in Heaps /\ heap' \in Heaps /\ Grounded(heap) /\ Grounded(heap')
      /\ w \in Spots
  BY DEF VariantInv, Forest, Spots
<1> DEFINE S == Owned(heap, w)
           m == [s \in S |-> s]
<1>2. w \in S /\ S \in SUBSET Spots /\ Closed(heap, S)
  BY <1>1, OwnedClosed DEF Spots
<1>3. \A s \in S : heap'[s] = heap[s]
  BY DEF Untouched
<1> HIDE DEF S
<1>4. m \in [S -> Spots] /\ \A s \in S : m[s] = s
  BY <1>2
<1> HIDE DEF m
<1>5. ASSUME NEW s \in S PROVE Alike(heap, s, heap', m[s], m)
  <2>1. \A i \in DOMAIN heap[s].cells :
          heap[s].cells[i].ptr # Nowhere => heap[s].cells[i].ptr \in S
    BY <1>2 DEF Closed, Parts
  <2> QED
    BY <1>3, <1>4, <2>1 DEF Alike
<1> QED
  BY <1>1, <1>2, <1>4, <1>5, AlikeContents

(* What belongs to the copy has the value of what it is a copy of.         *)
LEMMA CopyContents ==
  ASSUME NEW h \in Heaps, Grounded(h), NEW g \in Heaps, Grounded(g),
         NEW w \in Variables, NEW v \in Variables,
         DOMAIN h[w].cells = {1}, DOMAIN g[v].cells = {1},
         h[w].cells[1].type = g[v].cells[1].type,
         h[w].cells[1].ptr # Nowhere, g[v].cells[1].ptr # Nowhere,
         IsCopy(h, h[w].cells[1].ptr, g, g[v].cells[1].ptr)
  PROVE  Contents(g, v) = Contents(h, w)
<1> DEFINE b == h[w].cells[1].ptr
           c == g[v].cells[1].ptr
           O == Owned(h, b)
           S == O \cup {w}
<1>1. v \in Spots /\ w \in Spots /\ w \notin Blocks /\ v \notin Blocks
  BY VariantAssumption DEF Spots
<1>2. Parts(h, w) = {b} /\ Parts(g, v) = {c}
  BY DEF Parts
<1>3. b \in Blocks /\ c \in Blocks /\ b \in Spots /\ c \in Spots
  BY <1>1, <1>2, PartsAreBlocks DEF Spots
<1>4. /\ b \in O /\ O \subseteq Blocks /\ Closed(h, O)
      /\ Owned(g, c) \subseteq Blocks
  BY <1>3, OwnedClosed
<1>5. S \in SUBSET Spots /\ Closed(h, S) /\ w \notin O
  <2> HIDE DEF b, O
  <2>1. S \subseteq Spots /\ w \notin O
    BY <1>1, <1>4 DEF Spots
  <2>2. Closed(h, S)
    BY <1>2, <1>4 DEF Closed
  <2> QED
    BY <2>1, <2>2
<1>6. PICK f \in [O -> Owned(g, c)] :
        /\ f[b] = c
        /\ \A s \in O : /\ g[f[s]].kind = h[s].kind
                        /\ g[f[s]].cells = Moved(h[s].cells, f)
  <2>1. IsCopy(h, b, g, c)
    OBVIOUS
  <2> HIDE DEF b, c
  <2> QED
    BY ONLY <2>1 DEF IsCopy
<1> DEFINE m == [s \in S |-> IF s = w THEN v ELSE f[s]]
<1>7. /\ m \in [S -> Spots] /\ m[w] = v
      /\ \A s \in O : m[s] = f[s] /\ s \in S
  BY <1>1, <1>4, <1>5, <1>6 DEF Spots
<1> HIDE DEF O, m
<1>8. ASSUME NEW s \in O PROVE Alike(h, s, g, m[s], m)
  <2>1. m[s] = f[s] /\ g[f[s]].cells = Moved(h[s].cells, f)
    BY <1>6, <1>7
  <2>2. h[s].cells \in Seq(Cells)
    BY <1>4 DEF Heaps, Spots
  <2>3. DOMAIN Moved(h[s].cells, f) = DOMAIN h[s].cells
    BY DEF Moved
  <2>4. ASSUME NEW i \in DOMAIN h[s].cells
        PROVE  /\ g[m[s]].cells[i].type = h[s].cells[i].type
               /\ g[m[s]].cells[i].ptr = IF h[s].cells[i].ptr = Nowhere THEN Nowhere
                                         ELSE m[h[s].cells[i].ptr]
    <3> DEFINE cell == h[s].cells[i]
    <3>1. cell \in Cells
      BY <2>2
    <3>2. cell.ptr # Nowhere => m[cell.ptr] = f[cell.ptr]
      BY <1>4, <1>7 DEF Closed, Parts
    <3>3. /\ Moved(h[s].cells, f)[i].type = cell.type
          /\ Moved(h[s].cells, f)[i].ptr = IF cell.ptr = Nowhere THEN Nowhere
                                           ELSE f[cell.ptr]
      BY <3>1, MovedAlike
    <3> QED
      BY <2>1, <3>2, <3>3
  <2> QED
    BY <2>1, <2>3, <2>4 DEF Alike
<1>9. Alike(h, w, g, m[w], m)
  BY <1>4, <1>6, <1>7 DEF Alike
<1>10. \A s \in S : Alike(h, s, g, m[s], m)
  BY <1>8, <1>9
<1>11. w \in S
  OBVIOUS
<1> HIDE DEF S
<1> QED
  BY ONLY h \in Heaps, Grounded(h), g \in Heaps, Grounded(g), <1>5, <1>7, <1>10, <1>11,
     AlikeContents

LEMMA VariableHasOneCell ==
  ASSUME NEW h, Forest(h, {}), NEW v \in Variables
  PROVE  /\ v \in Spots /\ v \notin Blocks /\ v # Nowhere
         /\ DOMAIN h[v].cells = {1}
         /\ h[v].cells[1] \in Cells
         /\ <<v, 1>> \in Places(h)
         /\ Cell(h, <<v, 1>>) = h[v].cells[1]
         /\ h[v].cells[1].type \notin Objects => h[v].cells[1].ptr = Nowhere
<1>1. h \in Heaps /\ v \in Spots /\ v \notin Blocks /\ v # Nowhere
  BY VariantAssumption DEF Forest, Spots
<1>2. h[v].cells \in Seq(Cells) /\ Len(h[v].cells) = 1
  BY <1>1 DEF Forest, Tidy, Heaps
<1>3. DOMAIN h[v].cells = {1}
  BY <1>2
<1>4. h[v].cells[1].type \notin Objects => h[v].cells[1].ptr = Nowhere
  BY <1>1, <1>3 DEF Forest, Tidy
<1>5. <<v, 1>> \in Places(h)
  BY <1>1, <1>3, PlaceIs
<1> QED
  BY <1>1, <1>2, <1>3, <1>4, <1>5 DEF Cell

(* What was assigned to a variable from a variable has the same value.     *)
LEMMA AssignedContents ==
  ASSUME VariantInv, VariantInv', NEW v \in Variables, NEW w \in Variables, v # w,
         Assigned(<<v, 1>>, <<w, 1>>), ~Broken(heap'[v].cells[1])
  PROVE  Contents(heap', v) = Contents(heap, w)
<1> DEFINE c == heap'[v].cells[1]
           b == heap[w].cells[1]
<1>1. /\ Forest(heap, {}) /\ Forest(heap', {})
      /\ heap \in Heaps /\ heap' \in Heaps /\ Grounded(heap) /\ Grounded(heap')
  BY DEF VariantInv, Forest
<1>2. /\ v \in Spots /\ DOMAIN heap'[v].cells = {1}
      /\ Cell(heap', <<v, 1>>) = c
      /\ c.type \notin Objects => c.ptr = Nowhere
  BY <1>1, VariableHasOneCell
<1>3. /\ w \in Spots /\ DOMAIN heap[w].cells = {1}
      /\ Cell(heap, <<w, 1>>) = b
      /\ b.type \notin Objects => b.ptr = Nowhere
  BY <1>1, VariableHasOneCell
<1>4. c.type = b.type
  BY <1>2, <1>3 DEF Assigned
<1>5. ~(c.type \in Objects /\ c.ptr = Nowhere)
  BY DEF Broken
<1> HIDE DEF b, c
<1>6. CASE b.type \notin Objects
  <2> DEFINE m == [x \in {w} |-> v]
  <2>1. b.ptr = Nowhere /\ c.ptr = Nowhere
    BY <1>2, <1>3, <1>4, <1>6
  <2>2. Parts(heap, w) = {}
    BY <1>3, <2>1 DEF Parts, b
  <2>3. {w} \in SUBSET Spots /\ Closed(heap, {w})
    BY <1>3, <2>2 DEF Closed
  <2>4. m \in [{w} -> Spots] /\ m[w] = v
    BY <1>2
  <2> HIDE DEF m
  <2>5. Alike(heap, w, heap', m[w], m)
    BY <1>2, <1>3, <1>4, <2>1, <2>4 DEF Alike, b, c
  <2>6. \A s \in {w} : Alike(heap, s, heap', m[s], m)
    BY <2>5
  <2>7. \A s \in {w} : Contents(heap', m[s]) = Contents(heap, s)
    BY <1>1, <2>3, <2>4, <2>6, AlikeContents
  <2> QED
    BY <2>4, <2>7
<1>7. CASE b.type \in Objects
  <2>1. c.ptr # Nowhere
    BY <1>4, <1>5, <1>7
  <2>2. b.ptr # Nowhere /\ IsCopy(heap, b.ptr, heap', c.ptr)
    BY <1>2, <1>3, <1>7, <2>1 DEF Assigned
  <2> QED
    BY <1>1, <1>2, <1>3, <1>4, <2>1, <2>2, CopyContents DEF b, c
<1> QED
  BY <1>6, <1>7

LEMMA CopiesStep ==
  ASSUME VariantInv, VariantInv', NEW v \in Variables, NEW w \in Variables,
         AssignVariant(<<v, 1>>, <<w, 1>>), ~undefined',
         ~Broken(heap'[v].cells[1])
  PROVE  Contents(heap', v) = Contents(heap, w)
<1>1. heap \in Heaps /\ Forest(heap, {})
  BY DEF VariantInv, Forest
<1>2. CASE v = w
  BY <1>2 DEF AssignVariant
<1>3. CASE v # w
  <2>1. /\ <<v, 1>> \in Places(heap) /\ <<w, 1>> \in Places(heap)
        /\ <<v, 1>> # <<w, 1>>
    BY <1>1, <1>3, VariableHasOneCell
  <2>2. ASSUME NEW x \in Variables, NEW y \in Variables
        PROVE  ~Inside(<<x, 1>>, <<y, 1>>)
    <3> DEFINE p == Cell(heap, <<y, 1>>).ptr
    <3>1. x \notin Blocks /\ p \in Blocks \cup {Nowhere}
      BY <1>1, VariableHasOneCell DEF Cells
    <3>2. Owned(heap, p) \subseteq Blocks
      <4> HIDE DEF p
      <4>1. CASE p = Nowhere
        BY <4>1 DEF Owned
      <4>2. CASE p \in Blocks
        BY <1>1, <4>2, OwnedClosed DEF Spots
      <4> QED
        BY <3>1, <4>1, <4>2
    <3> QED
      BY <3>1, <3>2 DEF Inside, OwnedBy
  <2>3. Assigned(<<v, 1>>, <<w, 1>>)
    BY <2>1, <2>2, AssignVariantCopies
  <2> QED
    BY <1>3, <2>3, AssignedContents
<1> QED
  BY <1>2, <1>3

(* The value of a variable changes only by what is done to the variable or *)
(* in a payload that belongs to it.                                        *)
ChangedFromWithin ==
  [][\A w \in Variables :
       ~KeepsValue(w) => \E b \in Owned(heap, w) : Operation(b)]_variantVars

(* Variant.cpp:70-183: whatever is assigned, cleared, inserted or removed, *)
(* in one variable or deep in it, another variable has the value that it   *)
(* had.                                                                    *)
THEOREM ValuesChangeFromWithin == VariantSpec => ChangedFromWithin
<1>1. ASSUME VariantInv, VariantInv', [VariantNext]_variantVars,
             NEW w \in Variables, ~KeepsValue(w)
      PROVE  \E b \in Owned(heap, w) : Operation(b)
  <2>1. ~Untouched(w)
    BY <1>1, UntouchedContents DEF KeepsValue
  <2>2. PICK x \in DOMAIN heap : Operation(x)
    BY <1>1, <2>1 DEF Untouched, variantVars, VariantNext
  <2> QED
    BY <1>1, <2>1, <2>2, OperationElsewhere
<1>2. VariantInv /\ VariantInv' /\ [VariantNext]_variantVars =>
        \A w \in Variables :
          ~KeepsValue(w) => \E b \in Owned(heap, w) : Operation(b)
  BY <1>1
<1> QED
  BY <1>2, VariantInvHolds, PTL DEF VariantSpec, ChangedFromWithin

(* Variant.cpp:70-78, 373-395: whatever is nested in the source, the       *)
(* variable that it is assigned to has the value that it had; and no step  *)
(* at all, in place or not, changes the values of two variables.           *)
THEOREM CopiesAreEqual == VariantSpec => AssignmentCopies
<1>1. ASSUME VariantInv, VariantInv', [VariantNext]_variantVars,
             NEW v \in Variables, NEW w \in Variables
      PROVE  v # w => KeepsValue(v) \/ KeepsValue(w)
  BY <1>1, OtherUntouched, UntouchedContents DEF KeepsValue
<1>2. VariantInv /\ VariantInv' /\ [VariantNext]_variantVars =>
        \A v, w \in Variables :
          /\ v # w => KeepsValue(v) \/ KeepsValue(w)
          /\ (/\ ~undefined' /\ ~Broken(heap'[v].cells[1])
              /\ AssignVariant(<<v, 1>>, <<w, 1>>))
             => Contents(heap', v) = Contents(heap, w)
  BY <1>1, CopiesStep
<1> QED
  BY <1>2, VariantInvHolds, PTL DEF VariantSpec, AssignmentCopies

=============================================================================
