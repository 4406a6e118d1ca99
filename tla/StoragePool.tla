----------------------------- MODULE StoragePool ----------------------------
(***************************************************************************)
(* StoragePool: memory for the nodes of an AST.  A table (base) holds the  *)
(* segments; objects are cut off the segment at base_index, one behind the *)
(* other, until it is full.  What does not fit into a segment gets one of  *)
(* its own, which changes places with the current one.  Nothing is given   *)
(* back but by Reset, which starts over with the same segments, and by the *)
(* destructor.                                                             *)
(*                                                                         *)
(* Sizes are in cells, and the contents of a cell are abstracted to        *)
(* whether somebody may have written it (dirty): memory that new[] made is *)
(* cleared, a cell of an object belongs to the caller.                     *)
(***************************************************************************)
EXTENDS Naturals, Sequences

CONSTANTS
  Blksize,        \* the cells of a segment
  base_increment, \* the slots that are added to the table
  NoSegment,      \* an empty slot
  Sizes,          \* what callers ask for, in cells
  MaxObjects,     \* bounds the objects
  MaxResets       \* bounds the calls of Reset

ASSUME PoolAssumption ==
  /\ Blksize \in Nat \ {0} /\ base_increment \in Nat \ {0}
  /\ NoSegment \notin Nat /\ Sizes \subseteq Nat \ {0}
  /\ MaxObjects \in Nat /\ MaxResets \in Nat

VARIABLES
  base, base_size, base_index, offset,
  heap,      \* the segments that exist: segment |-> [size, dirty]
  made,      \* how many were made
  objects,   \* those handed out since the last Reset, with what they were like then
  count, resets, destroyed

vars == <<base, base_size, base_index, offset, heap, made, objects, count, resets, destroyed>>

Cells(at, size) == at .. at + size - 1

(* Mutant: the segment is not cleared.                                     *)
NewSegmentAsIs(size) == [size |-> size, dirty |-> Cells(0, size)]

(* A segment made by new[], as large as asked for and cleared.             *)
NewSegment(size) == [size |-> size, dirty |-> {}]

Write(h, s, cells) ==
  [x \in DOMAIN h \cup {s} |-> IF x = s THEN [h[s] EXCEPT !.dirty = @ \cup cells] ELSE h[x]]

(* The first part of AllocateMoreSpace: the slot to use, and the table     *)
(* with room for it.                                                       *)
NextSlot == IF offset > 0 THEN base_index + 1 ELSE base_index

Table ==
  IF NextSlot = base_size
  THEN [i \in 0 .. base_size + base_increment - 1 |-> IF i < base_size THEN base[i] ELSE NoSegment]
  ELSE base

TableSize == IF NextSlot = base_size THEN base_size + base_increment ELSE base_size

(* The caller gets the cells from at on, and may write them.               *)
HandOut(h, s, at, size, alone) ==
  /\ heap' = Write(h, s, Cells(at, size))
  /\ objects' = Append(objects, [segment |-> s, at |-> at, size |-> size,
                                 zero |-> Cells(at, size) \cap h[s].dirty = {}, alone |-> alone])
  /\ count' = count + 1

-----------------------------------------------------------------------------
Init ==
  /\ base = [i \in {} |-> NoSegment] /\ base_size = 0 /\ base_index = 0 /\ offset = 0
  /\ heap = [s \in {} |-> NewSegment(0)] /\ made = 0
  /\ objects = <<>> /\ count = 0 /\ resets = 0 /\ destroyed = FALSE

(* Mutant: no segments change places.                                      *)
AllocLargeInPlace(n) ==
  /\ ~destroyed /\ count < MaxObjects /\ n > Blksize
  /\ LET slot == NextSlot
         s == made + 1
         rest == [x \in (DOMAIN heap \ {Table[slot]}) \cup {s} |->
                    IF x = s THEN NewSegment(n) ELSE heap[x]]
     IN  /\ base' = [Table EXCEPT ![slot] = s]
         /\ made' = s /\ base_index' = slot
         /\ HandOut(rest, s, 0, n, slot > 0)
  /\ base_size' = TableSize
  /\ UNCHANGED <<offset, resets, destroyed>>

(* A segment of its own takes the next slot, whatever is there is deleted, *)
(* and changes places with the one before, if there is one.  alone tells   *)
(* that it is in the way of what comes next.                               *)
AllocLarge(n) ==
  /\ ~destroyed /\ count < MaxObjects /\ n > Blksize
  /\ LET slot == NextSlot
         s == made + 1
         rest == [x \in (DOMAIN heap \ {Table[slot]}) \cup {s} |->
                    IF x = s THEN NewSegment(n) ELSE heap[x]]
     IN  /\ base' = IF slot > 0 THEN [Table EXCEPT ![slot] = Table[slot - 1], ![slot - 1] = s]
                    ELSE [Table EXCEPT ![slot] = s]
         /\ made' = s /\ base_index' = slot
         /\ HandOut(rest, s, 0, n, slot > 0)
  /\ base_size' = TableSize
  /\ UNCHANGED <<offset, resets, destroyed>>

(* The segment is full, or there is none: the next one, which may be there *)
(* from before a Reset.                                                    *)
AllocNext(n) ==
  /\ ~destroyed /\ count < MaxObjects /\ n <= Blksize
  /\ base_size = 0 \/ offset + n > Blksize
  /\ LET slot == NextSlot
         isNew == Table[slot] = NoSegment
         s == IF isNew THEN made + 1 ELSE Table[slot]
         all == [x \in DOMAIN heap \cup {s} |-> IF isNew /\ x = s THEN NewSegment(Blksize) ELSE heap[x]]
     IN  /\ base' = [Table EXCEPT ![slot] = s]
         /\ made' = IF isNew THEN made + 1 ELSE made
         /\ base_index' = slot
         /\ HandOut(all, s, 0, n, TRUE)
  /\ base_size' = TableSize /\ offset' = n
  /\ UNCHANGED <<resets, destroyed>>

AllocHere(n) ==
  /\ ~destroyed /\ count < MaxObjects /\ n <= Blksize
  /\ base_size > 0 /\ offset + n <= Blksize
  /\ HandOut(heap, base[base_index], offset, n, TRUE)
  /\ offset' = offset + n
  /\ UNCHANGED <<base, base_size, base_index, made, resets, destroyed>>

Reset ==
  /\ ~destroyed /\ resets < MaxResets
  /\ base_index' = 0 /\ offset' = 0
  /\ objects' = <<>> /\ resets' = resets + 1
  /\ UNCHANGED <<base, base_size, heap, made, count, destroyed>>

(* Mutant: the current segment is not deleted.                             *)
DestroyBelow ==
  /\ ~destroyed /\ destroyed' = TRUE
  /\ heap' = [s \in DOMAIN heap \ {base[i] : i \in {j \in DOMAIN base : j < base_index}} |-> heap[s]]
  /\ objects' = <<>>
  /\ UNCHANGED <<base, base_size, base_index, offset, made, count, resets>>

(* ~StoragePool deletes the segments up to the current one.                *)
Destroy ==
  /\ ~destroyed /\ destroyed' = TRUE
  /\ heap' = [s \in DOMAIN heap \ {base[i] : i \in {j \in DOMAIN base : j <= base_index}} |-> heap[s]]
  /\ objects' = <<>>
  /\ UNCHANGED <<base, base_size, base_index, offset, made, count, resets>>

Alloc == \E n \in Sizes : AllocLarge(n) \/ AllocNext(n) \/ AllocHere(n)

Next == Alloc \/ Reset \/ Destroy

Spec == Init /\ [][Next]_vars

-----------------------------------------------------------------------------
Overlap(o, p) == o.segment = p.segment /\ o.at < p.at + p.size /\ p.at < o.at + o.size

(* The objects in use are apart and inside segments that exist, through    *)
(* swaps, growth of the table and the reuse of segments.  What is excepted *)
(* is a large object that is allocated first, at the beginning or after a  *)
(* Reset: its segment becomes the current one, with nothing taken from it. *)
ObjectsAreApart ==
  \A i \in DOMAIN objects : objects[i].alone =>
    /\ objects[i].segment \in DOMAIN heap
    /\ objects[i].at + objects[i].size <= heap[objects[i].segment].size
    /\ \A j \in DOMAIN objects : i # j /\ objects[j].alone => ~Overlap(objects[i], objects[j])

(* No segment is in two slots or deleted while in one, so that none is     *)
(* deleted twice; and until Reset is called the destructor finds all.      *)
EverySegmentOnce ==
  /\ ~destroyed =>
       /\ \A i \in DOMAIN base : base[i] # NoSegment => base[i] \in DOMAIN heap
       /\ \A i, j \in DOMAIN base : base[i] = base[j] /\ base[i] # NoSegment => i = j
       /\ DOMAIN heap \subseteq {base[i] : i \in DOMAIN base}
  /\ destroyed /\ resets = 0 => DOMAIN heap = {}

(* An object is zero, if it is large, and if neither Reset nor a large     *)
(* object at the beginning has spoiled the segments.                       *)
ZeroUntilReset ==
  /\ \A i \in DOMAIN objects :
       \/ objects[i].zero
       \/ objects[i].size <= Blksize /\ (resets > 0 \/ \E j \in 1 .. i - 1 : ~objects[j].alone)

=============================================================================
