-------------------------- MODULE StoragePoolProofs -------------------------
(***************************************************************************)
(* What StoragePool promises, for every size of the segments and of the    *)
(* objects, and every number of them.                                      *)
(***************************************************************************)
EXTENDS StoragePool, TLAPS

Slot == Nat \cup {NoSegment}

Segment == [size : Nat, dirty : SUBSET Nat]

Object == [segment : Nat, at : Nat, size : Nat \ {0}, zero : BOOLEAN, alone : BOOLEAN]

TypeOK ==
  /\ base_size \in Nat /\ base_index \in Nat /\ offset \in Nat
  /\ base \in [0 .. base_size - 1 -> Slot]
  /\ made \in Nat /\ DOMAIN heap \subseteq 1 .. made
  /\ heap \in [DOMAIN heap -> Segment]
  /\ objects \in Seq(Object)
  /\ count \in Nat /\ resets \in Nat /\ destroyed \in BOOLEAN

(* The table: the slots up to the current one are filled, each with a      *)
(* segment of its own that is large enough, and every segment is in one.   *)
Filled ==
  /\ IF base_size = 0 THEN offset = 0 /\ base_index = 0 ELSE base_index < base_size
  /\ offset = 0 => base_index = 0
  /\ offset <= Blksize
  /\ base_size > 0 => \A i \in 0 .. base_index : base[i] # NoSegment
  /\ resets = 0 => \A i \in 0 .. base_size - 1 : i > base_index => base[i] = NoSegment

Owned ==
  /\ \A i \in 0 .. base_size - 1 :
       base[i] # NoSegment => base[i] \in DOMAIN heap /\ heap[base[i]].size >= Blksize
  /\ \A i, j \in 0 .. base_size - 1 : base[i] = base[j] /\ base[i] # NoSegment => i = j
  /\ \A s \in DOMAIN heap : \E i \in 0 .. base_size - 1 : base[i] = s

(* An object lies in the used part of the current segment, or in one       *)
(* before, which nothing is taken from any more.                           *)
Placed(o) ==
  /\ offset > 0
  /\ o.segment \in DOMAIN heap /\ o.at + o.size <= heap[o.segment].size
  /\ \/ o.segment = base[base_index] /\ o.at + o.size <= offset
     \/ \E k \in 0 .. base_index - 1 : o.segment = base[k]

AllPlaced == \A i \in DOMAIN objects : objects[i].alone => Placed(objects[i])

AllApart ==
  \A i, j \in DOMAIN objects :
    i # j /\ objects[i].alone /\ objects[j].alone => ~Overlap(objects[i], objects[j])

InUse == Filled /\ Owned /\ AllPlaced /\ AllApart

IInv ==
  /\ TypeOK
  /\ ~destroyed => InUse
  /\ destroyed => objects = <<>> /\ (resets = 0 => DOMAIN heap = {})

-----------------------------------------------------------------------------
(* The first part of AllocateMoreSpace gives a table with room for the     *)
(* next slot, and what is in it stays.                                     *)
LEMMA TableFacts ==
  ASSUME PoolAssumption, TypeOK, Filled
  PROVE  /\ TableSize \in Nat /\ base_size <= TableSize
         /\ NextSlot \in 0 .. TableSize - 1 /\ NextSlot \in Nat
         /\ NextSlot = IF offset > 0 THEN base_index + 1 ELSE 0
         /\ Table \in [0 .. TableSize - 1 -> Slot]
         /\ \A i \in 0 .. base_size - 1 : Table[i] = base[i]
         /\ \A i \in base_size .. TableSize - 1 : Table[i] = NoSegment
<1>1. base_increment \in Nat \ {0} BY DEF PoolAssumption
<1>2. base_size \in Nat /\ base_index \in Nat /\ offset \in Nat BY DEF TypeOK
<1>3. NextSlot \in 0 .. base_size /\ NextSlot = IF offset > 0 THEN base_index + 1 ELSE 0
  BY <1>2 DEF NextSlot, Filled
<1>4. CASE NextSlot = base_size
  <2>1. /\ Table = [i \in 0 .. base_size + base_increment - 1 |->
                     IF i < base_size THEN base[i] ELSE NoSegment]
        /\ TableSize = base_size + base_increment
    BY <1>4 DEF Table, TableSize
  <2>2. base \in [0 .. base_size - 1 -> Slot] BY DEF TypeOK
  <2>3. \A i \in 0 .. base_size + base_increment - 1 :
          Table[i] = IF i < base_size THEN base[i] ELSE NoSegment
    BY <2>1
  <2>4. \A i \in 0 .. base_size + base_increment - 1 : Table[i] \in Slot
    BY <2>2, <2>3, <1>1, <1>2 DEF Slot
  <2>5. Table \in [0 .. base_size + base_increment - 1 -> Slot]
    BY <2>1, <2>4
  <2>6. base_size + base_increment - 1 >= base_size BY <1>1, <1>2
  <2> QED BY <2>1, <2>3, <2>5, <2>6, <1>1, <1>2, <1>3, <1>4
<1>5. CASE NextSlot # base_size
  BY <1>5, <1>2, <1>3 DEF Table, TableSize, TypeOK
<1> QED BY <1>4, <1>5

(* Writing to a segment changes neither which there are nor their sizes.   *)
LEMMA WriteFacts ==
  ASSUME NEW h, NEW s \in DOMAIN h, h \in [DOMAIN h -> Segment], NEW cells \in SUBSET Nat
  PROVE  /\ DOMAIN Write(h, s, cells) = DOMAIN h
         /\ Write(h, s, cells) \in [DOMAIN h -> Segment]
         /\ \A x \in DOMAIN h : Write(h, s, cells)[x].size = h[x].size
BY DEF Write, Segment

(* What is handed out is an object, and the others stay.                   *)
LEMMA HandOutFacts ==
  ASSUME TypeOK, NEW h, NEW s \in DOMAIN h, h \in [DOMAIN h -> Segment],
         NEW cells \in SUBSET Nat, heap' = Write(h, s, cells),
         NEW o \in Object, objects' = Append(objects, o), count' = count + 1
  PROVE  /\ heap' \in [DOMAIN heap' -> Segment] /\ DOMAIN heap' = DOMAIN h
         /\ \A x \in DOMAIN h : heap'[x].size = h[x].size
         /\ objects' \in Seq(Object) /\ count' \in Nat
         /\ DOMAIN objects' = DOMAIN objects \cup {Len(objects) + 1}
         /\ Len(objects) + 1 \notin DOMAIN objects
         /\ \A i \in DOMAIN objects : objects'[i] = objects[i]
         /\ objects'[Len(objects) + 1] = o
<1>1. /\ DOMAIN heap' = DOMAIN h /\ heap' \in [DOMAIN h -> Segment]
      /\ \A x \in DOMAIN h : heap'[x].size = h[x].size
  BY WriteFacts
<1>2. objects \in Seq(Object) /\ count \in Nat BY DEF TypeOK
<1>3. /\ objects' \in Seq(Object) /\ count' \in Nat
      /\ DOMAIN objects' = DOMAIN objects \cup {Len(objects) + 1}
      /\ Len(objects) + 1 \notin DOMAIN objects
      /\ \A i \in DOMAIN objects : objects'[i] = objects[i]
      /\ objects'[Len(objects) + 1] = o
  BY <1>2
<1> QED BY <1>1, <1>3

-----------------------------------------------------------------------------
LEMMA InitIInv == ASSUME PoolAssumption, Init PROVE IInv
<1>1. TypeOK
  <2>1. 0 .. base_size - 1 = {} /\ DOMAIN base = {} /\ DOMAIN heap = {} BY DEF Init
  <2>2. base \in [0 .. base_size - 1 -> Slot] BY <2>1 DEF Init
  <2>3. heap \in [DOMAIN heap -> Segment] BY <2>1 DEF Init
  <2>4. objects \in Seq(Object) BY DEF Init
  <2> QED BY <2>1, <2>2, <2>3, <2>4 DEF Init, TypeOK
<1>2. Filled BY DEF PoolAssumption, Init, Filled
<1>3. Owned BY DEF Init, Owned
<1>4. AllPlaced /\ AllApart BY DEF Init, AllPlaced, AllApart
<1>5. ~destroyed BY DEF Init
<1> QED BY <1>1, <1>2, <1>3, <1>4, <1>5 DEF IInv, InUse

(* An object that is put behind others that stay, and that overlaps none   *)
(* of those placed.                                                        *)
LEMMA ApartStep ==
  ASSUME AllApart, DOMAIN objects' = DOMAIN objects \cup {Len(objects) + 1},
         Len(objects) + 1 \notin DOMAIN objects,
         \A i \in DOMAIN objects : objects'[i] = objects[i],
         \A i \in DOMAIN objects : objects[i].alone /\ objects'[Len(objects) + 1].alone =>
            ~Overlap(objects[i], objects'[Len(objects) + 1])
                /\ ~Overlap(objects'[Len(objects) + 1], objects[i])
  PROVE  AllApart'
BY DEF AllApart

LEMMA HereStep ==
  ASSUME PoolAssumption, IInv, NEW n \in Sizes, AllocHere(n)
  PROVE  IInv'
<1> DEFINE new == objects'[Len(objects) + 1]
<1>1. TypeOK /\ InUse /\ ~destroyed' BY DEF IInv, AllocHere
<1>2. n \in Nat \ {0} /\ Blksize \in Nat BY DEF PoolAssumption
<1>3. base_size > 0 /\ offset + n <= Blksize /\ offset' = offset + n
      /\ HandOut(heap, base[base_index], offset, n, TRUE)
      /\ UNCHANGED <<base, base_size, base_index, made, resets, destroyed>>
  BY DEF AllocHere
<1>4. base_index \in 0 .. base_size - 1 /\ base[base_index] # NoSegment
  BY <1>1, <1>3 DEF TypeOK, InUse, Filled
<1>5. base[base_index] \in DOMAIN heap /\ heap[base[base_index]].size >= Blksize
      /\ base[base_index] \in Nat
  BY <1>1, <1>4 DEF TypeOK, InUse, Owned, Slot
<1>6. offset \in Nat /\ heap \in [DOMAIN heap -> Segment] BY <1>1 DEF TypeOK
<1> DEFINE o == [segment |-> base[base_index], at |-> offset, size |-> n,
                 zero |-> Cells(offset, n) \cap heap[base[base_index]].dirty = {}, alone |-> TRUE]
<1>a. /\ o \in Object /\ o.segment = base[base_index] /\ o.at = offset /\ o.size = n
      /\ Cells(offset, n) \in SUBSET Nat
  BY <1>2, <1>5, <1>6 DEF Object, Cells
<1>b. /\ heap' = Write(heap, base[base_index], Cells(offset, n))
      /\ objects' = Append(objects, o) /\ count' = count + 1
  BY <1>3 DEF HandOut
<1> HIDE DEF o
<1>7. /\ heap' \in [DOMAIN heap' -> Segment] /\ DOMAIN heap' = DOMAIN heap
      /\ \A x \in DOMAIN heap : heap'[x].size = heap[x].size
      /\ objects' \in Seq(Object) /\ count' \in Nat
      /\ DOMAIN objects' = DOMAIN objects \cup {Len(objects) + 1}
      /\ Len(objects) + 1 \notin DOMAIN objects
      /\ \A i \in DOMAIN objects : objects'[i] = objects[i]
      /\ new.segment = base[base_index] /\ new.at = offset /\ new.size = n
  BY <1>1, <1>5, <1>6, <1>a, <1>b, HandOutFacts
<1> HIDE DEF new
<1>8. TypeOK'
  <2>1. offset' \in Nat BY <1>2, <1>3, <1>6
  <2>2. DOMAIN heap' \subseteq 1 .. made' BY <1>1, <1>3, <1>7 DEF TypeOK
  <2>3. base' \in [0 .. base_size' - 1 -> Slot] BY <1>1, <1>3 DEF TypeOK
  <2> QED BY <1>1, <1>3, <1>7, <2>1, <2>2, <2>3 DEF TypeOK
<1>9. Filled' BY <1>1, <1>2, <1>3, <1>6 DEF InUse, Filled, TypeOK
<1>10. Owned' BY <1>1, <1>3, <1>7 DEF InUse, Owned
<1>11. AllPlaced'
  <2> SUFFICES ASSUME NEW i \in DOMAIN objects', objects'[i].alone PROVE Placed(objects[i])'
    BY DEF AllPlaced
  <2>1. CASE i \in DOMAIN objects
    <3>1. Placed(objects[i]) /\ objects'[i] = objects[i] /\ objects[i] \in Object
      BY <2>1, <1>1, <1>7 DEF InUse, AllPlaced, TypeOK
    <3>2. objects'[i].segment \in DOMAIN heap'
          /\ objects'[i].at + objects'[i].size <= heap'[objects'[i].segment].size
      BY <3>1, <1>7 DEF Placed
    <3>3. offset' > 0 /\ offset <= offset' BY <1>2, <1>3, <1>6
    <3>4. CASE objects[i].segment = base[base_index] /\ objects[i].at + objects[i].size <= offset
      BY <3>1, <3>2, <3>3, <3>4, <1>2, <1>3, <1>6 DEF Placed, Object
    <3>5. CASE \E k \in 0 .. base_index - 1 : objects[i].segment = base[k]
      BY <3>1, <3>2, <3>3, <3>5, <1>3 DEF Placed
    <3> QED BY <3>1, <3>4, <3>5 DEF Placed
  <2>2. CASE i = Len(objects) + 1
    <3>1. objects'[i] = new BY <2>2 DEF new
    <3> QED BY <3>1, <1>2, <1>3, <1>5, <1>6, <1>7 DEF Placed, Segment, PoolAssumption
  <2> QED BY <2>1, <2>2, <1>7
<1>12. ASSUME NEW i \in DOMAIN objects, objects[i].alone
       PROVE  ~Overlap(objects[i], new) /\ ~Overlap(new, objects[i])
  <2>1. Placed(objects[i]) /\ objects[i] \in Object
    BY <1>1, <1>12 DEF InUse, AllPlaced, TypeOK
  <2>2. CASE objects[i].segment = base[base_index] /\ objects[i].at + objects[i].size <= offset
    BY <2>1, <2>2, <1>2, <1>6, <1>7 DEF Overlap, Object
  <2>3. CASE \E k \in 0 .. base_index - 1 : objects[i].segment = base[k]
    <3>1. PICK k \in 0 .. base_index - 1 : objects[i].segment = base[k] BY <2>3
    <3>2. k \in 0 .. base_size - 1 /\ k # base_index BY <1>1, <1>4 DEF TypeOK
    <3>3. objects[i].segment # base[base_index]
      BY <3>1, <3>2, <1>1, <1>4 DEF InUse, Owned
    <3> QED BY <3>3, <1>7 DEF Overlap
  <2> QED BY <2>1, <2>2, <2>3 DEF Placed
<1>13. AllApart' BY <1>1, <1>7, <1>12, ApartStep DEF InUse, new
<1> QED BY <1>1, <1>8, <1>9, <1>10, <1>11, <1>13 DEF IInv, InUse

LEMMA NextStep ==
  ASSUME PoolAssumption, IInv, NEW n \in Sizes, AllocNext(n)
  PROVE  IInv'
<1> DEFINE slot == NextSlot
           isNew == Table[slot] = NoSegment
           s == IF isNew THEN made + 1 ELSE Table[slot]
           all == [x \in DOMAIN heap \cup {s} |->
                     IF isNew /\ x = s THEN NewSegment(Blksize) ELSE heap[x]]
           new == objects'[Len(objects) + 1]
<1>1. TypeOK /\ InUse /\ Filled /\ Owned /\ ~destroyed' BY DEF IInv, AllocNext, InUse
<1>2. n \in Nat \ {0} /\ Blksize \in Nat /\ NoSegment \notin Nat BY DEF PoolAssumption
<1>3. /\ n <= Blksize /\ (base_size = 0 \/ offset + n > Blksize)
      /\ base' = [Table EXCEPT ![slot] = s] /\ made' = IF isNew THEN made + 1 ELSE made
      /\ base_index' = slot /\ HandOut(all, s, 0, n, TRUE)
      /\ base_size' = TableSize /\ offset' = n /\ UNCHANGED <<resets, destroyed>>
  BY DEF AllocNext
<1>4. /\ base_size \in Nat /\ base_index \in Nat /\ offset \in Nat /\ made \in Nat
      /\ DOMAIN heap \subseteq 1 .. made /\ heap \in [DOMAIN heap -> Segment]
  BY <1>1 DEF TypeOK
<1>5. /\ TableSize \in Nat /\ base_size <= TableSize
      /\ slot \in 0 .. TableSize - 1 /\ slot \in Nat
      /\ slot = IF offset > 0 THEN base_index + 1 ELSE 0
      /\ Table \in [0 .. TableSize - 1 -> Slot]
      /\ \A i \in 0 .. base_size - 1 : Table[i] = base[i]
      /\ \A i \in base_size .. TableSize - 1 : Table[i] = NoSegment
  BY <1>1, TableFacts
<1> HIDE DEF slot
<1>6. \/ base_size = 0 /\ offset = 0 /\ slot = 0 /\ base_index = 0
      \/ /\ base_size > 0 /\ slot = base_index + 1 /\ offset > 0
         /\ base_index \in 0 .. base_size - 1
  <2>1. CASE base_size = 0
    <3>1. offset = 0 /\ base_index = 0 BY <2>1, <1>1 DEF Filled
    <3>2. slot = 0 BY <3>1, <1>4, <1>5
    <3> QED BY <2>1, <3>1, <3>2
  <2>2. CASE base_size # 0
    <3>1. offset > 0 BY <2>2, <1>2, <1>3, <1>4
    <3> QED BY <2>2, <3>1, <1>1, <1>4, <1>5 DEF Filled
  <2> QED BY <2>1, <2>2
<1>7. /\ s \in Nat /\ made' \in Nat /\ DOMAIN all = DOMAIN heap \cup {s}
      /\ all \in [DOMAIN all -> Segment] /\ DOMAIN all \subseteq 1 .. made'
      /\ \A x \in DOMAIN heap : all[x].size = heap[x].size
      /\ all[s].size >= Blksize
      /\ \A i \in 0 .. base_size - 1 : i # slot => base[i] # s
      /\ slot < base_size /\ base[slot] # NoSegment => s = base[slot]
  <2>1. CASE isNew
    <3>1. s = made + 1 /\ s \notin DOMAIN heap /\ made' = made + 1 BY <1>3, <1>4, <2>1
    <3>2. NewSegment(Blksize) \in Segment /\ NewSegment(Blksize).size = Blksize
      BY <1>2 DEF NewSegment, Segment
    <3>3. \A i \in 0 .. base_size - 1 : base[i] # s
      BY <3>1, <1>1, <1>2, <1>4 DEF Owned
    <3>4. slot < base_size => base[slot] = NoSegment BY <2>1, <1>4, <1>5
    <3> QED BY <3>1, <3>2, <3>3, <3>4, <1>2, <1>4, <2>1
  <2>2. CASE ~isNew
    <3>1. slot \in 0 .. base_size - 1 /\ s = base[slot] /\ base[slot] # NoSegment
      BY <2>2, <1>4, <1>5
    <3>2. s \in DOMAIN heap /\ heap[s].size >= Blksize BY <3>1, <1>1 DEF Owned
    <3>3. \A i \in 0 .. base_size - 1 : i # slot => base[i] # s BY <3>1, <1>1 DEF Owned
    <3> QED BY <3>1, <3>2, <3>3, <1>3, <1>4, <2>2
  <2> QED BY <2>1, <2>2
<1> HIDE DEF s, all
<1> DEFINE o == [segment |-> s, at |-> 0, size |-> n,
                 zero |-> Cells(0, n) \cap all[s].dirty = {}, alone |-> TRUE]
<1>a. /\ o \in Object /\ o.segment = s /\ o.at = 0 /\ o.size = n
      /\ Cells(0, n) \in SUBSET Nat /\ s \in DOMAIN all
  BY <1>2, <1>7 DEF Object, Cells
<1>c. /\ heap' = Write(all, s, Cells(0, n))
      /\ objects' = Append(objects, o) /\ count' = count + 1
  BY <1>3 DEF HandOut
<1> HIDE DEF o
<1>b. /\ heap' \in [DOMAIN heap' -> Segment] /\ DOMAIN heap' = DOMAIN all
      /\ \A x \in DOMAIN all : heap'[x].size = all[x].size
      /\ objects' \in Seq(Object) /\ count' \in Nat
      /\ DOMAIN objects' = DOMAIN objects \cup {Len(objects) + 1}
      /\ Len(objects) + 1 \notin DOMAIN objects
      /\ \A i \in DOMAIN objects : objects'[i] = objects[i]
      /\ new.segment = s /\ new.at = 0 /\ new.size = n
  BY <1>1, <1>7, <1>a, <1>c, HandOutFacts
<1> HIDE DEF new
<1>8. /\ heap' \in [DOMAIN heap' -> Segment] /\ DOMAIN heap' = DOMAIN heap \cup {s}
      /\ \A x \in DOMAIN heap : heap'[x].size = heap[x].size
      /\ heap'[s].size >= Blksize
      /\ objects' \in Seq(Object) /\ count' \in Nat
      /\ DOMAIN objects' = DOMAIN objects \cup {Len(objects) + 1}
      /\ Len(objects) + 1 \notin DOMAIN objects
      /\ \A i \in DOMAIN objects : objects'[i] = objects[i]
      /\ new.segment = s /\ new.at = 0 /\ new.size = n
  BY <1>7, <1>a, <1>b
<1>9. /\ base' \in [0 .. base_size' - 1 -> Slot] /\ base'[slot] = s
      /\ \A i \in 0 .. base_size - 1 : i # slot => base'[i] = base[i]
      /\ \A i \in base_size .. base_size' - 1 : i # slot => base'[i] = NoSegment
  BY <1>3, <1>4, <1>5, <1>7 DEF Slot
<1>10. TypeOK'
  <2>1. offset' \in Nat /\ base_size' \in Nat /\ base_index' \in Nat BY <1>2, <1>3, <1>5
  <2> QED BY <2>1, <1>1, <1>3, <1>7, <1>8, <1>9 DEF TypeOK
<1>11. Filled'
  <2>1. base_size' > 0 /\ base_index' < base_size' BY <1>3, <1>5
  <2>2. offset' > 0 /\ offset' <= Blksize BY <1>2, <1>3
  <2>3. ASSUME NEW i \in 0 .. base_index' PROVE base'[i] # NoSegment
    <3>1. CASE i = slot BY <3>1, <1>2, <1>7, <1>9
    <3>2. CASE i # slot
      <4>1. i \in 0 .. base_index /\ base_size > 0 /\ i \in 0 .. base_size - 1
        BY <3>2, <1>3, <1>4, <1>6
      <4> QED BY <4>1, <3>2, <1>1, <1>9 DEF Filled
    <3> QED BY <3>1, <3>2
  <2>4. ASSUME resets' = 0, NEW i \in 0 .. base_size' - 1, i > base_index'
        PROVE  base'[i] = NoSegment
    <3>1. i # slot /\ i > base_index /\ resets = 0 BY <2>4, <1>3, <1>4, <1>5, <1>6
    <3>2. CASE i < base_size
      <4>1. i \in 0 .. base_size - 1 BY <3>2, <2>4, <1>4
      <4> QED BY <4>1, <3>1, <1>1, <1>9 DEF Filled
    <3>3. CASE i >= base_size
      <4>1. i \in base_size .. base_size' - 1 BY <3>3, <2>4, <1>4
      <4> QED BY <4>1, <3>1, <1>9
    <3> QED BY <3>2, <3>3, <1>4
  <2> QED BY <2>1, <2>2, <2>3, <2>4 DEF Filled
<1>12. Owned'
  <2>1. \A i \in 0 .. base_size' - 1 : base'[i] # NoSegment => i = slot \/ i \in 0 .. base_size - 1
    BY <1>3, <1>4, <1>5, <1>9
  <2>2. ASSUME NEW i \in 0 .. base_size' - 1, base'[i] # NoSegment
        PROVE  base'[i] \in DOMAIN heap' /\ heap'[base'[i]].size >= Blksize
    BY <2>1, <2>2, <1>1, <1>8, <1>9 DEF Owned
  <2>3. ASSUME NEW i \in 0 .. base_size' - 1, NEW j \in 0 .. base_size' - 1,
               base'[i] = base'[j], base'[i] # NoSegment
        PROVE  i = j
    BY <2>1, <2>3, <1>1, <1>7, <1>9 DEF Owned
  <2>4. ASSUME NEW x \in DOMAIN heap' PROVE \E i \in 0 .. base_size' - 1 : base'[i] = x
    <3>1. slot \in 0 .. base_size' - 1 BY <1>3, <1>5
    <3>2. CASE x = s BY <3>1, <3>2, <1>9
    <3>3. CASE x # s
      <4>1. x \in DOMAIN heap BY <3>3, <1>8
      <4>2. PICK i \in 0 .. base_size - 1 : base[i] = x BY <4>1, <1>1 DEF Owned
      <4>3. x # NoSegment BY <4>1, <1>2, <1>4
      <4>4. i # slot BY <4>2, <4>3, <3>3, <1>4, <1>7
      <4>5. i \in 0 .. base_size' - 1 BY <1>3, <1>4, <1>5
      <4> QED BY <4>2, <4>4, <4>5, <1>9
    <3> QED BY <3>2, <3>3
  <2> QED BY <2>2, <2>3, <2>4 DEF Owned
<1>13. ASSUME NEW i \in DOMAIN objects, objects[i].alone
       PROVE  /\ objects[i].segment \in DOMAIN heap
              /\ objects[i].at + objects[i].size <= heap[objects[i].segment].size
              /\ \E k \in 0 .. base_index' - 1 :
                    k \in 0 .. base_size - 1 /\ k # slot /\ objects[i].segment = base'[k]
  <2>1. Placed(objects[i]) BY <1>1, <1>13 DEF InUse, AllPlaced
  <2>2. base_size > 0 /\ slot = base_index + 1 /\ base_index \in 0 .. base_size - 1
    BY <2>1, <1>4, <1>6 DEF Placed
  <2>3. \E k \in 0 .. base_index : objects[i].segment = base[k]
    BY <2>1, <1>4 DEF Placed
  <2>4. PICK k \in 0 .. base_index : objects[i].segment = base[k] BY <2>3
  <2>5. k \in 0 .. base_index' - 1 /\ k \in 0 .. base_size - 1 /\ k # slot
    BY <2>2, <1>3, <1>4
  <2> QED BY <2>1, <2>4, <2>5, <1>9 DEF Placed
<1>14. AllPlaced'
  <2> SUFFICES ASSUME NEW i \in DOMAIN objects', objects'[i].alone PROVE Placed(objects[i])'
    BY DEF AllPlaced
  <2>1. offset' > 0 BY <1>2, <1>3
  <2>2. CASE i \in DOMAIN objects
    <3>1. objects'[i] = objects[i] BY <2>2, <1>8
    <3>2. objects[i].alone BY <3>1
    <3> QED BY <2>1, <2>2, <3>1, <3>2, <1>8, <1>13 DEF Placed
  <2>3. CASE i = Len(objects) + 1
    <3>1. objects'[i] = new BY <2>3 DEF new
    <3>2. heap'[s].size \in Nat BY <1>8 DEF Segment
    <3>3. 0 + n <= heap'[s].size /\ 0 + n <= offset' BY <3>2, <1>2, <1>3, <1>8
    <3>4. s \in DOMAIN heap' /\ s = base'[base_index'] BY <1>3, <1>8, <1>9
    <3> QED BY <2>1, <3>1, <3>3, <3>4, <1>8 DEF Placed
  <2> QED BY <2>2, <2>3, <1>8
<1>15. ASSUME NEW i \in DOMAIN objects, objects[i].alone
       PROVE  ~Overlap(objects[i], new) /\ ~Overlap(new, objects[i])
  <2>1. objects[i].segment # s BY <1>7, <1>9, <1>13, <1>15
  <2> QED BY <2>1, <1>8 DEF Overlap
<1>16. AllApart' BY <1>1, <1>8, <1>15, ApartStep DEF InUse, new
<1> QED BY <1>1, <1>10, <1>11, <1>12, <1>14, <1>16 DEF IInv, InUse

LEMMA LargeStep ==
  ASSUME PoolAssumption, IInv, NEW n \in Sizes, AllocLarge(n)
  PROVE  IInv'
<1> DEFINE slot == NextSlot
           s == made + 1
           rest == [x \in (DOMAIN heap \ {Table[slot]}) \cup {s} |->
                      IF x = s THEN NewSegment(n) ELSE heap[x]]
           new == objects'[Len(objects) + 1]
<1>1. TypeOK /\ InUse /\ Filled /\ Owned /\ ~destroyed' BY DEF IInv, AllocLarge, InUse
<1>2. n \in Nat \ {0} /\ Blksize \in Nat /\ NoSegment \notin Nat BY DEF PoolAssumption
<1>3. /\ n > Blksize
      /\ base' = IF slot > 0 THEN [Table EXCEPT ![slot] = Table[slot - 1], ![slot - 1] = s]
                 ELSE [Table EXCEPT ![slot] = s]
      /\ made' = s /\ base_index' = slot /\ HandOut(rest, s, 0, n, slot > 0)
      /\ base_size' = TableSize /\ UNCHANGED <<offset, resets, destroyed>>
  BY DEF AllocLarge
<1>4. /\ base_size \in Nat /\ base_index \in Nat /\ offset \in Nat /\ made \in Nat
      /\ DOMAIN heap \subseteq 1 .. made /\ heap \in [DOMAIN heap -> Segment]
  BY <1>1 DEF TypeOK
<1>5. /\ TableSize \in Nat /\ base_size <= TableSize
      /\ slot \in 0 .. TableSize - 1 /\ slot \in Nat
      /\ slot = IF offset > 0 THEN base_index + 1 ELSE 0
      /\ Table \in [0 .. TableSize - 1 -> Slot]
      /\ \A i \in 0 .. base_size - 1 : Table[i] = base[i]
      /\ \A i \in base_size .. TableSize - 1 : Table[i] = NoSegment
  BY <1>1, TableFacts
<1> HIDE DEF slot
<1>6. \/ offset = 0 /\ slot = 0 /\ base_index = 0
      \/ /\ offset > 0 /\ base_size > 0 /\ slot = base_index + 1
         /\ base_index \in 0 .. base_size - 1
  <2>1. CASE offset = 0 BY <2>1, <1>1, <1>4, <1>5 DEF Filled
  <2>2. CASE offset > 0 BY <2>2, <1>1, <1>4, <1>5 DEF Filled
  <2> QED BY <2>1, <2>2, <1>4
<1>7. /\ s \in Nat /\ s \notin DOMAIN heap /\ made' \in Nat
      /\ DOMAIN rest = (DOMAIN heap \ {Table[slot]}) \cup {s}
      /\ rest \in [DOMAIN rest -> Segment] /\ DOMAIN rest \subseteq 1 .. made'
      /\ \A x \in DOMAIN heap \ {Table[slot]} : rest[x].size = heap[x].size
      /\ rest[s].size = n
  <2>1. NewSegment(n) \in Segment /\ NewSegment(n).size = n BY <1>2 DEF NewSegment, Segment
  <2>2. s \in Nat /\ s \notin DOMAIN heap /\ made' \in Nat BY <1>3, <1>4
  <2> QED BY <2>1, <2>2, <1>3, <1>4
<1> DEFINE o == [segment |-> s, at |-> 0, size |-> n,
                 zero |-> Cells(0, n) \cap rest[s].dirty = {}, alone |-> slot > 0]
<1>a. /\ o \in Object /\ o.segment = s /\ o.at = 0 /\ o.size = n
      /\ Cells(0, n) \in SUBSET Nat /\ s \in DOMAIN rest
  BY <1>2, <1>7 DEF Object, Cells
<1>d. o.alone => slot > 0 BY Zenon
<1>c. /\ heap' = Write(rest, s, Cells(0, n))
      /\ objects' = Append(objects, o) /\ count' = count + 1
  BY <1>3 DEF HandOut
<1> HIDE DEF s, rest, o
<1>b. /\ heap' \in [DOMAIN heap' -> Segment] /\ DOMAIN heap' = DOMAIN rest
      /\ \A x \in DOMAIN rest : heap'[x].size = rest[x].size
      /\ objects' \in Seq(Object) /\ count' \in Nat
      /\ DOMAIN objects' = DOMAIN objects \cup {Len(objects) + 1}
      /\ Len(objects) + 1 \notin DOMAIN objects
      /\ \A i \in DOMAIN objects : objects'[i] = objects[i]
      /\ new.segment = s /\ new.at = 0 /\ new.size = n /\ new = o
  BY <1>1, <1>7, <1>a, <1>c, HandOutFacts
<1> HIDE DEF new
<1>8. /\ DOMAIN heap' = (DOMAIN heap \ {Table[slot]}) \cup {s}
      /\ \A x \in DOMAIN heap \ {Table[slot]} : heap'[x].size = heap[x].size
      /\ heap'[s].size = n
  BY <1>7, <1>b
<1>9. /\ base' \in [0 .. base_size' - 1 -> Slot]
      /\ slot = 0 => base'[slot] = s
      /\ slot > 0 => base'[slot] = base[slot - 1] /\ base'[slot - 1] = s
      /\ \A i \in 0 .. base_size - 1 : i # slot /\ i # slot - 1 => base'[i] = base[i]
      /\ \A i \in base_size .. base_size' - 1 : i # slot => base'[i] = NoSegment
  <2>1. CASE slot = 0
    <3>1. base' = [Table EXCEPT ![slot] = s] BY <2>1, <1>3
    <3>2. base' \in [0 .. base_size' - 1 -> Slot] BY <3>1, <1>3, <1>5, <1>7 DEF Slot
    <3>3. base'[slot] = s BY <3>1, <1>5
    <3>4. \A i \in 0 .. base_size' - 1 : i # slot => base'[i] = Table[i] BY <3>1, <1>3, <1>5
    <3> QED BY <2>1, <3>2, <3>3, <3>4, <1>3, <1>4, <1>5
  <2>2. CASE slot > 0
    <3>1. base' = [Table EXCEPT ![slot] = Table[slot - 1], ![slot - 1] = s] BY <2>2, <1>3
    <3>2. slot - 1 \in 0 .. base_size - 1 /\ slot - 1 \in 0 .. TableSize - 1 /\ slot - 1 # slot
      BY <2>2, <1>4, <1>5, <1>6
    <3>3. base' \in [0 .. base_size' - 1 -> Slot] BY <3>1, <3>2, <1>3, <1>5, <1>7 DEF Slot
    <3>4. base'[slot] = base[slot - 1] /\ base'[slot - 1] = s BY <3>1, <3>2, <1>5
    <3>5. \A i \in 0 .. base_size' - 1 : i # slot /\ i # slot - 1 => base'[i] = Table[i]
      BY <3>1, <1>3, <1>5
    <3>6. base_size' = TableSize /\ base_size \in Nat /\ TableSize \in Nat /\ base_size <= TableSize
      BY <1>3, <1>4, <1>5
    <3>7. \A i \in 0 .. base_size - 1 : i # slot /\ i # slot - 1 => base'[i] = base[i]
      <4>1. \A i \in 0 .. base_size - 1 : i \in 0 .. base_size' - 1 BY <3>6
      <4> QED BY <4>1, <3>5, <1>5
    <3>8. \A i \in base_size .. base_size' - 1 : i # slot => base'[i] = NoSegment
      <4>1. \A i \in base_size .. base_size' - 1 :
              i \in 0 .. base_size' - 1 /\ i \in base_size .. TableSize - 1 /\ i # slot - 1
        BY <3>2, <3>6
      <4> QED BY <4>1, <3>5, <1>5
    <3> QED BY <2>2, <3>3, <3>4, <3>7, <3>8
  <2> QED BY <2>1, <2>2, <1>5
<1> DEFINE NewAt == IF slot = 0 THEN 0 ELSE slot - 1
           From(i) == IF i = slot THEN slot - 1 ELSE i
<1>10. ASSUME NEW i \in 0 .. base_size - 1, i # slot, base[i] # NoSegment
       PROVE  /\ base[i] \in DOMAIN heap /\ base[i] \in DOMAIN heap' /\ base[i] # s
              /\ heap'[base[i]].size = heap[base[i]].size /\ heap[base[i]].size >= Blksize
  <2>1. base[i] \in DOMAIN heap /\ heap[base[i]].size >= Blksize BY <1>10, <1>1 DEF Owned
  <2>2. base[i] # Table[slot]
    <3>1. CASE slot < base_size
      <4>1. slot \in 0 .. base_size - 1 /\ Table[slot] = base[slot] BY <3>1, <1>4, <1>5
      <4> QED BY <4>1, <1>1, <1>10 DEF Owned
    <3>2. CASE slot >= base_size
      <4>1. slot \in base_size .. TableSize - 1 BY <3>2, <1>4, <1>5
      <4> QED BY <4>1, <1>5, <1>10
    <3> QED BY <3>1, <3>2, <1>4, <1>5
  <2> QED BY <2>1, <2>2, <1>7, <1>8
<1>11. /\ NewAt \in 0 .. base_size' - 1 /\ base'[NewAt] = s
       /\ \A i \in 0 .. base_size' - 1 : base'[i] # NoSegment /\ i # NewAt =>
            From(i) \in 0 .. base_size - 1 /\ From(i) # slot /\ base'[i] = base[From(i)]
  <2>1. NewAt \in 0 .. base_size' - 1 /\ base'[NewAt] = s BY <1>3, <1>5, <1>9
  <2>2. ASSUME NEW i \in 0 .. base_size' - 1, base'[i] # NoSegment, i # NewAt
        PROVE  From(i) \in 0 .. base_size - 1 /\ From(i) # slot /\ base'[i] = base[From(i)]
    <3>1. CASE i = slot BY <3>1, <2>2, <1>4, <1>5, <1>6, <1>9
    <3>2. CASE i # slot
      <4>1. i < base_size
        <5> SUFFICES ASSUME i >= base_size PROVE FALSE BY <1>4
        <5>1. i \in base_size .. base_size' - 1 BY <1>4
        <5> QED BY <5>1, <3>2, <2>2, <1>9
      <4>2. i \in 0 .. base_size - 1 /\ i # slot - 1 BY <4>1, <3>2, <2>2, <1>4, <1>5
      <4> QED BY <4>2, <3>2, <1>9
    <3> QED BY <3>1, <3>2
  <2> QED BY <2>1, <2>2
<1>12. TypeOK'
  <2>1. base_size' \in Nat /\ base_index' \in Nat BY <1>3, <1>5
  <2> QED BY <2>1, <1>1, <1>3, <1>7, <1>b, <1>9 DEF TypeOK
<1>13. Filled'
  <2>1. base_size' > 0 /\ base_index' < base_size' BY <1>3, <1>5
  <2>2. offset' <= Blksize /\ (offset' = 0 => base_index' = 0) BY <1>1, <1>3, <1>6 DEF Filled
  <2>3. ASSUME NEW i \in 0 .. base_index' PROVE base'[i] # NoSegment
    <3>1. CASE i = NewAt BY <3>1, <1>2, <1>7, <1>11
    <3>2. CASE i # NewAt
      <4>1. slot > 0 /\ base_size > 0 /\ slot = base_index + 1 BY <3>2, <1>3, <1>5, <1>6
      <4>2. \A k \in 0 .. base_index : base[k] # NoSegment BY <4>1, <1>1 DEF Filled
      <4>3. CASE i = slot
        <5>1. base'[i] = base[base_index] /\ base_index \in 0 .. base_index
          BY <4>1, <4>3, <1>4, <1>9
        <5> QED BY <5>1, <4>2
      <4>4. CASE i # slot
        <5>1. i \in 0 .. base_size - 1 /\ i \in 0 .. base_index /\ i # slot - 1
          BY <4>1, <4>4, <3>2, <1>3, <1>4, <1>6
        <5> QED BY <5>1, <4>2, <4>4, <1>9
      <4> QED BY <4>3, <4>4
    <3> QED BY <3>1, <3>2
  <2>4. ASSUME resets' = 0, NEW i \in 0 .. base_size' - 1, i > base_index'
        PROVE  base'[i] = NoSegment
    <3>1. i # slot /\ i # slot - 1 /\ i > base_index /\ resets = 0
      BY <2>4, <1>3, <1>4, <1>5, <1>6
    <3>2. CASE i < base_size
      <4>1. i \in 0 .. base_size - 1 BY <3>2, <2>4, <1>4
      <4> QED BY <4>1, <3>1, <1>1, <1>9 DEF Filled
    <3>3. CASE i >= base_size
      <4>1. i \in base_size .. base_size' - 1 BY <3>3, <2>4, <1>4
      <4> QED BY <4>1, <3>1, <1>9
    <3> QED BY <3>2, <3>3, <1>4
  <2> QED BY <2>1, <2>2, <2>3, <2>4 DEF Filled
<1> HIDE DEF NewAt
<1>14. Owned'
  <2>1. ASSUME NEW i \in 0 .. base_size' - 1, base'[i] # NoSegment
        PROVE  base'[i] \in DOMAIN heap' /\ heap'[base'[i]].size >= Blksize
    <3>1. CASE i = NewAt BY <3>1, <1>2, <1>3, <1>8, <1>11
    <3>2. CASE i # NewAt
      <4> HIDE DEF From
      <4>1. From(i) \in 0 .. base_size - 1 /\ From(i) # slot /\ base'[i] = base[From(i)]
        BY <3>2, <2>1, <1>11
      <4> QED BY <4>1, <2>1, <1>10
    <3> QED BY <3>1, <3>2
  <2>2. ASSUME NEW i \in 0 .. base_size' - 1, NEW j \in 0 .. base_size' - 1,
               base'[i] = base'[j], base'[i] # NoSegment
        PROVE  i = j
    <3>1. CASE i = NewAt /\ j = NewAt BY <3>1
    <3>2. CASE i # NewAt /\ j = NewAt
      BY <3>2, <2>2, <1>10, <1>11
    <3>3. CASE i = NewAt /\ j # NewAt
      BY <3>3, <2>2, <1>10, <1>11
    <3>4. CASE i # NewAt /\ j # NewAt
      <4>1. From(i) = From(j) BY <3>4, <2>2, <1>1, <1>11 DEF Owned
      <4>2. (i = slot => j # slot - 1 \/ slot = 0) /\ (j = slot => i # slot - 1 \/ slot = 0)
        BY <3>4 DEF NewAt
      <4>3. CASE slot = 0
        <5>1. i # slot /\ j # slot BY <4>3, <3>4 DEF NewAt
        <5> QED BY <5>1, <4>1
      <4> QED BY <4>1, <4>2, <4>3, <1>5
    <3> QED BY <3>1, <3>2, <3>3, <3>4
  <2>3. ASSUME NEW x \in DOMAIN heap' PROVE \E i \in 0 .. base_size' - 1 : base'[i] = x
    <3>1. CASE x = s BY <3>1, <1>11
    <3>2. CASE x # s
      <4>1. x \in DOMAIN heap /\ x # Table[slot] BY <3>2, <1>8
      <4>2. PICK i \in 0 .. base_size - 1 : base[i] = x BY <4>1, <1>1 DEF Owned
      <4>3. i # slot /\ i \in 0 .. base_size' - 1 BY <4>1, <4>2, <1>3, <1>4, <1>5
      <4>4. CASE i = slot - 1
        <5>1. base'[slot] = x /\ slot \in 0 .. base_size' - 1
          BY <4>2, <4>4, <1>3, <1>4, <1>5, <1>9
        <5> QED BY <5>1
      <4>5. CASE i # slot - 1 BY <4>2, <4>3, <4>5, <1>9
      <4> QED BY <4>4, <4>5
    <3> QED BY <3>1, <3>2
  <2> QED BY <2>1, <2>2, <2>3 DEF Owned
<1>15. ASSUME NEW i \in DOMAIN objects, objects[i].alone
       PROVE  Placed(objects[i])' /\ objects'[i].segment # s /\ objects'[i] = objects[i]
  <2>1. Placed(objects[i]) /\ objects'[i] = objects[i]
    BY <1>1, <1>15, <1>b DEF InUse, AllPlaced
  <2>2. /\ offset > 0 /\ base_size > 0 /\ slot = base_index + 1
        /\ base_index \in 0 .. base_size - 1
    BY <2>1, <1>4, <1>6 DEF Placed
  <2>3. \A k \in 0 .. base_index : base[k] # NoSegment BY <2>2, <1>1 DEF Filled
  <2>4. \A k \in 0 .. base_index : k \in 0 .. base_size - 1 /\ k # slot BY <2>2, <1>4
  <2>5. CASE objects[i].segment = base[base_index] /\ objects[i].at + objects[i].size <= offset
    <3>1. base_index \in 0 .. base_index /\ base'[base_index'] = base[base_index]
      BY <2>2, <1>3, <1>4, <1>9
    <3> QED BY <3>1, <2>1, <2>2, <2>3, <2>4, <2>5, <1>3, <1>10 DEF Placed
  <2>6. CASE \E k \in 0 .. base_index - 1 : objects[i].segment = base[k]
    <3>1. PICK k \in 0 .. base_index - 1 : objects[i].segment = base[k] BY <2>6
    <3>2. k \in 0 .. base_index /\ k # slot - 1 /\ k \in 0 .. base_index' - 1
      BY <2>2, <1>3, <1>4
    <3>3. base'[k] = base[k] BY <3>2, <2>4, <1>9
    <3> QED BY <3>1, <3>2, <3>3, <2>1, <2>2, <2>3, <2>4, <1>3, <1>10 DEF Placed
  <2> QED BY <2>1, <2>5, <2>6 DEF Placed
<1>16. AllPlaced'
  <2> SUFFICES ASSUME NEW i \in DOMAIN objects', objects'[i].alone PROVE Placed(objects[i])'
    BY DEF AllPlaced
  <2>1. CASE i \in DOMAIN objects
    <3>1. objects[i].alone BY <2>1, <1>b
    <3> QED BY <3>1, <2>1, <1>15
  <2>2. CASE i = Len(objects) + 1
    <3>1. objects'[i] = new BY <2>2 DEF new
    <3>2. slot > 0 BY <3>1, <1>b, <1>d, Zenon
    <3>a. offset' > 0 BY <3>2, <1>3, <1>4, <1>5
    <3>3. slot - 1 \in 0 .. base_index' - 1 /\ base'[slot - 1] = s BY <3>2, <1>3, <1>5, <1>9
    <3>4. 0 + n <= heap'[s].size /\ s \in DOMAIN heap' BY <1>2, <1>8
    <3> QED BY <3>1, <3>a, <3>3, <3>4, <1>b DEF Placed
  <2> QED BY <2>1, <2>2, <1>b
<1>17. AllApart'
  <2>1. ASSUME NEW i \in DOMAIN objects, objects[i].alone
        PROVE  ~Overlap(objects[i], new) /\ ~Overlap(new, objects[i])
    BY <2>1, <1>15, <1>b DEF Overlap
  <2> QED BY <2>1, <1>1, <1>b, ApartStep DEF InUse, new
<1> QED BY <1>1, <1>12, <1>13, <1>14, <1>16, <1>17 DEF IInv, InUse

LEMMA ResetStep == ASSUME PoolAssumption, IInv, Reset PROVE IInv'
<1>1. TypeOK /\ InUse /\ ~destroyed' BY DEF IInv, Reset
<1>2. /\ base_index' = 0 /\ offset' = 0 /\ objects' = <<>> /\ resets' = resets + 1
      /\ UNCHANGED <<base, base_size, heap, made, count, destroyed>>
  BY DEF Reset
<1>3. TypeOK'
  <2>1. objects' \in Seq(Object) /\ resets' \in Nat BY <1>1, <1>2 DEF TypeOK
  <2>2. base' \in [0 .. base_size' - 1 -> Slot] /\ heap' \in [DOMAIN heap' -> Segment]
    BY <1>1, <1>2 DEF TypeOK
  <2> QED BY <2>1, <2>2, <1>1, <1>2 DEF TypeOK
<1>4. Filled'
  <2>1. base_size \in Nat /\ base_index \in Nat /\ Blksize \in Nat /\ resets \in Nat
    BY <1>1 DEF TypeOK, PoolAssumption
  <2>2. resets' # 0 BY <2>1, <1>2
  <2>3. base_size > 0 => base[0] # NoSegment BY <2>1, <1>1 DEF InUse, Filled
  <2>4. base_size' > 0 => \A i \in 0 .. base_index' : base'[i] # NoSegment BY <2>3, <1>2
  <2> QED BY <2>1, <2>2, <2>4, <1>2 DEF Filled
<1>5. Owned' BY <1>1, <1>2 DEF InUse, Owned
<1>6. AllPlaced' /\ AllApart' BY <1>2 DEF AllPlaced, AllApart
<1> QED BY <1>1, <1>3, <1>4, <1>5, <1>6 DEF IInv, InUse

LEMMA DestroyStep == ASSUME PoolAssumption, IInv, Destroy PROVE IInv'
<1> DEFINE deleted == {base[i] : i \in {j \in DOMAIN base : j <= base_index}}
<1>1. TypeOK /\ InUse BY DEF IInv, Destroy
<1>2. /\ heap' = [s \in DOMAIN heap \ deleted |-> heap[s]] /\ objects' = <<>> /\ destroyed' = TRUE
      /\ UNCHANGED <<base, base_size, base_index, offset, made, count, resets>>
  BY DEF Destroy
<1>3. TypeOK'
  <2>1. objects' \in Seq(Object) BY <1>2
  <2>2. DOMAIN heap' \subseteq 1 .. made' /\ heap' \in [DOMAIN heap' -> Segment]
    BY <1>1, <1>2 DEF TypeOK
  <2>3. base' \in [0 .. base_size' - 1 -> Slot] BY <1>1, <1>2 DEF TypeOK
  <2> QED BY <2>1, <2>2, <2>3, <1>1, <1>2 DEF TypeOK
<1>4. ASSUME resets' = 0, NEW s \in DOMAIN heap PROVE s \in deleted
  <2>1. PICK i \in 0 .. base_size - 1 : base[i] = s BY <1>1 DEF InUse, Owned
  <2>2. s # NoSegment BY <1>1 DEF TypeOK, PoolAssumption
  <2>3. i <= base_index BY <2>1, <2>2, <1>1, <1>2, <1>4 DEF InUse, Filled, TypeOK
  <2>4. i \in DOMAIN base BY <2>1, <1>1 DEF TypeOK
  <2> QED BY <2>1, <2>3, <2>4
<1>5. resets' = 0 => DOMAIN heap' = {} BY <1>2, <1>4
<1> QED BY <1>2, <1>3, <1>5 DEF IInv

-----------------------------------------------------------------------------
LEMMA StepIInv == ASSUME PoolAssumption, IInv, [Next]_vars PROVE IInv'
<1>1. ASSUME NEW n \in Sizes, AllocLarge(n) PROVE IInv' BY <1>1, LargeStep
<1>2. ASSUME NEW n \in Sizes, AllocNext(n) PROVE IInv' BY <1>2, NextStep
<1>3. ASSUME NEW n \in Sizes, AllocHere(n) PROVE IInv' BY <1>3, HereStep
<1>4. CASE Reset BY <1>4, ResetStep
<1>5. CASE Destroy BY <1>5, DestroyStep
<1>6. CASE UNCHANGED vars
  BY <1>6 DEF vars, IInv, TypeOK, InUse, Filled, Owned, AllPlaced, AllApart, Placed
<1> QED BY <1>1, <1>2, <1>3, <1>4, <1>5, <1>6 DEF Next, Alloc

(* The objects keep their places and the table its segments.               *)
THEOREM PoolInvariant == PoolAssumption /\ Spec => []IInv
<1>1. PoolAssumption /\ Init => IInv BY InitIInv
<1>2. PoolAssumption /\ IInv /\ [Next]_vars => IInv' BY StepIInv
<1> QED BY <1>1, <1>2, PoolAssumption, PTL DEF Spec

(* What the pool has handed out is apart and exists, large first objects   *)
(* excepted.                                                               *)
THEOREM PoolKeepsObjectsApart == Spec => []ObjectsAreApart
<1>1. IInv => ObjectsAreApart
  <2> SUFFICES ASSUME IInv PROVE ObjectsAreApart OBVIOUS
  <2>1. CASE destroyed BY <2>1 DEF IInv, ObjectsAreApart
  <2>2. CASE ~destroyed
    BY <2>2 DEF IInv, InUse, AllPlaced, Placed, AllApart, ObjectsAreApart
  <2> QED BY <2>1, <2>2
<1> QED BY <1>1, PoolInvariant, PoolAssumption, PTL

(* Every segment is in one slot, and the destructor of a pool that was     *)
(* never reset deletes all.                                                *)
THEOREM PoolOwnsEverySegmentOnce == Spec => []EverySegmentOnce
<1>1. IInv => EverySegmentOnce
  <2> SUFFICES ASSUME IInv PROVE EverySegmentOnce OBVIOUS
  <2>1. DOMAIN base = 0 .. base_size - 1 BY DEF IInv, TypeOK
  <2>2. ASSUME ~destroyed PROVE DOMAIN heap \subseteq {base[i] : i \in DOMAIN base}
    BY <2>1, <2>2 DEF IInv, InUse, Owned
  <2> QED BY <2>1, <2>2 DEF IInv, InUse, Owned, EverySegmentOnce
<1> QED BY <1>1, PoolInvariant, PoolAssumption, PTL

-----------------------------------------------------------------------------
(* What has not been cut off the current segment is as new[] left it, as   *)
(* long as neither a Reset nor a large first object has come in between.   *)
Unspoiled == resets = 0 /\ \A i \in DOMAIN objects : objects[i].alone

Clean ==
  Unspoiled /\ base_size > 0 =>
    \A x \in heap[base[base_index]].dirty : x < offset

ZeroInv == ZeroUntilReset /\ (~destroyed => Clean)

(* The object a call has handed out, and the contents of the segments.     *)
LEMMA HandOutZero ==
  ASSUME TypeOK, NEW h, NEW s \in DOMAIN h, h \in [DOMAIN h -> Segment],
         NEW cells \in SUBSET Nat, heap' = Write(h, s, cells),
         NEW o \in Object, objects' = Append(objects, o), count' = count + 1
  PROVE  /\ DOMAIN heap' = DOMAIN h
         /\ heap'[s].dirty = h[s].dirty \cup cells
         /\ \A x \in DOMAIN h : x # s => heap'[x] = h[x]
         /\ DOMAIN objects' = DOMAIN objects \cup {Len(objects) + 1}
         /\ DOMAIN objects = 1 .. Len(objects) /\ Len(objects) \in Nat
         /\ \A i \in DOMAIN objects : objects'[i] = objects[i]
         /\ objects'[Len(objects) + 1] = o
<1>1. /\ DOMAIN objects' = DOMAIN objects \cup {Len(objects) + 1}
      /\ \A i \in DOMAIN objects : objects'[i] = objects[i]
      /\ objects'[Len(objects) + 1] = o /\ DOMAIN heap' = DOMAIN h
  BY HandOutFacts
<1>2. DOMAIN objects = 1 .. Len(objects) /\ Len(objects) \in Nat BY DEF TypeOK
<1>3. heap'[s].dirty = h[s].dirty \cup cells /\ \A x \in DOMAIN h : x # s => heap'[x] = h[x]
  <2>1. heap' = [x \in DOMAIN h \cup {s} |->
                   IF x = s THEN [h[s] EXCEPT !.dirty = @ \cup cells] ELSE h[x]]
    BY DEF Write
  <2>2. h[s] \in Segment OBVIOUS
  <2>3. [h[s] EXCEPT !.dirty = @ \cup cells].dirty = h[s].dirty \cup cells
    BY <2>2 DEF Segment
  <2> QED BY <2>1, <2>3
<1> QED BY <1>1, <1>2, <1>3

(* What is handed out keeps the promise when it is zero, large, or comes   *)
(* too late.                                                               *)
LEMMA StillZero ==
  ASSUME ZeroUntilReset, resets' = resets,
         DOMAIN objects' = DOMAIN objects \cup {Len(objects) + 1},
         DOMAIN objects = 1 .. Len(objects), Len(objects) \in Nat,
         \A i \in DOMAIN objects : objects'[i] = objects[i],
         \/ objects'[Len(objects) + 1].zero
         \/ ~Unspoiled /\ resets \in Nat /\ objects'[Len(objects) + 1].size <= Blksize
  PROVE  ZeroUntilReset'
<1> SUFFICES ASSUME NEW i \in DOMAIN objects'
             PROVE  \/ objects'[i].zero
                    \/ /\ objects'[i].size <= Blksize
                       /\ resets' > 0 \/ \E j \in 1 .. i - 1 : ~objects'[j].alone
  BY DEF ZeroUntilReset
<1>1. CASE i \in DOMAIN objects
  <2>1. /\ objects'[i] = objects[i]
        /\ \A j \in 1 .. i - 1 : j \in DOMAIN objects /\ objects'[j] = objects[j]
    BY <1>1
  <2> QED BY <1>1, <2>1 DEF ZeroUntilReset
<1>2. CASE i = Len(objects) + 1
  <2>1. 1 .. i - 1 = DOMAIN objects BY <1>2
  <2>2. CASE objects'[i].zero BY <2>2
  <2>3. CASE ~Unspoiled /\ resets \in Nat /\ objects'[i].size <= Blksize
    <3>1. resets > 0 \/ \E j \in DOMAIN objects : ~objects[j].alone BY <2>3 DEF Unspoiled
    <3> QED BY <2>1, <2>3, <3>1
  <2> QED BY <1>2, <2>2, <2>3
<1> QED BY <1>1, <1>2

LEMMA HereZero ==
  ASSUME PoolAssumption, IInv, ZeroInv, NEW n \in Sizes, AllocHere(n)
  PROVE  ZeroInv'
<1> DEFINE s == base[base_index]
<1>1. TypeOK /\ Filled /\ Owned /\ Clean /\ ~destroyed /\ ZeroUntilReset
  BY DEF IInv, InUse, ZeroInv, AllocHere
<1>2. /\ n \in Nat \ {0} /\ offset \in Nat /\ resets \in Nat
      /\ heap \in [DOMAIN heap -> Segment]
  BY <1>1 DEF PoolAssumption, TypeOK
<1>3. /\ base_size > 0 /\ n <= Blksize /\ offset' = offset + n
      /\ HandOut(heap, s, offset, n, TRUE)
      /\ UNCHANGED <<base, base_size, base_index, resets, destroyed>>
  BY DEF AllocHere
<1>4. s \in DOMAIN heap /\ s \in Nat
  <2>1. base_index \in 0 .. base_size - 1 /\ s # NoSegment
    BY <1>1, <1>3 DEF Filled, TypeOK
  <2> QED BY <2>1, <1>1 DEF Owned, TypeOK
<1> HIDE DEF s
<1> DEFINE o == [segment |-> s, at |-> offset, size |-> n,
                 zero |-> Cells(offset, n) \cap heap[s].dirty = {}, alone |-> TRUE]
<1>a. o \in Object /\ o.size = n /\ o.alone /\ Cells(offset, n) \in SUBSET Nat
  BY <1>2, <1>4 DEF Object, Cells
<1>b. o.zero <=> Cells(offset, n) \cap heap[s].dirty = {} BY Zenon
<1>c. /\ heap' = Write(heap, s, Cells(offset, n))
      /\ objects' = Append(objects, o) /\ count' = count + 1
  BY <1>3 DEF HandOut
<1> HIDE DEF o
<1>5. /\ heap'[s].dirty = heap[s].dirty \cup Cells(offset, n)
      /\ DOMAIN objects' = DOMAIN objects \cup {Len(objects) + 1}
      /\ DOMAIN objects = 1 .. Len(objects) /\ Len(objects) \in Nat
      /\ \A i \in DOMAIN objects : objects'[i] = objects[i]
      /\ objects'[Len(objects) + 1] = o
  BY <1>1, <1>2, <1>4, <1>a, <1>c, HandOutZero
<1>6. heap[s] \in Segment BY <1>2, <1>4
<1>7. Unspoiled => \A x \in heap[s].dirty : x < offset BY <1>1, <1>3 DEF Clean, s
<1>8. ZeroUntilReset'
  <2>1. Unspoiled => Cells(offset, n) \cap heap[s].dirty = {}
    BY <1>2, <1>6, <1>7 DEF Cells, Segment
  <2> QED BY <1>1, <1>2, <1>3, <1>5, <1>a, <1>b, <2>1, StillZero
<1>9. Clean'
  <2> SUFFICES ASSUME Unspoiled', NEW x \in heap'[s].dirty PROVE x < offset'
    BY <1>3 DEF Clean, s
  <2>1. Unspoiled BY <1>3, <1>5 DEF Unspoiled
  <2>2. x \in Nat /\ (x \in heap[s].dirty => x < offset)
        /\ (x \in Cells(offset, n) => x < offset + n)
    BY <2>1, <1>2, <1>5, <1>6, <1>7 DEF Cells, Segment
  <2> QED BY <2>2, <1>2, <1>3, <1>5
<1> QED BY <1>8, <1>9 DEF ZeroInv

LEMMA NextZero ==
  ASSUME PoolAssumption, IInv, ZeroInv, NEW n \in Sizes, AllocNext(n)
  PROVE  ZeroInv'
<1> DEFINE slot == NextSlot
           isNew == Table[slot] = NoSegment
           s == IF isNew THEN made + 1 ELSE Table[slot]
           all == [x \in DOMAIN heap \cup {s} |->
                     IF isNew /\ x = s THEN NewSegment(Blksize) ELSE heap[x]]
<1>1. TypeOK /\ Filled /\ Owned /\ ~destroyed /\ ZeroUntilReset
  BY DEF IInv, InUse, ZeroInv, AllocNext
<1>2. /\ n \in Nat \ {0} /\ Blksize \in Nat /\ offset \in Nat /\ base_size \in Nat
      /\ base_index \in Nat /\ made \in Nat /\ resets \in Nat
      /\ heap \in [DOMAIN heap -> Segment]
  BY <1>1 DEF PoolAssumption, TypeOK
<1>3. /\ n <= Blksize /\ (base_size = 0 \/ offset + n > Blksize)
      /\ base' = [Table EXCEPT ![slot] = s] /\ base_index' = slot
      /\ HandOut(all, s, 0, n, TRUE)
      /\ base_size' = TableSize /\ offset' = n /\ resets' = resets
  BY DEF AllocNext
<1>4. /\ slot \in 0 .. TableSize - 1 /\ TableSize \in Nat /\ base_size <= TableSize
      /\ slot = IF offset > 0 THEN base_index + 1 ELSE 0
      /\ Table \in [0 .. TableSize - 1 -> Slot]
      /\ \A i \in 0 .. base_size - 1 : Table[i] = base[i]
      /\ \A i \in base_size .. TableSize - 1 : Table[i] = NoSegment
  BY <1>1, TableFacts
<1> HIDE DEF slot
<1>5. base'[slot] = s BY <1>3, <1>4
<1>6. resets = 0 => isNew
  <2>1. CASE slot >= base_size BY <2>1, <1>2, <1>4
  <2>2. CASE slot < base_size
    <3>1. slot \in 0 .. base_size - 1 /\ Table[slot] = base[slot] BY <2>2, <1>2, <1>4
    <3>2. slot > base_index BY <2>2, <1>2, <1>3, <1>4
    <3> QED BY <3>1, <3>2, <1>1 DEF Filled
  <2> QED BY <2>1, <2>2, <1>2, <1>4
<1>7. s \in Nat /\ s \in DOMAIN all /\ all \in [DOMAIN all -> Segment]
  <2>1. NewSegment(Blksize) \in Segment BY <1>2 DEF NewSegment, Segment
  <2>2. CASE isNew
    <3>1. s = made + 1 BY <2>2
    <3> QED BY <2>1, <2>2, <3>1, <1>2
  <2>3. CASE ~isNew
    <3>1. slot \in 0 .. base_size - 1 /\ s = base[slot] /\ s # NoSegment
      BY <2>3, <1>2, <1>4
    <3>2. s \in DOMAIN heap /\ s \in Nat BY <3>1, <1>1 DEF Owned, TypeOK
    <3> QED BY <2>3, <3>2, <1>2
  <2> QED BY <2>2, <2>3
<1>8. isNew => all[s].dirty = {} BY DEF NewSegment
<1> HIDE DEF s, all, isNew
<1> DEFINE o == [segment |-> s, at |-> 0, size |-> n,
                 zero |-> Cells(0, n) \cap all[s].dirty = {}, alone |-> TRUE]
<1>a. o \in Object /\ o.size = n /\ Cells(0, n) \in SUBSET Nat
  BY <1>2, <1>7 DEF Object, Cells
<1>b. o.zero <=> Cells(0, n) \cap all[s].dirty = {} BY Zenon
<1>c. /\ heap' = Write(all, s, Cells(0, n))
      /\ objects' = Append(objects, o) /\ count' = count + 1
  BY <1>3 DEF HandOut
<1> HIDE DEF o
<1>9. /\ heap'[s].dirty = all[s].dirty \cup Cells(0, n)
      /\ DOMAIN objects' = DOMAIN objects \cup {Len(objects) + 1}
      /\ DOMAIN objects = 1 .. Len(objects) /\ Len(objects) \in Nat
      /\ \A i \in DOMAIN objects : objects'[i] = objects[i]
      /\ objects'[Len(objects) + 1] = o
  <2>1. TypeOK BY <1>1
  <2> QED BY <2>1, <1>7, <1>a, <1>c, HandOutZero
<1>10. ZeroUntilReset'
  <2>1. Unspoiled => Cells(0, n) \cap all[s].dirty = {} BY <1>6, <1>8 DEF Unspoiled
  <2> QED BY <1>1, <1>2, <1>3, <1>9, <1>a, <1>b, <2>1, StillZero
<1>11. Clean'
  <2> SUFFICES ASSUME Unspoiled', NEW x \in heap'[s].dirty PROVE x < offset'
    BY <1>3, <1>5 DEF Clean
  <2>1. all[s].dirty = {} BY <1>3, <1>6, <1>8 DEF Unspoiled
  <2> QED BY <2>1, <1>2, <1>3, <1>9 DEF Cells
<1> QED BY <1>10, <1>11 DEF ZeroInv

LEMMA LargeZero ==
  ASSUME PoolAssumption, IInv, ZeroInv, NEW n \in Sizes, AllocLarge(n)
  PROVE  ZeroInv'
<1> DEFINE slot == NextSlot
           s == made + 1
           rest == [x \in (DOMAIN heap \ {Table[slot]}) \cup {s} |->
                      IF x = s THEN NewSegment(n) ELSE heap[x]]
<1>1. TypeOK /\ Filled /\ Owned /\ ~destroyed /\ ZeroUntilReset /\ Clean
  BY DEF IInv, InUse, ZeroInv, AllocLarge
<1>2. /\ n \in Nat \ {0} /\ offset \in Nat /\ base_size \in Nat
      /\ base_index \in Nat /\ made \in Nat /\ resets \in Nat
      /\ DOMAIN heap \subseteq 1 .. made
      /\ heap \in [DOMAIN heap -> Segment] /\ NoSegment \notin Nat
  BY <1>1 DEF PoolAssumption, TypeOK
<1>3. /\ base' = IF slot > 0 THEN [Table EXCEPT ![slot] = Table[slot - 1], ![slot - 1] = s]
                 ELSE [Table EXCEPT ![slot] = s]
      /\ base_index' = slot /\ HandOut(rest, s, 0, n, slot > 0)
      /\ base_size' = TableSize /\ UNCHANGED <<offset, resets, destroyed>>
  BY DEF AllocLarge
<1>4. /\ slot \in 0 .. TableSize - 1 /\ TableSize \in Nat /\ base_size <= TableSize
      /\ slot = IF offset > 0 THEN base_index + 1 ELSE 0
      /\ Table \in [0 .. TableSize - 1 -> Slot]
      /\ \A i \in 0 .. base_size - 1 : Table[i] = base[i]
      /\ \A i \in base_size .. TableSize - 1 : Table[i] = NoSegment
  BY <1>1, TableFacts
<1> HIDE DEF slot
<1>5. s \in Nat /\ s \notin DOMAIN heap /\ s \in DOMAIN rest
      /\ rest \in [DOMAIN rest -> Segment] /\ rest[s].dirty = {}
      /\ DOMAIN rest = (DOMAIN heap \ {Table[slot]}) \cup {s}
      /\ \A x \in DOMAIN heap \ {Table[slot]} : rest[x] = heap[x]
  <2>1. NewSegment(n) \in Segment /\ NewSegment(n).dirty = {}
    BY <1>2 DEF NewSegment, Segment
  <2>2. s \in Nat /\ s \notin DOMAIN heap BY <1>2
  <2> QED BY <2>1, <2>2, <1>2
<1> HIDE DEF s, rest
<1> DEFINE o == [segment |-> s, at |-> 0, size |-> n,
                 zero |-> Cells(0, n) \cap rest[s].dirty = {}, alone |-> slot > 0]
<1>a. o \in Object /\ Cells(0, n) \in SUBSET Nat
  BY <1>2, <1>5 DEF Object, Cells
<1>b. o.zero <=> Cells(0, n) \cap rest[s].dirty = {} BY Zenon
<1>c. o.alone => slot > 0 BY Zenon
<1>d. /\ heap' = Write(rest, s, Cells(0, n))
      /\ objects' = Append(objects, o) /\ count' = count + 1
  BY <1>3 DEF HandOut
<1> HIDE DEF o
<1>6. /\ DOMAIN heap' = DOMAIN rest
      /\ \A x \in DOMAIN rest : x # s => heap'[x] = rest[x]
      /\ DOMAIN objects' = DOMAIN objects \cup {Len(objects) + 1}
      /\ DOMAIN objects = 1 .. Len(objects) /\ Len(objects) \in Nat
      /\ \A i \in DOMAIN objects : objects'[i] = objects[i]
      /\ objects'[Len(objects) + 1] = o
  BY <1>1, <1>5, <1>a, <1>d, HandOutZero
<1>7. ZeroUntilReset' BY <1>1, <1>3, <1>5, <1>6, <1>b, StillZero
<1>8. Clean'
  <2> SUFFICES ASSUME Unspoiled' PROVE \A x \in heap'[base'[base_index']].dirty : x < offset'
    BY DEF Clean
  <2>1. slot > 0 /\ Unspoiled BY <1>3, <1>6, <1>c DEF Unspoiled
  <2>2. offset > 0 /\ slot = base_index + 1 BY <2>1, <1>2, <1>4
  <2>3. base_size > 0 /\ base_index \in 0 .. base_size - 1 /\ base[base_index] # NoSegment
    BY <2>2, <1>1, <1>2 DEF Filled
  <2>4. base'[slot] = base[base_index]
    <3>1. base' = [Table EXCEPT ![slot] = Table[slot - 1], ![slot - 1] = s] BY <2>1, <1>3
    <3>2. slot - 1 = base_index /\ slot - 1 # slot /\ slot - 1 \in 0 .. TableSize - 1
      BY <2>2, <2>3, <1>2, <1>4
    <3> QED BY <3>1, <3>2, <2>3, <1>4
  <2>5. base[base_index] \in DOMAIN heap BY <2>3, <1>1 DEF Owned
  <2>6. base[base_index] # Table[slot]
    <3>1. CASE slot < base_size
      <4>1. slot \in 0 .. base_size - 1 /\ Table[slot] = base[slot] /\ slot # base_index
        BY <3>1, <2>2, <1>2, <1>4
      <4> QED BY <4>1, <2>3, <1>1 DEF Owned
    <3>2. CASE slot >= base_size BY <3>2, <2>3, <1>2, <1>4
    <3> QED BY <3>1, <3>2, <1>2, <1>4
  <2>7. heap'[base'[base_index']] = heap[base[base_index]]
    BY <2>4, <2>5, <2>6, <1>3, <1>5, <1>6
  <2> QED BY <2>1, <2>3, <2>7, <1>1, <1>3 DEF Clean
<1> QED BY <1>7, <1>8 DEF ZeroInv

(* An object is zero, unless a Reset or a large first object came before.  *)
THEOREM PoolZeroUntilReset == Spec => []ZeroUntilReset
<1>1. Init => ZeroInv
  BY DEF Init, ZeroInv, ZeroUntilReset, Clean
<1>2. PoolAssumption /\ IInv /\ ZeroInv /\ [Next]_vars => ZeroInv'
  <2> SUFFICES ASSUME PoolAssumption, IInv, ZeroInv, [Next]_vars PROVE ZeroInv' OBVIOUS
  <2>1. ASSUME NEW n \in Sizes, AllocLarge(n) PROVE ZeroInv' BY <2>1, LargeZero
  <2>2. ASSUME NEW n \in Sizes, AllocNext(n) PROVE ZeroInv' BY <2>2, NextZero
  <2>3. ASSUME NEW n \in Sizes, AllocHere(n) PROVE ZeroInv' BY <2>3, HereZero
  <2>4. CASE Reset
    <3>1. resets \in Nat BY DEF IInv, TypeOK
    <3>2. objects' = <<>> /\ resets' = resets + 1 BY <2>4 DEF Reset
    <3> QED BY <3>1, <3>2 DEF ZeroInv, ZeroUntilReset, Clean, Unspoiled
  <2>5. CASE Destroy BY <2>5 DEF Destroy, ZeroInv, ZeroUntilReset, Clean
  <2>6. CASE UNCHANGED vars
    BY <2>6 DEF vars, ZeroInv, ZeroUntilReset, Clean, Unspoiled
  <2> QED BY <2>1, <2>2, <2>3, <2>4, <2>5, <2>6 DEF Next, Alloc
<1>3. ZeroInv => ZeroUntilReset BY DEF ZeroInv
<1> QED BY <1>1, <1>2, <1>3, PoolInvariant, PoolAssumption, PTL DEF Spec
=============================================================================
