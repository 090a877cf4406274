----------------------------- MODULE FuseFilter ----------------------------
(* BinaryFuse16 of crates/xorf: the filter of the assets of a claim. Its   *)
(* construction sorts the hashes of the keys by blocks, counts them in the *)
(* three cells each of them has, peels off the cells with one hash left    *)
(* and assigns the fingerprints in the opposite order; with another seed   *)
(* it starts anew. Hashing is modelled by a choice of the cells and the    *)
(* block of each key at each attempt. The values that are XORed, hashes    *)
(* and fingerprints, are symbolic: sets of what went into them.            *)
EXTENDS Integers, SequencesExt, FiniteSetsExt

CONSTANTS
  KeyLists,       \* sequences of keys
  SegmentLength, SegmentCount,
  Blocks,         \* 1 << block_bits
  MaxIter         \* 1000

ASSUME FuseAssumption ==
  /\ \A list \in KeyLists : list \in Seq(Range(list)) /\ list # <<>>
  /\ SegmentLength \in Nat \ {0} /\ SegmentCount \in Nat \ {0} /\ Blocks \in Nat \ {0} /\ MaxIter \in Nat

VARIABLE fuse

Xor(a, b) == (a \ b) \union (b \ a)
XorPos(a, b) == (((a % 2) + (b % 2)) % 2) + 2 * (((a \div 2) + (b \div 2)) % 2)

CellCount == (SegmentCount + 2) * SegmentLength
Cells == 0 .. CellCount - 1
(* hash_of_hash: a cell, and one in each of the two segments behind its own*)
CellTriples ==
  {t \in Cells \X Cells \X Cells :
     /\ t[1] < SegmentCount * SegmentLength
     /\ \A i \in {2, 3} : t[i] \div SegmentLength = t[1] \div SegmentLength + i - 1}

Start(list) == [b \in 0 .. Blocks - 1 |-> (b * Len(list)) \div Blocks]
EmptyCells == [i \in Cells |-> [count |-> 0, pos |-> 0, hash |-> {}]]
Blank(list, iter) ==
  [keys |-> list, iter |-> iter, phase |-> "seed", i |-> 1, hash |-> <<>>, start |-> Start(list),
   order |-> [s \in 0 .. Len(list) |-> IF s = Len(list) THEN {0} ELSE {}], table |-> EmptyCells, duplicates |-> 0,
   alone |-> <<>>, stack |-> <<>>, prints |-> [c \in Cells |-> {<<"random", c>>}]]
NewFuses == {Blank(list, 1) : list \in KeyLists}
FuseInit == fuse \in NewFuses

(* The block whose next slot is free, from the hash's own block on *)
FreeBlock(block) ==
  LET free == {d \in 0 .. Blocks - 1 : fuse.order[fuse.start[(block + d) % Blocks]] = {}}
  IN  IF free = {} THEN -1 ELSE (block + Min(free)) % Blocks

Size == Len(fuse.keys)

(* An attempt: the hashes of the keys under another seed. t2count has six  *)
(* bits for the hashes in a cell.                                          *)
CountLimit == 64
Seed ==
  /\ fuse.phase = "seed"
  /\ \E t \in [Range(fuse.keys) -> CellTriples], b \in [Range(fuse.keys) -> 0 .. Blocks - 1] :
       /\ \A c \in Cells : Cardinality({i \in 1 .. Size : \E j \in 1 .. 3 : t[fuse.keys[i]][j] = c}) < CountLimit
       /\ fuse' = [fuse EXCEPT !.phase = "place", !.hash = [k \in Range(fuse.keys) |-> [cells |-> t[k], block |-> b[k]]]]

PlaceKey ==
  LET k == fuse.keys[fuse.i]
      b == FreeBlock(fuse.hash[k].block)
  IN  /\ fuse.phase = "place" /\ b # -1
      /\ fuse' = [fuse EXCEPT !.order[fuse.start[b]] = {k}, !.start[b] = @ + 1,
                    !.i = IF @ = Size THEN 0 ELSE @ + 1, !.phase = IF fuse.i = Size THEN "count" ELSE @]

Toggle(table, k, step) ==
  [c \in DOMAIN table |->
     IF \E j \in 1 .. 3 : fuse.hash[k].cells[j] = c
     THEN LET j == CHOOSE j \in 1 .. 3 : fuse.hash[k].cells[j] = c
          IN  [count |-> table[c].count + step, pos |-> XorPos(table[c].pos, j - 1), hash |-> Xor(table[c].hash, {k})]
     ELSE table[c]]

(* A hash that meets only its own copy in a cell is a duplicate, and is    *)
(* taken back.                                                             *)
CountKey ==
  LET k == CHOOSE x \in Range(fuse.keys) : fuse.order[fuse.i] = {x}
      added == Toggle(fuse.table, k, 1)
      again == \E j \in 1 .. 3 : LET c == added[fuse.hash[k].cells[j]] IN c.hash = {} /\ c.count = 2
  IN  /\ fuse.phase = "count"
      /\ fuse' = [fuse EXCEPT !.table = IF again THEN fuse.table ELSE added,
                    !.duplicates = IF again THEN @ + 1 ELSE @,
                    !.i = IF @ = Size - 1 THEN 0 ELSE @ + 1, !.phase = IF fuse.i = Size - 1 THEN "queue" ELSE @]

Enqueue ==
  /\ fuse.phase = "queue"
  /\ fuse' = [fuse EXCEPT !.alone = IF fuse.table[fuse.i].count = 1 THEN Append(@, fuse.i) ELSE @,
                !.i = @ + 1, !.phase = IF fuse.i = CellCount - 1 THEN "peel" ELSE @]

(* The last cell of the queue that still has one hash gives it up, and the *)
(* hash's other two cells are left with one less.                          *)
Peel ==
  LET c == Last(fuse.alone)
      k == CHOOSE x \in Range(fuse.keys) : fuse.table[c].hash = {x}
      found == fuse.table[c].pos
      other == [d \in 1 .. 2 |-> fuse.hash[k].cells[((found + d) % 3) + 1]]
      left == Toggle(fuse.table, k, -1)
      Ready(o) == IF fuse.table[o].count = 2 THEN <<o>> ELSE <<>>
  IN  /\ fuse.phase = "peel" /\ fuse.alone # <<>>
      /\ fuse' = IF fuse.table[c].count # 1 THEN [fuse EXCEPT !.alone = Front(@)]
                 ELSE [fuse EXCEPT !.alone = Front(@) \o Ready(other[1]) \o Ready(other[2]), !.stack = Append(@, [key |-> k, found |-> found]),
                         !.table = [left EXCEPT ![c] = fuse.table[c]]]

PeelEnds ==
  /\ fuse.phase = "peel" /\ fuse.alone = <<>>
  /\ IF Len(fuse.stack) + fuse.duplicates = Size THEN fuse' = [fuse EXCEPT !.phase = "assign", !.i = Len(fuse.stack)]
     ELSE IF fuse.iter = MaxIter THEN fuse' = [fuse EXCEPT !.phase = "failed"]
     ELSE fuse' = Blank(fuse.keys, fuse.iter + 1)

\* A mutant: the fingerprints are assigned in the order the hashes were peeled.
AssignForward ==
  LET e == fuse.stack[Len(fuse.stack) + 1 - fuse.i]
      cells == fuse.hash[e.key].cells
      At(d) == cells[((e.found + d) % 3) + 1]
  IN  /\ fuse.phase = "assign"
      /\ fuse' = [fuse EXCEPT !.prints[At(0)] = Xor({<<"key", e.key>>}, Xor(fuse.prints[At(1)], fuse.prints[At(2)])),
                              !.i = @ - 1, !.phase = IF fuse.i = 1 THEN "built" ELSE @]

Assign ==
  LET e == fuse.stack[fuse.i]
      cells == fuse.hash[e.key].cells
      At(d) == cells[((e.found + d) % 3) + 1]
  IN  /\ fuse.phase = "assign"
      /\ fuse' = [fuse EXCEPT !.prints[At(0)] = Xor({<<"key", e.key>>}, Xor(fuse.prints[At(1)], fuse.prints[At(2)])),
                              !.i = @ - 1, !.phase = IF fuse.i = 1 THEN "built" ELSE @]

FuseNext == Seed \/ PlaceKey \/ CountKey \/ Enqueue \/ Peel \/ PeelEnds \/ Assign
FuseSpec == FuseInit /\ [][FuseNext]_fuse

contains(k) ==
  LET cells == fuse.hash[k].cells
  IN  {<<"key", k>>} = Xor(fuse.prints[cells[1]], Xor(fuse.prints[cells[2]], fuse.prints[cells[3]]))

-----------------------------------------------------------------------------
(* A filter that was built contains every key it was built from, whatever  *)
(* cells the keys share and whether a key is listed twice, and whatever    *)
(* the values of the fingerprints were before.                             *)
NoFalseNegatives == fuse.phase = "built" => \A k \in Range(fuse.keys) : contains(k)

(* The sort by blocks loses no hash and never runs out of slots, however   *)
(* the hashes crowd in a block: a full block goes on in the next, and past *)
(* the last block the search starts again at the first.                    *)
EveryHashPlaced ==
  /\ fuse.phase = "place" => FreeBlock(fuse.hash[fuse.keys[fuse.i]].block) # -1
  /\ fuse.phase = "count" => \A k \in Range(fuse.keys) :
       Cardinality({s \in 0 .. Size - 1 : fuse.order[s] = {k}}) = Cardinality({i \in 1 .. Size : fuse.keys[i] = k})

(* No cell is queued twice, and those with several hashes are not queued:  *)
(* alone has room for all cells, also where Peel writes the second of the  *)
(* other cells behind the first before it is known whether it is ready.    *)
QueueFits == fuse.phase = "peel" => Len(fuse.alone) <= Cardinality({c \in Cells : fuse.table[c].count <= 1})

(* A filter that is built has no false negatives, no hash is lost on the   *)
(* way to it, and the queue of its cells does not overflow.                *)
FilterHolds == NoFalseNegatives /\ EveryHashPlaced /\ QueueFits
=============================================================================
