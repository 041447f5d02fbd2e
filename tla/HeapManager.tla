---------------------------- MODULE HeapManager ------------------------------
(***************************************************************************)
(* malloc_hardcore.cpp: blocks behind their metadata, which link them in a *)
(* list by size and in one by address.  Memory is counted in units of the  *)
(* size of the metadata, and requests are whole units.  A pointer is the   *)
(* place of a unit, 0 is null; fields stay readable where a block was      *)
(* merged away.  sbrk and mmap do not fail, callers write nothing into     *)
(* their blocks, give none of mmap to srealloc and stop once two of their  *)
(* blocks overlap.  num_free_blocks and num_free_bytes, which steer        *)
(* nothing else, are left out.                                             *)
(***************************************************************************)
EXTENDS Integers, Sequences, SequencesExt, FiniteSets, Bags, TLC

CONSTANTS Sizes,         \* units asked for
          MMAP_MIN_SIZE,
          MaxBreak,      \* bound: units of heap in use
          PageEnd,       \* last unit of the pages behind the heap
          MmapPlaces,    \* bound: where mmap puts blocks
          MaxCalls       \* bound: calls of the library

METASIZE == 1
MIN_REMAINING == 2       \* 128 bytes are more than one unit

HeapAssumption ==
  /\ Sizes \subseteq 1 .. MMAP_MIN_SIZE
  /\ MaxBreak <= PageEnd /\ MaxBreak <= MMAP_MIN_SIZE
  /\ \A x \in MmapPlaces : x > PageEnd
  /\ MaxCalls \in Nat

VARIABLES heap,     \* memory, program break and the members of Block_list
          held,     \* bag of <<address, size>>: the callers' blocks
          released, \* the address given back last, or 0
          calls     \* calls made

vars == <<heap, held, released, calls>>

Zero ==
  [size |-> 0, is_free |-> FALSE, next_by_size |-> 0, prev_by_size |-> 0, addr |-> 0,
   prev_alloc_addr |-> 0, next_alloc_addr |-> 0, cookie |-> FALSE]

(* mem is defined on the units that are mapped.                            *)
Empty ==
  [mem |-> [x \in 1 .. PageEnd |-> Zero], brk |-> 1, mapped |-> 0,
   head |-> 0, tail |-> 0, mmap_head |-> 0, mmap_tail |-> 0, last_alloc_Meta |-> 0,
   num_allocated_blocks |-> 0, num_allocated_bytes |-> 0, status |-> "running"]

-----------------------------------------------------------------------------
Mapped(h, x) == x \in DOMAIN h.mem

Get(h, x) == IF Mapped(h, x) THEN h.mem[x] ELSE Zero

(* What ends the process: nothing after it changes how it ended.           *)
Stop(h, how) == [h EXCEPT !.status = IF @ = "running" THEN how ELSE @]

Reading(h, pointers) ==
  IF \A x \in pointers : Mapped(h, x) THEN h ELSE Stop(h, "segfault")

Set(h, x, field, value) ==
  IF Mapped(h, x) THEN [h EXCEPT !.mem[x][field] = value] ELSE Stop(h, "segfault")

(* The blocks a walk from x meets along next_by_size, up to a null or wild *)
(* pointer or to a block that it has met before.                           *)
ListFrom(h, x) ==
  LET After(s) == IF s = << >> THEN x ELSE h.mem[Last(s)].next_by_size
      walk[n \in 0 .. Cardinality(DOMAIN h.mem)] ==
        IF n = 0 THEN << >>
        ELSE LET s == walk[n - 1]
             IN  IF Mapped(h, After(s)) /\ After(s) \notin ToSet(s) THEN Append(s, After(s)) ELSE s
  IN  walk[Cardinality(DOMAIN h.mem)]

(* A walk that does not find what it looks for.                            *)
WalkOff(h, x) ==
  LET list == ListFrom(h, x)
      end  == IF list = << >> THEN x ELSE h.mem[Last(list)].next_by_size
  IN  CASE end = 0 -> h
        [] Mapped(h, end) -> Stop(h, "hang")
        [] OTHER -> Stop(h, "segfault")

(* The first block of the list that a predicate holds for, or 0.           *)
FirstOf(list, Is(_)) ==
  LET at == {i \in DOMAIN list : Is(list[i])}
  IN  IF at = {} THEN 0 ELSE list[CHOOSE i \in at : \A j \in at : i <= j]

checkCookie(h, x) == IF Mapped(h, x) /\ ~ Get(h, x).cookie THEN Stop(h, "exit") ELSE h

(* The walks of smalloc and freeBlock check the cookie of all they meet.   *)
Checked(h, list, found) ==
  IF \A i \in DOMAIN list : Get(h, list[i]).cookie \/ \E j \in 1 .. i - 1 : list[j] = found
  THEN h ELSE Stop(h, "exit")

-----------------------------------------------------------------------------
Big(h, block) == Get(h, block).size >= MMAP_MIN_SIZE

WithHead(h, block) == IF Big(h, block) THEN [h EXCEPT !.mmap_head = block] ELSE [h EXCEPT !.head = block]

WithTail(h, block) == IF Big(h, block) THEN [h EXCEPT !.mmap_tail = block] ELSE [h EXCEPT !.tail = block]

(* In front of a block of its size a block is linked backwards only, and   *)
(* does not become the head.                                               *)
PutBefore(h, block, itr, list_head) ==
  LET prev == Get(h, itr).prev_by_size
      next == Set(h, block, "next_by_size", itr)
  IN  CASE Get(h, itr).size = Get(h, block).size ->
             Set(Set(next, block, "prev_by_size", IF itr = list_head THEN 0 ELSE prev),
                 itr, "prev_by_size", block)
        [] Get(h, itr).size # Get(h, block).size /\ itr = list_head ->
             WithHead(Set(next, itr, "prev_by_size", block), block)
        [] OTHER ->
             Set(Set(Set(next, block, "prev_by_size", prev), prev, "next_by_size", block),
                 itr, "prev_by_size", block)

PutLast(h, block) ==
  LET tail == IF Big(h, block) THEN h.mmap_tail ELSE h.tail
  IN  WithTail(Set(Set(h, tail, "next_by_size", block), block, "prev_by_size", tail), block)

(* insertAux from its loop on; the walk starts at first.                   *)
Place(h, block, first, list_head) ==
  LET b     == Get(h, block)
      Fits(itr) == LET i == Get(h, itr)
                   IN  i.size > b.size \/ (i.size = b.size /\ b.addr < i.addr)
      itr   == FirstOf(ListFrom(h, first), Fits)
  IN  IF itr # 0 THEN PutBefore(h, block, itr, list_head) ELSE PutLast(WalkOff(h, first), block)

insertNew(h, block, size) ==
  LET made  == [h EXCEPT !.mem[block] = [@ EXCEPT !.is_free = FALSE, !.next_by_size = 0,
                                                  !.prev_by_size = 0, !.size = size,
                                                  !.addr = block + METASIZE, !.cookie = TRUE],
                         !.num_allocated_blocks = @ + 1,
                         !.num_allocated_bytes = @ + size]
      first == IF Big(made, block) THEN h.mmap_head ELSE h.head
  IN  IF first = 0 THEN WithTail(WithHead(made, block), block) ELSE Place(made, block, first, first)

-----------------------------------------------------------------------------
(* insertAux of a part of a split block: it stays where it is while its    *)
(* neighbours are in order.                                                *)
InOrder(h, b) ==
  LET Before == b.prev_by_size # 0 /\ Get(h, b.prev_by_size).size <= b.size
      After  == b.next_by_size # 0 /\ Get(h, b.next_by_size).size >= b.size
  IN  \/ Before /\ (After \/ b.next_by_size = 0)
      \/ After /\ b.prev_by_size = 0

TakeOut(h, b) ==
  CASE b.prev_by_size = 0 -> IF h.head = 0 THEN h ELSE Set(h, h.head, "prev_by_size", 0)
    [] b.prev_by_size # 0 /\ b.next_by_size = 0 ->
         Set([h EXCEPT !.tail = b.prev_by_size], b.prev_by_size, "next_by_size", 0)
    [] OTHER ->
         Set(Set(h, b.prev_by_size, "next_by_size", b.next_by_size),
             b.next_by_size, "prev_by_size", b.prev_by_size)

insertPart(h, block, is_free) ==
  LET marked == Set(Set(h, block, "cookie", TRUE), block, "is_free", is_free)
      b      == Get(marked, block)
      read   == Reading(marked, {b.prev_by_size, b.next_by_size} \ {0})
      first  == IF Big(h, block) THEN h.mmap_head ELSE h.head
  IN  IF InOrder(read, b) THEN read
      ELSE Place(TakeOut(read, b), block, first, IF b.prev_by_size = 0 THEN b.next_by_size ELSE first)

(* The second part begins a unit further than the first ends, so that its  *)
(* own last unit is the metadata of the block behind; who follows it by    *)
(* address is what was in memory.                                          *)
splitTheBlock(h, block, size1, size2) ==
  LET b    == Get(h, block)
      part == b.addr + METASIZE + size1
      cut  == Set(Set(Set(Set(Set(h,
                part, "prev_by_size", block), part, "prev_alloc_addr", block),
                part, "next_by_size", b.next_by_size), part, "size", size2),
                part, "addr", part + METASIZE)
      both == Set(Set(Set(cut, block, "size", size1), block, "next_by_size", part),
                  block, "next_alloc_addr", part)
  IN  insertPart(insertPart(
        [both EXCEPT !.num_allocated_bytes = @ - METASIZE, !.num_allocated_blocks = @ + 1,
                     !.last_alloc_Meta = IF @ = block THEN part ELSE @,
                     !.tail = IF b.next_by_size = 0 THEN part ELSE @], block, FALSE), part, TRUE)

(* A block that is given away is split if enough would be left of it.      *)
SplitIfLarge(h, block, size) ==
  LET left == Get(h, block).size - (METASIZE + size)
  IN  IF left >= MIN_REMAINING THEN splitTheBlock(h, block, size, left) ELSE h

-----------------------------------------------------------------------------
(* mergeBlock: the blocks behind from, up to the one that follows to.      *)
Merged(h, from, to) ==
  LET end == Get(h, to).next_alloc_addr
      chain[n \in 0 .. Cardinality(DOMAIN h.mem)] ==
        IF n = 0 THEN << >>
        ELSE LET s == chain[n - 1]
                 next == Get(h, IF s = << >> THEN from ELSE Last(s)).next_alloc_addr
             IN  IF next \in {0, end} \cup ToSet(s) THEN s ELSE Append(s, next)
  IN  chain[Cardinality(DOMAIN h.mem)]

Joined(h, from, blocks) ==
  LET more == FoldLeft(LAMBDA sum, x : sum + Get(h, x).size + METASIZE, 0, blocks)
      all  == ToSet(blocks) \cup {from}
  IN  [h EXCEPT !.mem = [x \in DOMAIN @ |->
                           [@[x] EXCEPT !.size = IF x = from THEN @ + more ELSE @,
                                        !.is_free = @ \/ x \in all]],
                !.num_allocated_bytes = @ + METASIZE * Len(blocks),
                !.num_allocated_blocks = @ - Len(blocks)]

(* One merged block leaves both lists.                                     *)
Ejected(h, block) ==
  LET b == Get(h, block)
      byAddress == IF block = h.last_alloc_Meta
                   THEN [Set(h, b.prev_alloc_addr, "next_alloc_addr", 0)
                         EXCEPT !.last_alloc_Meta = b.prev_alloc_addr]
                   ELSE Set(Set(h, b.prev_alloc_addr, "next_alloc_addr", b.next_alloc_addr),
                            b.next_alloc_addr, "prev_alloc_addr", b.prev_alloc_addr)
  IN  CASE block = h.tail ->
             [Set(byAddress, b.prev_by_size, "next_by_size", 0) EXCEPT !.tail = b.prev_by_size]
        [] block = h.head /\ block # h.tail ->
             [Set(byAddress, b.next_by_size, "prev_by_size", 0) EXCEPT !.head = b.next_by_size]
        [] OTHER ->
             Set(Set(byAddress, b.next_by_size, "prev_by_size", b.prev_by_size),
                 b.prev_by_size, "next_by_size", b.next_by_size)

MergeReads(h, from, to, blocks) ==
  LET end  == Get(h, IF blocks = << >> THEN from ELSE Last(blocks)).next_alloc_addr
      read == Reading(h, {from, to, Get(h, from).next_alloc_addr} \cup ToSet(blocks))
  IN  IF end \in {0, Get(h, to).next_alloc_addr} THEN read ELSE Stop(read, "hang")

(* Mutation: the metadata of merged blocks is not counted as bytes.        *)
mergeBlockKeepsBytes(h, from, to) ==
  LET blocks == Merged(h, from, to)
      joined == Joined(MergeReads(h, from, to, blocks), from, blocks)
  IN  FoldLeft(Ejected, [joined EXCEPT !.num_allocated_bytes = h.num_allocated_bytes], blocks)

mergeBlock(h, from, to) ==
  LET blocks == Merged(h, from, to)
  IN  FoldLeft(Ejected, Joined(MergeReads(h, from, to, blocks), from, blocks), blocks)

-----------------------------------------------------------------------------
IsFree(h, x) == x # 0 /\ Get(h, x).is_free

AppendByAddress(h, new) ==
  LET linked == IF h.last_alloc_Meta = 0 THEN h
                ELSE Set(h, h.last_alloc_Meta, "next_alloc_addr", new)
  IN  [Set(Set(linked, new, "prev_alloc_addr", h.last_alloc_Meta), new, "next_alloc_addr", 0)
       EXCEPT !.last_alloc_Meta = new]

insert(h, size) ==
  insertNew(AppendByAddress([h EXCEPT !.brk = @ + METASIZE + size], h.brk), h.brk, size)

(* A block of mmap follows no other by address and becomes the last one.   *)
insertMmap(h, size, new) ==
  insertNew([h EXCEPT !.mem = @ @@ (new :> Zero), !.mapped = @ + METASIZE + size,
                      !.last_alloc_Meta = new], new, size)

(* The last block grows to size; if it was free it is still marked so.     *)
wilderness(h, size) ==
  LET last == h.last_alloc_Meta
      more == size - Get(h, last).size
  IN  Set([h EXCEPT !.brk = @ + more, !.num_allocated_bytes = @ + more], last, "size", size)

(* What smalloc leaves, and the block it takes; place is what mmap gives.  *)
smalloc(h, size, place) ==
  LET first == IF size < MMAP_MIN_SIZE THEN h.head ELSE h.mmap_head
      list  == ListFrom(h, first)
      Fits(x) == IsFree(h, x) /\ Get(h, x).size >= size
      fit   == FirstOf(list, Fits)
      last  == h.last_alloc_Meta
      seen  == Checked(h, list, fit)
      none  == Reading(WalkOff(seen, first), {last} \ {0})
  IN  CASE fit # 0 -> [heap |-> SplitIfLarge(Set(seen, fit, "is_free", FALSE), fit, size), block |-> fit]
        [] fit = 0 /\ IsFree(h, last) -> [heap |-> wilderness(none, size), block |-> last]
        [] fit = 0 /\ ~ IsFree(h, last) /\ size < MMAP_MIN_SIZE ->
             [heap |-> insert(none, size), block |-> h.brk]
        [] OTHER -> [heap |-> insertMmap(none, size, place), block |-> place]

(* Blocks of the heap are looked for in the list.  Nothing asks whether a  *)
(* block is free already.                                                  *)
freeInHeap(h, p) ==
  LET list == ListFrom(h, h.head)
      Is(x) == Get(h, x).addr = p
      curr == FirstOf(list, Is)
      seen == Checked(h, list, curr)
      prev == Get(h, curr).prev_alloc_addr
      next == Get(h, curr).next_alloc_addr
      read == Reading(seen, {prev, next} \ {0})
  IN  CASE curr = 0 -> WalkOff(seen, h.head)
        [] curr # 0 /\ IsFree(h, prev) -> mergeBlock(read, prev, IF IsFree(h, next) THEN next ELSE curr)
        [] curr # 0 /\ ~ IsFree(h, prev) /\ IsFree(h, next) -> mergeBlock(read, curr, next)
        [] OTHER -> Set(read, curr, "is_free", TRUE)

(* last_alloc_Meta keeps the address of a block that is unmapped.          *)
unmap(h, block) ==
  LET b    == Get(h, block)
      left == CASE block = h.mmap_head /\ block = h.mmap_tail -> [h EXCEPT !.mmap_head = 0, !.mmap_tail = 0]
                [] block = h.mmap_head /\ block # h.mmap_tail ->
                     [Set(h, b.next_by_size, "prev_by_size", 0) EXCEPT !.mmap_head = b.next_by_size]
                [] block # h.mmap_head /\ block = h.mmap_tail ->
                     [Set(h, b.prev_by_size, "next_by_size", 0) EXCEPT !.mmap_tail = b.prev_by_size]
                [] OTHER -> Set(Set(h, b.prev_by_size, "next_by_size", b.next_by_size),
                                b.next_by_size, "prev_by_size", b.prev_by_size)
  IN  [left EXCEPT !.mem = [x \in DOMAIN @ \ ({block} \cap MmapPlaces) |-> @[x]],
                   !.mapped = @ - (b.size + METASIZE),
                   !.num_allocated_blocks = @ - 1, !.num_allocated_bytes = @ - b.size]

freeBlock(h, p) ==
  LET block == p - METASIZE
      read  == Reading(h, {block})
  IN  IF Big(h, block) THEN unmap(read, block) ELSE freeInHeap(read, p)

-----------------------------------------------------------------------------
memset(h, p, n) ==
  [Reading(h, p .. p + n - 1) EXCEPT !.mem = [x \in DOMAIN @ |-> IF x \in p .. p + n - 1 THEN Zero ELSE @[x]]]

memmove(h, to, from, n) ==
  [Reading(h, (to .. to + n - 1) \cup (from .. from + n - 1)) EXCEPT
     !.mem = [x \in DOMAIN @ |-> IF x \in to .. to + n - 1 THEN Get(h, x - to + from) ELSE @[x]]]

Gives(h, p) == [heap |-> h, address |-> p]

Moved(h, p, oldp, size) == Gives(memmove(h, p, oldp, size), p)

(* Merged with a neighbour: the contents go to the block beside it on the  *)
(* side given, read after the merge, which is split if enough is left.     *)
Absorb(h, from, to, oldp, size, side) ==
  LET merged == mergeBlock(h, from, to)
      beside == Get(merged, oldp - METASIZE)[side]
      p      == Get(merged, beside).addr
      moved  == memmove(Reading(merged, {beside}), p, oldp, size)
  IN  Gives(SplitIfLarge(Reading(moved, {p - METASIZE}), p - METASIZE, size), p)

(* The cases are those of the code, in its order.                          *)
srealloc(h0, oldp, size) ==
  LET itr    == oldp - METASIZE
      i      == Get(h0, itr)
      prev   == i.prev_alloc_addr
      next   == i.next_alloc_addr
      two    == i.size + Get(h0, prev).size
      three  == two + Get(h0, next).size
      isLast == h0.last_alloc_Meta = itr
      read   == CASE i.size >= size -> {}
                  [] i.size < size /\ (isLast \/ (IsFree(h0, prev) /\ two >= size)) -> {prev}
                  [] OTHER -> {prev, next}
      h      == Reading(checkCookie(h0, itr), read \ {0})
      Grown(g) == wilderness(g, size)
      LastAddr(g) == Get(g, g.last_alloc_Meta).addr
  IN  CASE i.size >= size -> Gives(SplitIfLarge(h, itr, size), oldp)
        [] i.size < size /\ IsFree(h, prev) /\ two >= size ->
             Absorb(h, prev, itr, oldp, size, "prev_alloc_addr")
        [] i.size < size /\ isLast /\ ~ (IsFree(h, prev) /\ two >= size) ->
             IF IsFree(h, prev) THEN Gives(Grown(mergeBlock(h, prev, itr)), i.addr)
             ELSE Gives(Grown(h), oldp)
        [] OTHER ->
             CASE IsFree(h, next) /\ i.size + Get(h, next).size >= size ->
                    Absorb(h, itr, next, oldp, size, "next_alloc_addr")
               [] IsFree(h, prev) /\ IsFree(h, next) /\ three >= size ->
                    LET merged == mergeBlock(h, prev, next)
                        beside == Get(merged, itr).prev_alloc_addr
                    IN  Moved(Reading(merged, {beside}), Get(merged, beside).addr, oldp, size)
               [] IsFree(h, next) /\ next = h.last_alloc_Meta ->
                    LET from  == IF IsFree(h, prev) THEN prev ELSE itr
                        grown == Grown(mergeBlock(h, from, next))
                    IN  Moved(grown, LastAddr(grown), oldp, size)
               [] OTHER ->
                    LET got   == smalloc(h, size, 0)
                        p     == Get(got.heap, got.block).addr
                        moved == memmove(got.heap, p, oldp, size)
                    IN  Gives(freeBlock(moved, oldp), p)

-----------------------------------------------------------------------------
Init == heap = Empty /\ held = EmptyBag /\ released = 0 /\ calls = 0

(* The callers' blocks share no unit.                                      *)
BlocksAreApart ==
  LET Units(b) == b[1] .. b[1] + b[2] - 1
  IN  \A b, c \in BagToSet(held) :
        IF b = c THEN CopiesIn(b, held) = 1 ELSE Units(b) \cap Units(c) = {}

Calls == heap.status = "running" /\ BlocksAreApart /\ calls < MaxCalls

(* What a call leaves.  No block is in callers' hands once it has stopped. *)
Leaves(h, blocks) ==
  /\ h.brk <= MaxBreak + 1
  /\ heap' = h /\ calls' = calls + 1
  /\ held' = IF h.status = "running" THEN blocks ELSE held

Smalloc(size, place) ==
  LET got == smalloc(heap, size, place)
  IN  /\ Calls /\ (size >= MMAP_MIN_SIZE => place \notin DOMAIN heap.mem)
      /\ Leaves(got.heap, held (+) SetToBag({<<Get(got.heap, got.block).addr, size>>}))
      /\ UNCHANGED released

(* num * size is size here.                                                *)
Scalloc(size, place) ==
  LET got == smalloc(heap, size, place)
      p   == Get(got.heap, got.block).addr
  IN  /\ Calls /\ size < MMAP_MIN_SIZE
      /\ Leaves(memset(got.heap, p, size), held (+) SetToBag({<<p, size>>}))
      /\ UNCHANGED released

Sfree(b) ==
  /\ Calls /\ BagIn(b, held)
  /\ Leaves(freeBlock(heap, b[1]), held (-) SetToBag({b}))
  /\ released' = b[1]

(* "If 'p' is NULL or already released, simply returns" (line 592).        *)
SfreeAgain ==
  /\ Calls /\ released # 0 /\ \A b \in BagToSet(held) : b[1] # released
  /\ Leaves(freeBlock(heap, released), held)
  /\ UNCHANGED released

Srealloc(b, size) ==
  LET got == srealloc(heap, b[1], size)
  IN  /\ Calls /\ BagIn(b, held) /\ b[2] < MMAP_MIN_SIZE /\ size < MMAP_MIN_SIZE
      /\ Leaves(got.heap, (held (-) SetToBag({b})) (+) SetToBag({<<got.address, size>>}))
      /\ UNCHANGED released

Next ==
  \/ \E size \in Sizes, place \in MmapPlaces : Smalloc(size, place) \/ Scalloc(size, place)
  \/ \E b \in BagToSet(held) : Sfree(b)
  \/ SfreeAgain
  \/ \E b \in BagToSet(held), size \in Sizes : Srealloc(b, size)

Spec == Init /\ [][Next]_vars

-----------------------------------------------------------------------------
(* The statistics tell what the system gave: the bytes of all blocks and   *)
(* of their metadata are the heap and the mapped regions, whatever was     *)
(* split, merged, grown or given back.                                     *)
BytesAreAccounted ==
  heap.num_allocated_bytes + METASIZE * heap.num_allocated_blocks = (heap.brk - 1) + heap.mapped
=============================================================================
