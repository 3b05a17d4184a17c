-------------------------------- MODULE Heap --------------------------------
(***************************************************************************)
(* The allocator of the user library, user/native/heap.c, on top of the    *)
(* kernel's break (call 45): malloc, free, calloc and realloc, with the    *)
(* headers it keeps in the memory it hands out.  Links are kept as the     *)
(* code keeps them; 0 is the null pointer.  Which block of a bin malloc    *)
(* meets first is left open.                                               *)
(***************************************************************************)
EXTENDS Integers

CONSTANTS
    Bits,          \* unsigned has Bits bits: 32, with as many bins
    Origin,        \* end of the program's data, where the break starts
    Stack,         \* start of the stack, which the break may not pass
    Sizes,         \* sizes and counts programs ask for
    Gaps           \* how far a program moves the break by itself

Word   == 2^Bits
Header == 24       \* sizeof(HeapBlock)
Align  == 8

ASSUME HeapAssumption ==
    /\ Bits \in Nat \ {0} /\ Word \in Nat
    /\ Origin \in Nat \ {0} /\ Stack \in Nat /\ Origin <= Stack /\ Stack < Word
    /\ Sizes \subseteq 0..Word - 1 /\ Gaps \subseteq 1..Word - 1

(* What arithmetic says of powers of two: each is twice the one before.    *)
ASSUME PowersOfTwo ==
    \A k \in 0..Bits - 1 : 2^k \in Nat /\ 2^(k + 1) = 2 * 2^k

VARIABLES
    heap,          \* the fields of the headers by address, tail, bins
    brk,           \* the break
    used,          \* pointers programs hold, with the sizes they asked for
    own            \* memory programs took by moving the break themselves

vars == <<heap, brk, used, own>>

Blocks(h) == DOMAIN h.size
End(h, b) == b + Header + h.size[b]
IsFree(h, b) == h.available[b] = 1

(***************************************************************************)
(* The helpers.  Each takes the headers h and returns them changed.        *)
(***************************************************************************)
(* bin_index: the place of the highest bit.                                *)
bin_index(size) ==
    IF size = 0 THEN 0 ELSE CHOOSE k \in 0..Bits - 1 : 2^k <= size /\ size < 2^(k + 1)

(* A field of block b, if there is one; of a new block; of a block that    *)
(* goes.                                                                   *)
Put(f, b, v) == IF b = 0 THEN f ELSE [f EXCEPT ![b] = v]
Add(f, b, v) == [a \in DOMAIN f \cup {b} |-> IF a = b THEN v ELSE f[a]]
Drop(f, b)   == [a \in DOMAIN f \ {b} |-> f[a]]

insert_free(h, b) ==
    LET k == bin_index(h.size[b])
        first == h.bins[k]
    IN  [h EXCEPT !.available = Put(@, b, 1),
                  !.free_next = Put(@, b, first),
                  !.free_prev = Put(Put(@, b, 0), first, b),
                  !.bins = [@ EXCEPT ![k] = b]]

(* Mutant: the neighbours in the bin keep their links to the block.        *)
UnlinkedKept(f, b, other) == f

Unlinked(f, b, other) == Put(f, b, other)

remove_free(h, b) ==
    LET prev == h.free_prev[b]
        next == h.free_next[b]
    IN  [h EXCEPT !.available = Put(@, b, 0),
                  !.free_next = Put(Unlinked(@, prev, next), b, 0),
                  !.free_prev = Put(Unlinked(@, next, prev), b, 0),
                  !.bins = IF prev # 0 THEN @ ELSE [@ EXCEPT ![bin_index(h.size[b])] = next]]

(* join_next: the header of the next block becomes part of b's memory.     *)
join_next(h, b) ==
    LET n == h.next[b]
        after == h.next[n]
    IN  [h EXCEPT !.size = Drop(Put(@, b, @[b] + Header + @[n]), n),
                  !.next = Drop(Put(@, b, after), n),
                  !.prev = Drop(Put(@, after, b), n),
                  !.available = Drop(@, n),
                  !.free_next = Drop(@, n),
                  !.free_prev = Drop(@, n),
                  !.tail = IF after = 0 THEN b ELSE @]

(* The header at n of a block that is not free, between prev and next.     *)
NewBlock(h, n, size, prev, next) ==
    [h EXCEPT !.size = Add(@, n, size),
              !.next = Add(Put(@, prev, n), n, next),
              !.prev = Add(Put(@, next, n), n, prev),
              !.available = Add(@, n, 0),
              !.free_next = Add(@, n, 0),
              !.free_prev = Add(@, n, 0),
              !.tail = IF next = 0 THEN n ELSE @]

(* split_block: the rest becomes a free block if it can hold anything.     *)
Splits(h, b, size) == h.size[b] - size >= Header + Align

split_block(h, b, size) ==
    LET n == b + Header + size
        shorter == [h EXCEPT !.size = Put(@, b, size)]
    IN  IF ~Splits(h, b, size) THEN h
        ELSE insert_free(NewBlock(shorter, n, h.size[b] - size - Header, b, h.next[b]), n)

(* Mutant: blocks are joined across memory that is not the heap's.         *)
JoinsAcross(h, b, n) == n # 0 /\ IsFree(h, n)

(* The next block is free and there is nothing between it and b.           *)
Adjacent(h, b, n) == n # 0 /\ IsFree(h, n) /\ End(h, b) = n

(* Mutant: a free block before the one freed is not looked at.             *)
JoinsPrevNever(h, b) == FALSE

JoinsPrev(h, b) == LET prev == h.prev[b] IN
    prev # 0 /\ IsFree(h, prev) /\ End(h, prev) = b

JoinedPrev(h, b) ==
    IF JoinsPrev(h, b) THEN join_next(remove_free(h, h.prev[b]), h.prev[b]) ELSE h
JoinedNext(h, b) == LET n == h.next[b] IN
    IF Adjacent(h, b, n) THEN join_next(remove_free(h, n), b) ELSE h

free(h, p) ==
    LET at == p - Header
        b == IF JoinsPrev(h, at) THEN h.prev[at] ELSE at
    IN  insert_free(JoinedNext(JoinedPrev(h, at), b), b)

(***************************************************************************)
(* Sizes are unsigned: a sum of two wraps round at Word.                   *)
(***************************************************************************)
Wrap(n) == IF n < Word THEN n ELSE n - Word

(* Mutant: malloc does not look at the largest sizes.                      *)
TooBigNever(size) == FALSE

TooBig(size)  == size > Word - Align - Header
Aligned(size) == LET up == Wrap(size + Align - 1) IN up - (up % Align)

(* heap_break: the kernel accepts a break between the data and the stack.  *)
CanGrow(n) == n <= Word - 1 - brk /\ brk + n >= Origin /\ brk + n <= Stack

(* Mutant: the search starts at the bin after the size's own.              *)
StartsLate(size) == bin_index(size) + 1
Starts(size) == bin_index(size)

(* The free blocks that fit, in the lowest bin that has one.               *)
Fitting(size) == {b \in Blocks(heap) : IsFree(heap, b) /\ heap.size[b] >= size}
Searched(size) == {b \in Fitting(size) : bin_index(heap.size[b]) >= Starts(size)}
Best(size) == {b \in Searched(size) : \A c \in Searched(size) :
                  bin_index(heap.size[b]) <= bin_index(heap.size[c])}

(* The results malloc may have: headers, break and pointer, 0 on failure.  *)
Result(h, to, p) == [heap |-> h, brk |-> to, p |-> p]
Failed == Result(heap, brk, 0)

Appended(size) ==
    Result(NewBlock(heap, brk, size, heap.tail, 0), Wrap(brk + Header + size), brk + Header)

malloc(request) ==
    LET asked == IF request = 0 THEN 1 ELSE request
        size == Aligned(asked)
    IN  IF TooBig(asked) THEN {Failed}
        ELSE IF Searched(size) # {}
             THEN {Result(split_block(remove_free(heap, b), b, size), brk, b + Header) : b \in Best(size)}
        ELSE IF CanGrow(Header + size) THEN {Appended(size)} ELSE {Failed}

(***************************************************************************)
(* What programs do.  They free and resize pointers they hold.             *)
(***************************************************************************)
Holding(p, n) == [q \in DOMAIN used \cup {p} |-> IF q = p THEN n ELSE used[q]]
Without(p)    == [q \in DOMAIN used \ {p} |-> used[q]]

Gets(results, n) ==
    /\ \E r \in results :
          /\ heap' = r.heap /\ brk' = r.brk
          /\ used' = IF r.p = 0 THEN used ELSE Holding(r.p, n)
    /\ UNCHANGED own

Malloc(n) == Gets(malloc(n), n)

Calloc(count, n) ==
    LET overflows == n # 0 /\ count > (Word - 1) \div n IN
    Gets(IF overflows THEN {Failed} ELSE malloc(count * n), count * n)

Free(p) ==
    /\ heap' = free(heap, p)
    /\ used' = Without(p)
    /\ UNCHANGED <<brk, own>>

(* realloc of a held pointer, in the order of the code's cases.            *)
Room(b, aligned) ==
    LET next == heap.next[b] IN
    Adjacent(heap, b, next) /\ heap.size[b] + Header + heap.size[next] >= aligned

AtBreak(b) == heap.next[b] = 0 /\ brk = End(heap, b)

Keeps(p, n) ==
    /\ n <= heap.size[p - Header]
    /\ used' = Holding(p, n) /\ UNCHANGED <<heap, brk, own>>

Absorbs(p, n) ==
    LET b == p - Header IN
    /\ ~TooBig(n) /\ Room(b, Aligned(n))
    /\ heap' = split_block(JoinedNext(heap, b), b, Aligned(n))
    /\ used' = Holding(p, n) /\ UNCHANGED <<brk, own>>

Extends(p, n) ==
    LET b == p - Header
        more == Aligned(n) - heap.size[b]
    IN
    /\ ~TooBig(n) /\ ~Room(b, Aligned(n)) /\ AtBreak(b) /\ CanGrow(more)
    /\ heap' = [heap EXCEPT !.size = Put(@, b, Aligned(n))]
    /\ brk' = brk + more
    /\ used' = Holding(p, n) /\ UNCHANGED own

(* The block is copied and freed only when there is another.               *)
Moves(p, n) ==
    LET b == p - Header IN
    /\ ~TooBig(n) /\ ~Room(b, Aligned(n))
    /\ ~(AtBreak(b) /\ CanGrow(Aligned(n) - heap.size[b]))
    /\ \E r \in malloc(n) :
          /\ brk' = r.brk
          /\ heap' = IF r.p = 0 THEN heap ELSE free(r.heap, p)
          /\ used' = IF r.p = 0 THEN used
                     ELSE [q \in (DOMAIN used \ {p}) \cup {r.p} |-> IF q = r.p THEN n ELSE used[q]]
    /\ UNCHANGED own

Realloc(p, n) ==
    \/ n # 0 /\ Keeps(p, n)
    \/ n > heap.size[p - Header] /\ (Absorbs(p, n) \/ Extends(p, n) \/ Moves(p, n))
    \/ n = 0 /\ Free(p)

(* A program moves the break up by itself.                                 *)
MoveBreak(n) ==
    /\ CanGrow(n)
    /\ brk' = brk + n
    /\ own' = own \cup {[from |-> brk, to |-> brk + n]}
    /\ UNCHANGED <<heap, used>>

Init ==
    /\ heap = LET none == [a \in {} |-> 0] IN
              [size |-> none, available |-> none, next |-> none, prev |-> none,
               free_next |-> none, free_prev |-> none,
               tail |-> 0, bins |-> [k \in 0..Bits - 1 |-> 0]]
    /\ brk = Origin
    /\ used = [p \in {} |-> 0]
    /\ own = {}

Next ==
    \/ \E n \in Sizes : Malloc(n) \/ \E count \in Sizes : Calloc(count, n)
    \/ \E p \in DOMAIN used : Free(p) \/ \E n \in Sizes : Realloc(p, n)
    \/ \E n \in Gaps : MoveBreak(n)

Spec == Init /\ [][Next]_vars
-----------------------------------------------------------------------------
Shape(h) ==
    /\ h \in [size : [Blocks(h) -> Nat], available : [Blocks(h) -> {0, 1}],
             next : [Blocks(h) -> Nat], prev : [Blocks(h) -> Nat],
             free_next : [Blocks(h) -> Nat], free_prev : [Blocks(h) -> Nat],
             tail : Nat, bins : [0..Bits - 1 -> Nat]]
    /\ Blocks(h) \subseteq Nat \ {0}

TypeOK ==
    /\ Shape(heap)
    /\ brk \in Origin..Stack
    /\ used \in [DOMAIN used -> 0..Word - 1] /\ DOMAIN used \subseteq Nat
    /\ own \subseteq [from : Nat, to : Nat]

(* Blocks never overlap each other, the memory programs took by moving the *)
(* break, or the memory above the break.                                   *)
NoOverlap ==
    \A b \in Blocks(heap) :
        /\ Origin <= b /\ End(heap, b) <= brk
        /\ \A c \in Blocks(heap) : b < c => End(heap, b) <= c
        /\ \A m \in own : End(heap, b) <= m.from \/ m.to <= b

(* A pointer a program holds has all the memory asked for, its block is    *)
(* not free, and no block but these and the free ones exists.              *)
HeldIsUsable ==
    /\ \A p \in DOMAIN used : p - Header \in Blocks(heap)
                              /\ heap.size[p - Header] >= used[p]
    /\ \A b \in Blocks(heap) : IsFree(heap, b) <=> b + Header \notin DOMAIN used

(* The bins hold exactly the free blocks, each in the bin of its size,     *)
(* once, linked both ways: what remove_free relies on.                     *)
Bin(k) ==
    LET at[i \in Nat] == IF i = 0 THEN heap.bins[k]
                         ELSE IF at[i - 1] = 0 THEN 0 ELSE heap.free_next[at[i - 1]]
    IN  at
BinsAreExact ==
    \A k \in 0..Bits - 1 :
        LET free_k == {b \in Blocks(heap) : IsFree(heap, b)
                                            /\ bin_index(heap.size[b]) = k}
        IN  /\ \A b \in free_k : \E i \in 0..Stack \div Header :
                   Bin(k)[i] = b
                   /\ heap.free_prev[b] = IF i = 0 THEN 0 ELSE Bin(k)[i - 1]
            /\ \A i \in 0..Stack \div Header : Bin(k)[i] \in free_k \cup {0}
            /\ Bin(k)[Stack \div Header] = 0

(***************************************************************************)
(* The inductive invariant, for the headers h as the helpers change them.  *)
(***************************************************************************)
(* The chain runs through all blocks in the order of their addresses.      *)
Chain(h) ==
    /\ \A a \in Blocks(h) : h.next[a] # 0 =>
          /\ h.next[a] \in Blocks(h) /\ h.prev[h.next[a]] = a
          /\ End(h, a) <= h.next[a]
    /\ \A a \in Blocks(h) : h.prev[a] # 0 =>
          h.prev[a] \in Blocks(h) /\ h.next[h.prev[a]] = a
    /\ \A a, c \in Blocks(h) : a < c => h.next[a] # 0 /\ h.next[a] <= c
    /\ \A a \in Blocks(h) : h.next[a] = 0 => a = h.tail
    /\ h.tail # 0 => h.tail \in Blocks(h) /\ h.next[h.tail] = 0
    /\ h.tail = 0 => Blocks(h) = {}

(* The links of free blocks lead to free blocks of the same bin and back.  *)
SameBin(h, a, c) == bin_index(h.size[a]) = bin_index(h.size[c])
Linked(h, a, c) ==
    /\ c \in Blocks(h) /\ IsFree(h, c) /\ SameBin(h, a, c)
FreeLinks(h) ==
    /\ \A k \in 0..Bits - 1 : h.bins[k] # 0 =>
          /\ h.bins[k] \in Blocks(h) /\ IsFree(h, h.bins[k])
          /\ h.free_prev[h.bins[k]] = 0 /\ bin_index(h.size[h.bins[k]]) = k
    /\ \A a \in Blocks(h) : IsFree(h, a) =>
          /\ h.free_next[a] # 0 =>
                Linked(h, a, h.free_next[a]) /\ h.free_prev[h.free_next[a]] = a
          /\ h.free_prev[a] # 0 =>
                Linked(h, a, h.free_prev[a]) /\ h.free_next[h.free_prev[a]] = a
          /\ h.free_prev[a] = 0 => h.bins[bin_index(h.size[a])] = a

(* Blocks lie between the data and the break, outside the memory m that    *)
(* programs took.                                                          *)
Clear(h, to, mine) ==
    /\ \A b \in Blocks(h) : Origin <= b /\ End(h, b) <= to
    /\ \A m \in mine : m.from < m.to /\ m.to <= to
    /\ \A b \in Blocks(h) : \A m \in mine : End(h, b) <= m.from \/ m.to <= b

Good(h, to, mine) == Shape(h) /\ Chain(h) /\ FreeLinks(h) /\ Clear(h, to, mine)

(* What the proofs carry along: chain, links and places of the blocks, and *)
(* that exactly the blocks in use are held.                                *)
HeapInv == TypeOK /\ Good(heap, brk, own) /\ HeldIsUsable

(* Free neighbours are joined: memory freed piece by piece can be had      *)
(* again in one piece.                                                     *)
FreeNeighboursJoined ==
    \A b, c \in Blocks(heap) :
        IsFree(heap, b) /\ IsFree(heap, c) => End(heap, b) # c

(* malloc and calloc move the break only when no free block is large       *)
(* enough.  What calloc hands on is a product of two sizes.                *)
Requests == Sizes \cup {n \in 0..Word - 1 : \E k, m \in Sizes : n = k * m}
GrowsOnlyWhenFull ==
    [][\A n \in Requests : Malloc(n) /\ brk' # brk => Fitting(n) = {}]_vars
=============================================================================
