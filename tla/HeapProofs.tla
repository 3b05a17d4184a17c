----------------------------- MODULE HeapProofs -----------------------------
(***************************************************************************)
(* Proofs about the allocator for every width of words, every place of the *)
(* data and the stack, and all sizes.                                      *)
(***************************************************************************)
EXTENDS Heap, TLAPS, FiniteSetTheorems, WellFoundedInduction

(***************************************************************************)
(* Bins.                                                                   *)
(***************************************************************************)
(* Every nonempty set of naturals has a least element.                     *)
LEMMA LeastNatural ==
    ASSUME NEW S, S \subseteq Nat, S # {}
    PROVE  \E s \in S : \A t \in S : s <= t
<1> DEFINE R == {ss \in Nat \X Nat : ss[1] < ss[2]}
<1>1. OpToRel(<, Nat) = R
  BY Zenon DEF OpToRel
<1>2. PICK s \in S : \A t \in S : ~(<<t, s>> \in R)
  BY <1>1, WFMin, NatLessThanWellFounded
<1>3. ASSUME NEW t \in S
      PROVE  s <= t
  <2>1. t \in Nat /\ s \in Nat /\ ~(<<t, s>> \in R)
    BY <1>2
  <2>2. ~(t < s)
    BY <2>1
  <2> QED
    BY <2>1, <2>2
<1> QED
  BY <1>3

(* Induction on the naturals up to a bound.                                *)
LEMMA Induction ==
    ASSUME NEW S, 0 \in S, NEW n \in Nat,
           \A d \in 0..n : d \in S /\ d + 1 <= n => d + 1 \in S
    PROVE  0..n \subseteq S
<1> DEFINE T == (0..n) \ S
<1> SUFFICES ASSUME T # {} PROVE FALSE
  OBVIOUS
<1>1. T \subseteq Nat
  OBVIOUS
<1> HIDE DEF T
<1>2. PICK d \in T : \A t \in T : d <= t
  BY <1>1, LeastNatural
<1>3. d \in 0..n /\ d \notin S
  BY DEF T
<1>4. d # 0 /\ d - 1 \in 0..n /\ (d - 1) + 1 = d /\ ~(d <= d - 1)
  BY <1>3
<1>5. d - 1 \in S
  BY <1>2, <1>4 DEF T
<1> QED
  BY <1>3, <1>4, <1>5

(* A power of two is positive, and one with a larger exponent is larger.   *)
LEMMA PowersArePositive == \A k \in 0..Bits : 2^k \in Nat \ {0}
<1> DEFINE S == {k \in 0..Bits : 2^k \in Nat \ {0}}
<1>0. Bits \in Nat
  BY HeapAssumption
<1>1. 0 \in S
  <2>1. 2^0 = 1
    OBVIOUS
  <2> QED
    BY <1>0, <2>1
<1>2. ASSUME NEW k \in 0..Bits, k \in S, k + 1 <= Bits
      PROVE  k + 1 \in S
  <2>1. k \in 0..Bits - 1 /\ k + 1 \in 0..Bits
    BY <1>0, <1>2
  <2>2. 2^(k + 1) = 2 * 2^k
    BY <2>1, PowersOfTwo
  <2>3. 2^k \in Nat \ {0}
    BY <1>2
  <2>4. 2 * 2^k \in Nat \ {0}
    BY <2>3
  <2> QED
    BY <2>1, <2>2, <2>4
<1> HIDE DEF S
<1>3. 0..Bits \subseteq S
  BY <1>0, <1>1, <1>2, Induction
<1> QED
  BY <1>3 DEF S

LEMMA PowersGrow ==
    ASSUME NEW j \in 0..Bits
    PROVE  \A k \in 0..Bits : j <= k => 2^j <= 2^k
<1> DEFINE S == {k \in 0..Bits : j <= k => 2^j <= 2^k}
<1>0. Bits \in Nat /\ 2^j \in Nat
  BY HeapAssumption, PowersArePositive
<1>1. 0 \in S
  <2>1. j <= 0 => j = 0
    OBVIOUS
  <2>2. j <= 0 => 2^j = 2^0
    BY <2>1
  <2> QED
    BY <1>0, <2>2
<1>2. ASSUME NEW k \in 0..Bits, k \in S, k + 1 <= Bits
      PROVE  k + 1 \in S
  <2>1. k \in 0..Bits - 1 /\ k + 1 \in 0..Bits
    BY <1>0, <1>2
  <2>2. 2^(k + 1) = 2 * 2^k /\ 2^k \in Nat
    BY <2>1, PowersOfTwo
  <2>3. CASE j <= k
    <3>1. 2^j <= 2^k
      BY <1>2, <2>3
    <3>2. 2^j <= 2 * 2^k
      BY <1>0, <2>2, <3>1
    <3> QED
      BY <2>1, <2>2, <3>2
  <2>4. CASE ~(j <= k)
    <3>1. j <= k + 1 => j = k + 1
      BY <2>4
    <3>2. j <= k + 1 => 2^j = 2^(k + 1)
      BY <3>1
    <3> QED
      BY <1>0, <2>1, <3>2
  <2> QED
    BY <2>3, <2>4
<1> HIDE DEF S
<1>3. 0..Bits \subseteq S
  BY <1>0, <1>1, <1>2, Induction
<1> QED
  BY <1>3 DEF S

(* A positive word has a highest bit.                                      *)
LEMMA HighestBit ==
    ASSUME NEW size \in 1..Word - 1
    PROVE  \E k \in 0..Bits - 1 : 2^k <= size /\ size < 2^(k + 1)
<1> DEFINE T == {k \in 0..Bits : size < 2^k}
<1>0. Bits \in Nat \ {0} /\ Word \in Nat /\ Word = 2^Bits
  BY HeapAssumption DEF Word
<1>1. Bits \in T /\ T \subseteq Nat
  <2>1. size < Word
    BY <1>0
  <2> QED
    BY <1>0, <2>1
<1> HIDE DEF T
<1>2. PICK m \in T : \A t \in T : m <= t
  BY <1>1, LeastNatural
<1>3. m \in 0..Bits /\ size < 2^m
  BY DEF T
<1>4. m # 0
  <2>1. 2^0 = 1
    OBVIOUS
  <2>2. ~(size < 1)
    OBVIOUS
  <2> QED
    BY <1>3, <2>1, <2>2
<1>5. m - 1 \in 0..Bits - 1 /\ m - 1 \in 0..Bits /\ (m - 1) + 1 = m /\ ~(m <= m - 1)
  BY <1>0, <1>3, <1>4
<1>6. ~(size < 2^(m - 1)) /\ 2^(m - 1) \in Nat
  BY <1>2, <1>5, PowersArePositive DEF T
<1>7. 2^(m - 1) <= size
  BY <1>6
<1> QED
  BY <1>3, <1>5, <1>7

(* bin_index yields a bin for every size a block can have.                 *)
LEMMA BinIndexIs ==
    ASSUME NEW size \in Nat, size < Word, size # 0, NEW k, k = bin_index(size)
    PROVE  k \in 0..Bits - 1 /\ 2^k <= size /\ size < 2^(k + 1)
<1>1. size \in 1..Word - 1
  BY HeapAssumption
<1>2. \E i \in 0..Bits - 1 : 2^i <= size /\ size < 2^(i + 1)
  BY <1>1, HighestBit
<1> QED
  BY <1>2 DEF bin_index

LEMMA BinIndexType ==
    ASSUME NEW size \in Nat, size < Word
    PROVE  bin_index(size) \in 0..Bits - 1
<1>1. CASE size = 0
  BY <1>1, HeapAssumption DEF bin_index
<1>2. CASE size # 0
  BY <1>2, BinIndexIs
<1> QED
  BY <1>1, <1>2

(* A larger block is never in a lower bin.                                 *)
LEMMA BinsAreOrdered ==
    ASSUME NEW a \in Nat, NEW b \in Nat, a # 0, a <= b, b < Word
    PROVE  bin_index(a) <= bin_index(b)
<1>0. a < Word /\ b # 0 /\ Bits \in Nat
  BY HeapAssumption
<1> DEFINE i == bin_index(a)
           j == bin_index(b)
<1>1. i \in 0..Bits - 1 /\ 2^i <= a
  BY <1>0, BinIndexIs
<1>2. j \in 0..Bits - 1 /\ b < 2^(j + 1)
  BY <1>0, BinIndexIs
<1> HIDE DEF i, j
<1>3. SUFFICES ASSUME j < i PROVE FALSE
  BY <1>1, <1>2 DEF i, j
<1>4. j + 1 \in 0..Bits /\ i \in 0..Bits /\ j + 1 <= i
  BY <1>0, <1>1, <1>2, <1>3
<1>5. 2^(j + 1) <= 2^i
  BY <1>4, PowersGrow
<1>6. 2^(j + 1) \in Nat /\ 2^i \in Nat
  BY <1>4, PowersArePositive
<1> QED
  BY <1>1, <1>2, <1>5, <1>6

(***************************************************************************)
(* The fields of the headers after each helper.                            *)
(***************************************************************************)
(* A record of headers, taken apart.                                       *)
LEMMA ShapeFields ==
    ASSUME NEW h, Shape(h)
    PROVE  /\ h.size \in [Blocks(h) -> Nat] /\ h.available \in [Blocks(h) -> {0, 1}]
           /\ h.next \in [Blocks(h) -> Nat] /\ h.prev \in [Blocks(h) -> Nat]
           /\ h.free_next \in [Blocks(h) -> Nat] /\ h.free_prev \in [Blocks(h) -> Nat]
           /\ h.tail \in Nat /\ h.bins \in [0..Bits - 1 -> Nat]
           /\ Blocks(h) \subseteq Nat \ {0}
BY DEF Shape

(* insert_free puts b in front of its bin and changes no other link.       *)
LEMMA InsertIs ==
    ASSUME NEW h, Shape(h), NEW b \in Blocks(h), NEW k \in 0..Bits - 1,
           k = bin_index(h.size[b]), h.bins[k] \in Blocks(h) \cup {0}, h.bins[k] # b,
           NEW r, r = insert_free(h, b)
    PROVE  /\ Shape(r) /\ Blocks(r) = Blocks(h)
           /\ r.size = h.size /\ r.next = h.next /\ r.prev = h.prev /\ r.tail = h.tail
           /\ r.bins = [h.bins EXCEPT ![k] = b]
           /\ \A a \in Blocks(h) :
                /\ r.available[a] = IF a = b THEN 1 ELSE h.available[a]
                /\ r.free_next[a] = IF a = b THEN h.bins[k] ELSE h.free_next[a]
                /\ r.free_prev[a] = IF a = b THEN 0 ELSE IF a = h.bins[k] THEN b
                                                         ELSE h.free_prev[a]
<1> DEFINE first == h.bins[k]
           av == Put(h.available, b, 1)
           fn == Put(h.free_next, b, first)
           fp == Put(Put(h.free_prev, b, 0), first, b)
<1>1. r = [h EXCEPT !.available = av, !.free_next = fn, !.free_prev = fp,
                    !.bins = [h.bins EXCEPT ![k] = b]]
  BY DEF insert_free, Shape
<1>0. 0 \notin Blocks(h) /\ first \in Nat /\ b \in Nat /\ first # b
  BY ShapeFields
<1>2. /\ av \in [Blocks(h) -> {0, 1}]
      /\ \A a \in Blocks(h) : av[a] = IF a = b THEN 1 ELSE h.available[a]
  BY <1>0, ShapeFields DEF Put
<1>3. /\ fn \in [Blocks(h) -> Nat]
      /\ \A a \in Blocks(h) : fn[a] = IF a = b THEN first ELSE h.free_next[a]
  BY <1>0, ShapeFields DEF Put
<1>4. /\ fp \in [Blocks(h) -> Nat]
      /\ \A a \in Blocks(h) : fp[a] = IF a = b THEN 0 ELSE IF a = first THEN b
                                                         ELSE h.free_prev[a]
  <2> DEFINE one == Put(h.free_prev, b, 0)
  <2>1. one \in [Blocks(h) -> Nat] /\ \A a \in Blocks(h) : one[a] = IF a = b THEN 0 ELSE h.free_prev[a]
    BY <1>0, ShapeFields DEF Put
  <2> HIDE DEF one
  <2>2. /\ Put(one, first, b) \in [Blocks(h) -> Nat]
        /\ \A a \in Blocks(h) : Put(one, first, b)[a] = IF a = first THEN b ELSE one[a]
    BY <1>0, <2>1 DEF Put
  <2>3. fp = Put(one, first, b)
    BY DEF one
  <2> QED
    BY <1>0, <2>1, <2>2, <2>3
<1> HIDE DEF av, fn, fp
<1>5. /\ r.size = h.size /\ r.next = h.next /\ r.prev = h.prev /\ r.tail = h.tail
      /\ r.available = av /\ r.free_next = fn /\ r.free_prev = fp
      /\ r.bins = [h.bins EXCEPT ![k] = b]
  BY <1>1 DEF Shape
<1>6. Shape(r)
  <2>1. Blocks(r) = Blocks(h)
    BY <1>5 DEF Blocks
  <2>2. [h.bins EXCEPT ![k] = b] \in [0..Bits - 1 -> Nat]
    BY <1>0, ShapeFields
  <2> QED
    BY <1>1, <1>2, <1>3, <1>4, <2>1, <2>2 DEF Shape
<1> QED
  BY <1>2, <1>3, <1>4, <1>5, <1>6 DEF Blocks

(* remove_free takes b out of its bin and joins what was on either side.   *)
LEMMA RemoveIs ==
    ASSUME NEW h, Shape(h), NEW b \in Blocks(h), NEW k \in 0..Bits - 1, k = bin_index(h.size[b]),
           NEW prev \in Blocks(h) \cup {0}, prev = h.free_prev[b],
           NEW next \in Blocks(h) \cup {0}, next = h.free_next[b],
           NEW r, r = remove_free(h, b)
    PROVE  /\ Shape(r) /\ Blocks(r) = Blocks(h)
           /\ r.size = h.size /\ r.next = h.next /\ r.prev = h.prev /\ r.tail = h.tail
           /\ r.bins = IF prev # 0 THEN h.bins ELSE [h.bins EXCEPT ![k] = next]
           /\ \A a \in Blocks(h) :
                /\ r.available[a] = IF a = b THEN 0 ELSE h.available[a]
                /\ r.free_next[a] = IF a = b THEN 0 ELSE IF a = prev THEN next ELSE h.free_next[a]
                /\ r.free_prev[a] = IF a = b THEN 0 ELSE IF a = next THEN prev ELSE h.free_prev[a]
<1> DEFINE av == Put(h.available, b, 0)
           fn == Put(Put(h.free_next, prev, next), b, 0)
           fp == Put(Put(h.free_prev, next, prev), b, 0)
           bins == IF prev # 0 THEN h.bins ELSE [h.bins EXCEPT ![k] = next]
<1>1. r = [h EXCEPT !.available = av, !.free_next = fn, !.free_prev = fp, !.bins = bins]
  BY DEF remove_free, Unlinked, Shape
<1>0. 0 \notin Blocks(h) /\ prev \in Nat /\ next \in Nat /\ b \in Nat
  BY ShapeFields
<1>2. /\ av \in [Blocks(h) -> {0, 1}]
      /\ \A a \in Blocks(h) : av[a] = IF a = b THEN 0 ELSE h.available[a]
  BY <1>0, ShapeFields DEF Put
<1>3. /\ fn \in [Blocks(h) -> Nat]
      /\ \A a \in Blocks(h) : fn[a] = IF a = b THEN 0 ELSE IF a = prev THEN next
                                                         ELSE h.free_next[a]
  <2> DEFINE one == Put(h.free_next, prev, next)
  <2>1. one \in [Blocks(h) -> Nat] /\ \A a \in Blocks(h) : one[a] = IF a = prev THEN next ELSE h.free_next[a]
    BY <1>0, ShapeFields DEF Put
  <2>2. fn = Put(one, b, 0)
    OBVIOUS
  <2> HIDE DEF one
  <2> QED
    BY <1>0, <2>1, <2>2 DEF Put
<1>4. /\ fp \in [Blocks(h) -> Nat]
      /\ \A a \in Blocks(h) : fp[a] = IF a = b THEN 0 ELSE IF a = next THEN prev
                                                         ELSE h.free_prev[a]
  <2> DEFINE one == Put(h.free_prev, next, prev)
  <2>1. one \in [Blocks(h) -> Nat] /\ \A a \in Blocks(h) : one[a] = IF a = next THEN prev ELSE h.free_prev[a]
    BY <1>0, ShapeFields DEF Put
  <2>2. fp = Put(one, b, 0)
    OBVIOUS
  <2> HIDE DEF one
  <2> QED
    BY <1>0, <2>1, <2>2 DEF Put
<1>5. bins \in [0..Bits - 1 -> Nat]
  BY <1>0, ShapeFields
<1> HIDE DEF av, fn, fp, bins
<1>6. /\ r.size = h.size /\ r.next = h.next /\ r.prev = h.prev /\ r.tail = h.tail
      /\ r.available = av /\ r.free_next = fn /\ r.free_prev = fp /\ r.bins = bins
  BY <1>1 DEF Shape
<1>7. Blocks(r) = Blocks(h)
  BY <1>6 DEF Blocks
<1>8. Shape(r)
  BY <1>1, <1>2, <1>3, <1>4, <1>5, <1>7 DEF Shape
<1> QED
  BY <1>2, <1>3, <1>4, <1>6, <1>7, <1>8 DEF bins

(* join_next takes the next block's header away and lengthens b by it.     *)
LEMMA JoinIs ==
    ASSUME NEW h, Shape(h), NEW b \in Blocks(h), NEW n \in Blocks(h), n = h.next[b], n # b,
           NEW after \in Blocks(h) \cup {0}, after = h.next[n],
           NEW r, r = join_next(h, b)
    PROVE  /\ Shape(r) /\ Blocks(r) = Blocks(h) \ {n}
           /\ r.bins = h.bins /\ r.tail = IF after = 0 THEN b ELSE h.tail
           /\ \A a \in Blocks(r) :
                /\ r.size[a] = IF a = b THEN h.size[b] + Header + h.size[n] ELSE h.size[a]
                /\ r.next[a] = IF a = b THEN after ELSE h.next[a]
                /\ r.prev[a] = IF a = after THEN b ELSE h.prev[a]
                /\ r.available[a] = h.available[a]
                /\ r.free_next[a] = h.free_next[a] /\ r.free_prev[a] = h.free_prev[a]
<1> DEFINE S == Blocks(h) \ {n}
           both == h.size[b] + Header + h.size[n]
           sz == Drop(Put(h.size, b, both), n)
           nx == Drop(Put(h.next, b, after), n)
           pv == Drop(Put(h.prev, after, b), n)
           av == Drop(h.available, n)
           fn == Drop(h.free_next, n)
           fp == Drop(h.free_prev, n)
           tl == IF after = 0 THEN b ELSE h.tail
<1>1. r = [h EXCEPT !.size = sz, !.next = nx, !.prev = pv, !.available = av,
                    !.free_next = fn, !.free_prev = fp, !.tail = tl]
  BY DEF join_next, Shape
<1>0. 0 \notin Blocks(h) /\ after \in Nat /\ b \in Nat /\ h.size[b] \in Nat /\ h.size[n] \in Nat
      /\ tl \in Nat
  BY ShapeFields
<1>2. /\ sz \in [S -> Nat]
      /\ \A a \in S : sz[a] = IF a = b THEN h.size[b] + Header + h.size[n] ELSE h.size[a]
  <2>1. both \in Nat
    BY <1>0 DEF Header
  <2> HIDE DEF both
  <2>2. sz \in [S -> Nat] /\ \A a \in S : sz[a] = IF a = b THEN both ELSE h.size[a]
    <3>1. /\ h.size \in [Blocks(h) -> Nat] /\ b # 0 /\ b \in Blocks(h)
          /\ Put(h.size, b, both) = [h.size EXCEPT ![b] = both]
      BY <1>0, ShapeFields DEF Put
    <3>2. sz = [a \in S |-> [h.size EXCEPT ![b] = both][a]]
      BY <3>1 DEF Drop
    <3> QED
      BY <2>1, <3>1, <3>2
  <2> QED
    BY <2>2 DEF both
<1>3. nx \in [S -> Nat] /\ \A a \in S : nx[a] = IF a = b THEN after ELSE h.next[a]
  BY <1>0, ShapeFields DEF Put, Drop
<1>4. pv \in [S -> Nat] /\ \A a \in S : pv[a] = IF a = after THEN b ELSE h.prev[a]
  BY <1>0, ShapeFields DEF Put, Drop
<1>5. av \in [S -> {0, 1}] /\ \A a \in S : av[a] = h.available[a]
  BY ShapeFields DEF Drop
<1>6. fn \in [S -> Nat] /\ fp \in [S -> Nat]
      /\ \A a \in S : fn[a] = h.free_next[a] /\ fp[a] = h.free_prev[a]
  BY ShapeFields DEF Drop
<1> HIDE DEF sz, nx, pv, av, fn, fp, tl
<1>7. /\ r.size = sz /\ r.next = nx /\ r.prev = pv /\ r.available = av
      /\ r.free_next = fn /\ r.free_prev = fp /\ r.tail = tl /\ r.bins = h.bins
  BY <1>1 DEF Shape
<1>8. Blocks(r) = S
  BY <1>2, <1>7 DEF Blocks
<1>9. Shape(r)
  <2>1. r \in [size : [S -> Nat], available : [S -> {0, 1}], next : [S -> Nat], prev : [S -> Nat],
               free_next : [S -> Nat], free_prev : [S -> Nat], tail : Nat, bins : [0..Bits - 1 -> Nat]]
    <3> HIDE DEF S
    <3>1. r = [size |-> sz, available |-> av, next |-> nx, prev |-> pv,
               free_next |-> fn, free_prev |-> fp, tail |-> tl, bins |-> h.bins]
      BY <1>1 DEF Shape
    <3>2. h.bins \in [0..Bits - 1 -> Nat]
      BY ShapeFields
    <3> QED
      BY <1>0, <1>2, <1>3, <1>4, <1>5, <1>6, <3>1, <3>2
  <2> QED
    BY <1>8, <2>1 DEF Shape
<1> QED
  BY <1>2, <1>3, <1>4, <1>5, <1>6, <1>7, <1>8, <1>9 DEF tl

(* r is h with one header more, at n between prev and next.                *)
Inserted(r, h, n, size, prev, next) ==
    /\ Shape(r) /\ Blocks(r) = Blocks(h) \cup {n}
    /\ r.bins = h.bins /\ r.tail = IF next = 0 THEN n ELSE h.tail
    /\ \A a \in Blocks(r) :
         /\ r.size[a] = IF a = n THEN size ELSE h.size[a]
         /\ r.next[a] = IF a = n THEN next ELSE IF a = prev THEN n ELSE h.next[a]
         /\ r.prev[a] = IF a = n THEN prev ELSE IF a = next THEN n ELSE h.prev[a]
         /\ r.available[a] = IF a = n THEN 0 ELSE h.available[a]
         /\ a # n => r.free_next[a] = h.free_next[a] /\ r.free_prev[a] = h.free_prev[a]

(* That is what NewBlock does.                                             *)
LEMMA NewBlockIs ==
    ASSUME NEW h, Shape(h), NEW n \in Nat \ {0}, n \notin Blocks(h), NEW size \in Nat,
           NEW prev \in Blocks(h) \cup {0}, NEW next \in Blocks(h) \cup {0},
           NEW r, r = NewBlock(h, n, size, prev, next)
    PROVE  Inserted(r, h, n, size, prev, next)
<1> DEFINE S == Blocks(h) \cup {n}
           sz == Add(h.size, n, size)
           nx == Add(Put(h.next, prev, n), n, next)
           pv == Add(Put(h.prev, next, n), n, prev)
           av == Add(h.available, n, 0)
           fn == Add(h.free_next, n, 0)
           fp == Add(h.free_prev, n, 0)
           tl == IF next = 0 THEN n ELSE h.tail
<1>1. r = [h EXCEPT !.size = sz, !.next = nx, !.prev = pv, !.available = av,
                    !.free_next = fn, !.free_prev = fp, !.tail = tl]
  BY DEF NewBlock, Shape
<1>0. 0 \notin Blocks(h) /\ prev \in Nat /\ next \in Nat /\ tl \in Nat /\ S \subseteq Nat \ {0}
  BY ShapeFields
<1>2. sz \in [S -> Nat] /\ \A a \in S : sz[a] = IF a = n THEN size ELSE h.size[a]
  BY <1>0, ShapeFields DEF Add
<1>3. nx \in [S -> Nat]
      /\ \A a \in S : nx[a] = IF a = n THEN next ELSE IF a = prev THEN n ELSE h.next[a]
  BY <1>0, ShapeFields DEF Put, Add
<1>4. pv \in [S -> Nat]
      /\ \A a \in S : pv[a] = IF a = n THEN prev ELSE IF a = next THEN n ELSE h.prev[a]
  BY <1>0, ShapeFields DEF Put, Add
<1>5. av \in [S -> {0, 1}] /\ \A a \in S : av[a] = IF a = n THEN 0 ELSE h.available[a]
  BY ShapeFields DEF Add
<1>6. fn \in [S -> Nat] /\ fp \in [S -> Nat]
      /\ \A a \in S : a # n => fn[a] = h.free_next[a] /\ fp[a] = h.free_prev[a]
  BY ShapeFields DEF Add
<1> HIDE DEF sz, nx, pv, av, fn, fp, tl
<1>7. /\ r.size = sz /\ r.next = nx /\ r.prev = pv /\ r.available = av
      /\ r.free_next = fn /\ r.free_prev = fp /\ r.tail = tl /\ r.bins = h.bins
  BY <1>1 DEF Shape
<1>8. Blocks(r) = S
  BY <1>2, <1>7 DEF Blocks
<1>9. Shape(r)
  <2>1. h.bins \in [0..Bits - 1 -> Nat]
    BY ShapeFields
  <2>2. r \in [size : [S -> Nat], available : [S -> {0, 1}], next : [S -> Nat],
               prev : [S -> Nat], free_next : [S -> Nat], free_prev : [S -> Nat],
               tail : Nat, bins : [0..Bits - 1 -> Nat]]
    <3>1. sz \in [S -> Nat] /\ nx \in [S -> Nat] /\ pv \in [S -> Nat]
          /\ av \in [S -> {0, 1}] /\ fn \in [S -> Nat] /\ fp \in [S -> Nat] /\ tl \in Nat
      BY <1>0, <1>2, <1>3, <1>4, <1>5, <1>6
    <3> HIDE DEF S
    <3> QED
      BY <1>1, <2>1, <3>1 DEF Shape
  <2> QED
    BY <1>0, <1>8, <2>2 DEF Shape
<1> QED
  BY <1>2, <1>3, <1>4, <1>5, <1>6, <1>7, <1>8, <1>9 DEF tl, Inserted

(* A block whose size is written.                                          *)
LEMMA ResizeIs ==
    ASSUME NEW h, Shape(h), NEW b \in Blocks(h), NEW size \in Nat,
           NEW r, r = [h EXCEPT !.size = Put(@, b, size)]
    PROVE  /\ Shape(r) /\ Blocks(r) = Blocks(h)
           /\ r.next = h.next /\ r.prev = h.prev /\ r.tail = h.tail /\ r.bins = h.bins
           /\ r.available = h.available
           /\ r.free_next = h.free_next /\ r.free_prev = h.free_prev
           /\ \A a \in Blocks(h) : r.size[a] = IF a = b THEN size ELSE h.size[a]
<1> DEFINE sz == Put(h.size, b, size)
<1>1. r = [h EXCEPT !.size = sz]
  BY DEF Shape
<1>2. sz \in [Blocks(h) -> Nat] /\ \A a \in Blocks(h) : sz[a] = IF a = b THEN size ELSE h.size[a]
  BY ShapeFields DEF Put
<1> HIDE DEF sz
<1>3. /\ r.size = sz /\ r.next = h.next /\ r.prev = h.prev /\ r.available = h.available
      /\ r.free_next = h.free_next /\ r.free_prev = h.free_prev /\ r.tail = h.tail
      /\ r.bins = h.bins
  BY <1>1 DEF Shape
<1>4. Blocks(r) = Blocks(h)
  BY <1>2, <1>3 DEF Blocks
<1>5. Shape(r)
  BY <1>1, <1>2, <1>4 DEF Shape
<1> QED
  BY <1>2, <1>3, <1>4, <1>5

(***************************************************************************)
(* Each helper keeps the headers good.                                     *)
(***************************************************************************)
(* The break is below the top of memory: so are the sizes of blocks, which *)
(* therefore have bins.                                                    *)
LEMMA SizesHaveBins ==
    ASSUME NEW h, NEW to \in Nat, to < Word, NEW mine, Shape(h), Clear(h, to, mine), NEW b \in Blocks(h)
    PROVE  h.size[b] \in Nat /\ h.size[b] < Word /\ bin_index(h.size[b]) \in 0..Bits - 1
<1>1. h.size[b] \in Nat /\ b \in Nat
  BY ShapeFields
<1>2. b + Header + h.size[b] <= to
  BY DEF Clear, End
<1>3. h.size[b] < Word
  BY <1>1, <1>2, HeapAssumption DEF Header
<1> QED
  BY <1>1, <1>3, BinIndexType

(* Only the free links change: chain and places stay as they were.         *)
LEMMA ChainKept ==
    ASSUME NEW h, NEW r, NEW to, NEW mine, Chain(h), Clear(h, to, mine),
           Blocks(r) = Blocks(h), r.size = h.size, r.next = h.next, r.prev = h.prev, r.tail = h.tail
    PROVE  Chain(r) /\ Clear(r, to, mine)
BY DEF Chain, Clear, End

(* remove_free of a free block.                                            *)
LEMMA RemoveKeeps ==
    ASSUME NEW h, NEW to \in Nat, to < Word, NEW mine, Good(h, to, mine),
           NEW b \in Blocks(h), IsFree(h, b), NEW r, r = remove_free(h, b)
    PROVE  /\ Good(r, to, mine) /\ Blocks(r) = Blocks(h)
           /\ r.size = h.size /\ r.next = h.next /\ r.prev = h.prev /\ r.tail = h.tail
           /\ \A a \in Blocks(h) : IsFree(r, a) <=> IsFree(h, a) /\ a # b
<1> DEFINE k == bin_index(h.size[b])
           prev == h.free_prev[b]
           next == h.free_next[b]
<1>0. Shape(h) /\ Chain(h) /\ FreeLinks(h) /\ Clear(h, to, mine)
  BY DEF Good
<1>1. k \in 0..Bits - 1
  BY <1>0, SizesHaveBins
<1>2. prev \in Blocks(h) \cup {0} /\ next \in Blocks(h) \cup {0}
  BY <1>0 DEF FreeLinks, Linked
<1>3. /\ Shape(r) /\ Blocks(r) = Blocks(h)
      /\ r.size = h.size /\ r.next = h.next /\ r.prev = h.prev /\ r.tail = h.tail
      /\ r.bins = IF prev # 0 THEN h.bins ELSE [h.bins EXCEPT ![k] = next]
      /\ \A a \in Blocks(h) :
            /\ r.available[a] = IF a = b THEN 0 ELSE h.available[a]
            /\ r.free_next[a] = IF a = b THEN 0 ELSE IF a = prev THEN next ELSE h.free_next[a]
            /\ r.free_prev[a] = IF a = b THEN 0 ELSE IF a = next THEN prev ELSE h.free_prev[a]
  BY <1>0, <1>1, <1>2, RemoveIs
<1>4. \A a \in Blocks(h) : IsFree(r, a) <=> IsFree(h, a) /\ a # b
  BY <1>3 DEF IsFree
<1>5. 0 \notin Blocks(h) /\ h.bins \in [0..Bits - 1 -> Nat]
  BY <1>0, ShapeFields
<1>6. FreeLinks(r)
  <2>1. ASSUME NEW i \in 0..Bits - 1, r.bins[i] # 0
        PROVE  /\ r.bins[i] \in Blocks(r) /\ IsFree(r, r.bins[i])
               /\ r.free_prev[r.bins[i]] = 0 /\ bin_index(r.size[r.bins[i]]) = i
    <3>1. CASE prev = 0 /\ i = k
      <4>1. r.bins[i] = next /\ next # 0
        BY <1>3, <1>5, <2>1, <3>1
      <4>2. next \in Blocks(h) /\ IsFree(h, next) /\ bin_index(h.size[next]) = k /\ h.free_prev[next] = b
        BY <1>0, <4>1 DEF FreeLinks, Linked, SameBin
      <4>3. next # b
        BY <3>1, <4>2, <1>5
      <4> QED
        BY <1>3, <1>4, <3>1, <4>1, <4>2, <4>3
    <3>2. CASE ~(prev = 0 /\ i = k)
      <4>1. r.bins[i] = h.bins[i]
        BY <1>3, <1>5, <3>2
      <4>2. /\ h.bins[i] \in Blocks(h) /\ IsFree(h, h.bins[i])
            /\ h.free_prev[h.bins[i]] = 0 /\ bin_index(h.size[h.bins[i]]) = i
        BY <1>0, <2>1, <4>1 DEF FreeLinks
      <4>3. h.bins[i] # b
        BY <3>2, <4>2
      <4>4. h.bins[i] # next
        <5> SUFFICES ASSUME h.bins[i] = next PROVE FALSE
          OBVIOUS
        <5>1. h.free_prev[next] = b
          BY <1>0, <1>5, <4>2 DEF FreeLinks
        <5> QED
          BY <1>5, <4>2, <5>1
      <4> QED
        BY <1>3, <1>4, <4>1, <4>2, <4>3, <4>4
    <3> QED
      BY <3>1, <3>2
  <2>2. ASSUME NEW a \in Blocks(r), IsFree(r, a), r.free_next[a] # 0
        PROVE  Linked(r, a, r.free_next[a]) /\ r.free_prev[r.free_next[a]] = a
    BY <1>0, <1>2, <1>3, <1>4, <1>5, <2>2 DEF FreeLinks, Linked, SameBin
  <2>3. ASSUME NEW a \in Blocks(r), IsFree(r, a), r.free_prev[a] # 0
        PROVE  Linked(r, a, r.free_prev[a]) /\ r.free_next[r.free_prev[a]] = a
    BY <1>0, <1>2, <1>3, <1>4, <1>5, <2>3 DEF FreeLinks, Linked, SameBin
  <2>4. ASSUME NEW a \in Blocks(r), IsFree(r, a), r.free_prev[a] = 0
        PROVE  r.bins[bin_index(r.size[a])] = a
    <3>0. a # b /\ a \in Blocks(h) /\ IsFree(h, a) /\ bin_index(h.size[a]) \in 0..Bits - 1
      BY <1>0, <1>3, <1>4, <2>4, SizesHaveBins
    <3>1. CASE a = next /\ prev = 0
      <4>1. bin_index(h.size[a]) = k
        BY <1>0, <1>5, <3>0, <3>1 DEF FreeLinks, Linked, SameBin
      <4>2. r.bins = [h.bins EXCEPT ![k] = next]
        BY <1>3, <3>1
      <4> HIDE DEF k, next
      <4>3. r.bins[k] = next
        BY <1>1, <1>5, <4>2
      <4> QED
        BY <1>3, <3>1, <4>1, <4>3
    <3>2. CASE ~(a = next /\ prev = 0)
      <4>1. h.free_prev[a] = 0 /\ h.bins[bin_index(h.size[a])] = a
        BY <1>0, <1>3, <2>4, <3>0, <3>2 DEF FreeLinks
      <4>2. prev = 0 => h.bins[k] = b
        BY <1>0 DEF FreeLinks
      <4> QED
        BY <1>1, <1>3, <1>5, <3>0, <4>1, <4>2
    <3> QED
      BY <3>1, <3>2
  <2> QED
    BY <2>1, <2>2, <2>3, <2>4 DEF FreeLinks
<1>7. Chain(r) /\ Clear(r, to, mine)
  BY <1>0, <1>3, ChainKept
<1> QED
  BY <1>3, <1>4, <1>6, <1>7 DEF Good

(* insert_free of a block that is not free.                                *)
LEMMA InsertKeeps ==
    ASSUME NEW h, NEW to \in Nat, to < Word, NEW mine, Good(h, to, mine),
           NEW b \in Blocks(h), ~IsFree(h, b), NEW r, r = insert_free(h, b)
    PROVE  /\ Good(r, to, mine) /\ Blocks(r) = Blocks(h)
           /\ r.size = h.size /\ r.next = h.next /\ r.prev = h.prev /\ r.tail = h.tail
           /\ \A a \in Blocks(h) : IsFree(r, a) <=> IsFree(h, a) \/ a = b
<1> DEFINE k == bin_index(h.size[b])
           first == h.bins[k]
<1>0. Shape(h) /\ Chain(h) /\ FreeLinks(h) /\ Clear(h, to, mine)
  BY DEF Good
<1>1. k \in 0..Bits - 1
  BY <1>0, SizesHaveBins
<1>2. first \in Blocks(h) \cup {0} /\ first # b
  <2>1. 0 \notin Blocks(h)
    BY <1>0, ShapeFields
  <2> QED
    BY <1>0, <1>1, <2>1 DEF FreeLinks
<1>3. /\ Shape(r) /\ Blocks(r) = Blocks(h)
      /\ r.size = h.size /\ r.next = h.next /\ r.prev = h.prev /\ r.tail = h.tail
      /\ r.bins = [h.bins EXCEPT ![k] = b]
      /\ \A a \in Blocks(h) :
           /\ r.available[a] = IF a = b THEN 1 ELSE h.available[a]
           /\ r.free_next[a] = IF a = b THEN first ELSE h.free_next[a]
           /\ r.free_prev[a] = IF a = b THEN 0 ELSE IF a = first THEN b ELSE h.free_prev[a]
  BY <1>0, <1>1, <1>2, InsertIs
<1>4. \A a \in Blocks(h) : IsFree(r, a) <=> IsFree(h, a) \/ a = b
  BY <1>3 DEF IsFree
<1>5. 0 \notin Blocks(h) /\ h.bins \in [0..Bits - 1 -> Nat]
  BY <1>0, ShapeFields
<1>6. FreeLinks(r)
  <2>1. ASSUME NEW i \in 0..Bits - 1, r.bins[i] # 0
        PROVE  /\ r.bins[i] \in Blocks(r) /\ IsFree(r, r.bins[i])
               /\ r.free_prev[r.bins[i]] = 0 /\ bin_index(r.size[r.bins[i]]) = i
    <3>1. CASE i = k
      BY <1>1, <1>3, <1>4, <1>5, <3>1
    <3>2. CASE i # k
      <4>1. r.bins[i] = h.bins[i]
        BY <1>1, <1>3, <1>5, <3>2
      <4>2. /\ h.bins[i] \in Blocks(h) /\ IsFree(h, h.bins[i])
            /\ h.free_prev[h.bins[i]] = 0 /\ bin_index(h.size[h.bins[i]]) = i
        BY <1>0, <2>1, <4>1 DEF FreeLinks
      <4>3. h.bins[i] # b /\ h.bins[i] # first
        <5>1. first # 0 => bin_index(h.size[first]) = k
          BY <1>0, <1>1 DEF FreeLinks
        <5> QED
          BY <1>5, <3>2, <4>2, <5>1
      <4> QED
        BY <1>3, <1>4, <4>1, <4>2, <4>3
    <3> QED
      BY <3>1, <3>2
  <2>2. ASSUME NEW a \in Blocks(r), IsFree(r, a), r.free_next[a] # 0
        PROVE  Linked(r, a, r.free_next[a]) /\ r.free_prev[r.free_next[a]] = a
    BY <1>0, <1>1, <1>2, <1>3, <1>4, <1>5, <2>2 DEF FreeLinks, Linked, SameBin
  <2>3. ASSUME NEW a \in Blocks(r), IsFree(r, a), r.free_prev[a] # 0
        PROVE  Linked(r, a, r.free_prev[a]) /\ r.free_next[r.free_prev[a]] = a
    BY <1>0, <1>1, <1>2, <1>3, <1>4, <1>5, <2>3 DEF FreeLinks, Linked, SameBin
  <2>4. ASSUME NEW a \in Blocks(r), IsFree(r, a), r.free_prev[a] = 0
        PROVE  r.bins[bin_index(r.size[a])] = a
    <3>1. CASE a = b
      BY <1>1, <1>3, <1>5, <3>1
    <3>2. CASE a # b
      <4>1. a \in Blocks(h) /\ IsFree(h, a) /\ bin_index(h.size[a]) \in 0..Bits - 1
        BY <1>0, <1>3, <1>4, <2>4, <3>2, SizesHaveBins
      <4>2. a # first /\ h.free_prev[a] = 0
        BY <1>3, <1>5, <2>4, <3>2, <4>1
      <4>3. h.bins[bin_index(h.size[a])] = a
        BY <1>0, <4>1, <4>2 DEF FreeLinks
      <4> QED
        BY <1>1, <1>3, <1>5, <4>1, <4>2, <4>3
    <3> QED
      BY <3>1, <3>2
  <2> QED
    BY <2>1, <2>2, <2>3, <2>4 DEF FreeLinks
<1>7. Chain(r) /\ Clear(r, to, mine)
  BY <1>0, <1>3, ChainKept
<1> QED
  BY <1>3, <1>4, <1>6, <1>7 DEF Good

(* Neither the free blocks nor their links change.                         *)
LEMMA FreeLinksKept ==
    ASSUME NEW h, NEW r, Shape(h), Shape(r), FreeLinks(h), r.bins = h.bins,
           \A a \in Blocks(r) : IsFree(r, a) <=> a \in Blocks(h) /\ IsFree(h, a),
           \A a \in Blocks(h) : IsFree(h, a) =>
              /\ a \in Blocks(r) /\ r.size[a] = h.size[a]
              /\ r.free_next[a] = h.free_next[a] /\ r.free_prev[a] = h.free_prev[a]
    PROVE  FreeLinks(r)
<1>1. ASSUME NEW i \in 0..Bits - 1, r.bins[i] # 0
      PROVE  /\ r.bins[i] \in Blocks(r) /\ IsFree(r, r.bins[i])
             /\ r.free_prev[r.bins[i]] = 0 /\ bin_index(r.size[r.bins[i]]) = i
  BY <1>1 DEF FreeLinks
<1>2. ASSUME NEW a \in Blocks(r), IsFree(r, a), r.free_next[a] # 0
      PROVE  Linked(r, a, r.free_next[a]) /\ r.free_prev[r.free_next[a]] = a
  BY <1>2 DEF FreeLinks, Linked, SameBin
<1>3. ASSUME NEW a \in Blocks(r), IsFree(r, a), r.free_prev[a] # 0
      PROVE  Linked(r, a, r.free_prev[a]) /\ r.free_next[r.free_prev[a]] = a
  BY <1>3 DEF FreeLinks, Linked, SameBin
<1>4. ASSUME NEW a \in Blocks(r), IsFree(r, a), r.free_prev[a] = 0
      PROVE  r.bins[bin_index(r.size[a])] = a
  BY <1>4 DEF FreeLinks
<1> QED
  BY <1>1, <1>2, <1>3, <1>4 DEF FreeLinks

(* join_next of two neighbours that are not free.                          *)
LEMMA JoinKeeps ==
    ASSUME NEW h, NEW to \in Nat, NEW mine, mine \subseteq [from : Nat, to : Nat], Good(h, to, mine),
           NEW b \in Blocks(h), ~IsFree(h, b),
           NEW n, n = h.next[b], n # 0, ~IsFree(h, n), End(h, b) = n,
           NEW r, r = join_next(h, b)
    PROVE  /\ Good(r, to, mine) /\ n \in Blocks(h) /\ n # b /\ Blocks(r) = Blocks(h) \ {n}
           /\ r.next[b] = h.next[n]
           /\ \A a \in Blocks(r) : /\ IsFree(r, a) <=> IsFree(h, a)
                                   /\ r.size[a] = IF a = b THEN h.size[b] + Header + h.size[n]
                                                  ELSE h.size[a]
<1> DEFINE after == h.next[n]
<1>0. Shape(h) /\ Chain(h) /\ FreeLinks(h) /\ Clear(h, to, mine)
  BY DEF Good
<1>1. n \in Blocks(h) /\ n # b /\ b < n /\ after \in Blocks(h) \cup {0}
      /\ h.prev[n] = b
  <2>1. n \in Blocks(h) /\ End(h, b) <= n /\ h.prev[n] = b
    BY <1>0 DEF Chain
  <2>2. b \in Nat /\ n \in Nat /\ h.size[b] \in Nat
    BY <1>0, <2>1, ShapeFields
  <2>3. b < n
    BY <2>1, <2>2 DEF End, Header
  <2>4. after \in Blocks(h) \cup {0}
    BY <1>0, <2>1 DEF Chain
  <2> QED
    BY <2>1, <2>2, <2>3, <2>4
<1>2. /\ Shape(r) /\ Blocks(r) = Blocks(h) \ {n}
      /\ r.bins = h.bins /\ r.tail = IF after = 0 THEN b ELSE h.tail
      /\ \A a \in Blocks(r) :
           /\ r.size[a] = IF a = b THEN h.size[b] + Header + h.size[n] ELSE h.size[a]
           /\ r.next[a] = IF a = b THEN after ELSE h.next[a]
           /\ r.prev[a] = IF a = after THEN b ELSE h.prev[a]
           /\ r.available[a] = h.available[a]
           /\ r.free_next[a] = h.free_next[a] /\ r.free_prev[a] = h.free_prev[a]
  BY <1>0, <1>1, JoinIs
<1>3. \A a \in Blocks(r) : IsFree(r, a) <=> IsFree(h, a)
  BY <1>2 DEF IsFree
<1>4. FreeLinks(r)
  BY <1>0, <1>2, <1>3, FreeLinksKept
<1>5. /\ \A a \in Blocks(h) : a \in Nat \ {0} /\ h.size[a] \in Nat /\ h.next[a] \in Nat
      /\ h.tail \in Nat /\ after \in Nat
  BY <1>0, <1>1, ShapeFields
<1>6. /\ \A a \in Blocks(r) : a # b => End(r, a) = End(h, a)
      /\ End(r, b) = End(h, n)
  BY <1>1, <1>2, <1>5 DEF End, Header
<1>7. Clear(r, to, mine)
  <2>1. \A a \in Blocks(r) : Origin <= a /\ End(r, a) <= to
    BY <1>0, <1>1, <1>2, <1>6 DEF Clear
  <2>2. ASSUME NEW a \in Blocks(r), NEW m \in mine
        PROVE  End(r, a) <= m.from \/ m.to <= a
    <3>1. CASE a # b
      BY <1>0, <1>2, <1>6, <3>1 DEF Clear
    <3>2. CASE a = b
      <4>1. m.from \in Nat /\ m.to \in Nat
        OBVIOUS
      <4>2. End(h, b) <= m.from \/ m.to <= b
        BY <1>0 DEF Clear
      <4>3. End(h, n) <= m.from \/ m.to <= n
        BY <1>0, <1>1 DEF Clear
      <4>4. m.from < m.to
        BY <1>0 DEF Clear
      <4> QED
        BY <1>1, <1>5, <1>6, <3>2, <4>1, <4>2, <4>3, <4>4 DEF End, Header
    <3> QED
      BY <3>1, <3>2
  <2> QED
    BY <1>0, <2>1, <2>2 DEF Clear
<1>8. Chain(r)
  <2>0. \A a \in Blocks(r) : a # b => h.next[a] # n
    BY <1>0, <1>1, <1>2 DEF Chain
  <2>1. ASSUME NEW a \in Blocks(r), r.next[a] # 0
        PROVE  /\ r.next[a] \in Blocks(r) /\ r.prev[r.next[a]] = a
               /\ End(r, a) <= r.next[a]
    <3>1. CASE a = b
      <4>1. after \in Blocks(h) /\ h.prev[after] = n /\ End(h, n) <= after
        BY <1>0, <1>1, <1>2, <2>1, <3>1 DEF Chain
      <4>2. after # n
        BY <1>1, <1>5, <4>1 DEF End, Header
      <4> QED
        BY <1>2, <1>6, <3>1, <4>1, <4>2
    <3>2. CASE a # b
      <4>1. /\ h.next[a] \in Blocks(h) /\ h.prev[h.next[a]] = a /\ End(h, a) <= h.next[a]
            /\ r.next[a] = h.next[a]
        BY <1>0, <1>2, <2>1, <3>2 DEF Chain
      <4>2. h.next[a] # n
        BY <2>0, <3>2
      <4>3. h.next[a] # after
        BY <1>0, <1>1, <1>2, <1>5, <4>1 DEF Chain
      <4> QED
        BY <1>2, <1>6, <3>2, <4>1, <4>2, <4>3
    <3> QED
      BY <3>1, <3>2
  <2>2. ASSUME NEW a \in Blocks(r), r.prev[a] # 0
        PROVE  r.prev[a] \in Blocks(r) /\ r.next[r.prev[a]] = a
    <3>1. CASE a = after
      BY <1>1, <1>2, <3>1
    <3>2. CASE a # after
      <4>1. h.prev[a] \in Blocks(h) /\ h.next[h.prev[a]] = a /\ r.prev[a] = h.prev[a]
        BY <1>0, <1>2, <2>2, <3>2 DEF Chain
      <4>2. h.prev[a] # n
        BY <3>2, <4>1
      <4>3. h.prev[a] # b
        BY <1>2, <4>1
      <4> QED
        BY <1>2, <4>1, <4>2, <4>3
    <3> QED
      BY <3>1, <3>2
  <2>3. ASSUME NEW a \in Blocks(r), NEW c \in Blocks(r), a < c
        PROVE  r.next[a] # 0 /\ r.next[a] <= c
    <3>1. CASE a = b
      <4>1. n <= c /\ c # n
        BY <1>0, <1>2, <2>3, <3>1 DEF Chain
      <4>2. n < c
        BY <1>1, <1>2, <1>5, <4>1
      <4> QED
        BY <1>0, <1>1, <1>2, <3>1, <4>2 DEF Chain
    <3>2. CASE a # b
      BY <1>0, <1>2, <2>3, <3>2 DEF Chain
    <3> QED
      BY <3>1, <3>2
  <2>4. /\ \A a \in Blocks(r) : r.next[a] = 0 => a = r.tail
        /\ r.tail # 0 => r.tail \in Blocks(r) /\ r.next[r.tail] = 0
        /\ r.tail = 0 => Blocks(r) = {}
    <3>1. CASE after = 0
      BY <1>0, <1>1, <1>2, <1>5, <3>1 DEF Chain
    <3>2. CASE after # 0
      <4>1. h.tail # n /\ h.tail # b
        BY <1>0, <1>1, <1>5, <3>2 DEF Chain
      <4> QED
        BY <1>0, <1>1, <1>2, <1>5, <3>2, <4>1 DEF Chain
    <3> QED
      BY <3>1, <3>2
  <2> QED
    BY <2>1, <2>2, <2>3, <2>4 DEF Chain
<1>9. r.next[b] = h.next[n]
  BY <1>1, <1>2
<1> QED
  BY <1>1, <1>2, <1>3, <1>4, <1>7, <1>8, <1>9 DEF Good

(* split_block of a block that is not free, when the rest can hold         *)
(* anything: the rest gets a header of its own, and is then made free.     *)
LEMMA SplitMiddle ==
    ASSUME NEW h, NEW to \in Nat, to < Word, NEW mine, mine \subseteq [from : Nat, to : Nat],
           Good(h, to, mine), NEW b \in Blocks(h), ~IsFree(h, b),
           NEW size \in Nat, size <= h.size[b], Splits(h, b, size),
           NEW r, r = split_block(h, b, size), NEW n, n = b + Header + size
    PROVE  \E mid :
              /\ r = insert_free(mid, n) /\ Good(mid, to, mine)
              /\ n \in Nat \ {0} /\ n # b /\ n \notin Blocks(h) /\ End(mid, n) = End(h, b)
              /\ Blocks(mid) = Blocks(h) \cup {n}
              /\ \A a \in Blocks(mid) :
                   /\ mid.size[a] = IF a = n THEN h.size[b] - size - Header
                                    ELSE IF a = b THEN size ELSE h.size[a]
                   /\ IsFree(mid, a) <=> a \in Blocks(h) /\ IsFree(h, a)
                   /\ a # n => mid.free_prev[a] = h.free_prev[a]
<1> DEFINE after == h.next[b]
           rest == h.size[b] - size - Header
           short == [h EXCEPT !.size = Put(@, b, size)]
           mid == NewBlock(short, n, rest, b, after)
<1>g. Shape(h) /\ Chain(h) /\ FreeLinks(h) /\ Clear(h, to, mine)
  BY DEF Good
<1>0. r = insert_free(mid, n)
  BY DEF split_block
<1>1. /\ \A a \in Blocks(h) : a \in Nat \ {0} /\ h.size[a] \in Nat /\ h.next[a] \in Nat
      /\ h.tail \in Nat /\ after \in Blocks(h) \cup {0}
  BY <1>g, ShapeFields DEF Chain
<1>2. rest \in Nat /\ n \in Nat \ {0} /\ b < n /\ n + Header + rest = End(h, b)
      /\ n < End(h, b)
  BY <1>1 DEF Splits, Header, Align, End
<1>3. ASSUME NEW c \in Blocks(h), b < c
      PROVE  after # 0 /\ after <= c /\ End(h, b) <= c /\ n < c
  <2>1. after # 0 /\ after <= c /\ End(h, b) <= after
    BY <1>g, <1>3 DEF Chain
  <2> QED
    BY <1>1, <1>2, <1>3, <2>1 DEF End, Header
<1>4. n \notin Blocks(h)
  BY <1>1, <1>2, <1>3
<1>s. short = [h EXCEPT !.size = Put(@, b, size)]
  OBVIOUS
<1> HIDE DEF short
<1>5. /\ Shape(short) /\ Blocks(short) = Blocks(h)
      /\ short.next = h.next /\ short.prev = h.prev /\ short.tail = h.tail /\ short.bins = h.bins
      /\ short.available = h.available
      /\ short.free_next = h.free_next /\ short.free_prev = h.free_prev
      /\ \A a \in Blocks(h) : short.size[a] = IF a = b THEN size ELSE h.size[a]
  BY <1>g, <1>s, ResizeIs
<1>6. /\ Shape(mid) /\ Blocks(mid) = Blocks(h) \cup {n}
      /\ mid.bins = h.bins /\ mid.tail = IF after = 0 THEN n ELSE h.tail
      /\ \A a \in Blocks(mid) :
           /\ mid.size[a] = IF a = n THEN rest ELSE IF a = b THEN size ELSE h.size[a]
           /\ mid.next[a] = IF a = n THEN after ELSE IF a = b THEN n ELSE h.next[a]
           /\ mid.prev[a] = IF a = n THEN b ELSE IF a = after THEN n ELSE h.prev[a]
           /\ mid.available[a] = IF a = n THEN 0 ELSE h.available[a]
           /\ a # n => mid.free_next[a] = h.free_next[a] /\ mid.free_prev[a] = h.free_prev[a]
  <2>1. /\ b \in Blocks(short) \cup {0} /\ after \in Blocks(short) \cup {0}
        /\ n \in Nat \ {0} /\ n \notin Blocks(short) /\ rest \in Nat /\ Shape(short)
    BY <1>1, <1>2, <1>4, <1>5
  <2>2. mid = NewBlock(short, n, rest, b, after)
    OBVIOUS
  <2> HIDE DEF after, rest, mid
  <2>3. /\ Shape(mid) /\ Blocks(mid) = Blocks(short) \cup {n}
        /\ mid.bins = short.bins /\ mid.tail = IF after = 0 THEN n ELSE short.tail
        /\ \A a \in Blocks(mid) :
             /\ mid.size[a] = IF a = n THEN rest ELSE short.size[a]
             /\ mid.next[a] = IF a = n THEN after ELSE IF a = b THEN n ELSE short.next[a]
             /\ mid.prev[a] = IF a = n THEN b ELSE IF a = after THEN n ELSE short.prev[a]
             /\ mid.available[a] = IF a = n THEN 0 ELSE short.available[a]
             /\ a # n => mid.free_next[a] = short.free_next[a] /\ mid.free_prev[a] = short.free_prev[a]
    <3>1. Inserted(mid, short, n, rest, b, after)
      BY <2>1, <2>2, NewBlockIs
    <3> QED
      BY <3>1 DEF Inserted
  <2>4. /\ short.next = h.next /\ short.prev = h.prev /\ short.free_next = h.free_next
        /\ short.available = h.available /\ short.free_prev = h.free_prev
        /\ short.bins = h.bins /\ short.tail = h.tail
    BY <1>5
  <2>5. Shape(mid) /\ Blocks(mid) = Blocks(h) \cup {n}
    BY <1>5, <2>3
  <2>6. ASSUME NEW a \in Blocks(mid), a # n
        PROVE  short.size[a] = IF a = b THEN size ELSE h.size[a]
    BY <1>5, <2>5, <2>6
  <2> QED
    BY <2>3, <2>4, <2>5, <2>6
<1> HIDE DEF mid, after, rest
<1>7. \A a \in Blocks(mid) : IsFree(mid, a) <=> a \in Blocks(h) /\ IsFree(h, a)
  BY <1>4, <1>6 DEF IsFree
<1>8. FreeLinks(mid)
  <2>1. \A a \in Blocks(h) : IsFree(h, a) =>
            /\ a \in Blocks(mid) /\ mid.size[a] = h.size[a]
            /\ mid.free_next[a] = h.free_next[a] /\ mid.free_prev[a] = h.free_prev[a]
    BY <1>4, <1>6
  <2> QED
    BY <1>g, <1>6, <1>7, <2>1, FreeLinksKept
<1>9. /\ \A a \in Blocks(h) : a # b => End(mid, a) = End(h, a)
      /\ End(mid, b) = n /\ End(mid, n) = End(h, b)
  <2>1. n = b + Header + size
    OBVIOUS
  <2>2. \A a \in Blocks(h) : a # b => End(mid, a) = End(h, a)
    BY <1>4, <1>6 DEF End
  <2>3. End(mid, b) = n
    BY <1>4, <1>6, <2>1 DEF End
  <2>4. End(mid, n) = n + Header + rest
    BY <1>6 DEF End
  <2> QED
    BY <1>2, <2>2, <2>3, <2>4
<1>10. Clear(mid, to, mine)
  <2>0. \A a \in Blocks(mid) : a = n \/ a = b \/ (a \in Blocks(h) /\ a # b)
    BY <1>6
  <2>00. Origin <= b /\ End(h, b) <= to /\ Origin \in Nat /\ End(h, b) \in Nat
    BY <1>g, <1>1, HeapAssumption DEF Clear, End, Header
  <2>1. \A a \in Blocks(mid) : Origin <= a /\ End(mid, a) <= to
    BY <1>g, <1>1, <1>2, <1>9, <2>0, <2>00 DEF Clear
  <2>2. ASSUME NEW a \in Blocks(mid), NEW m \in mine
        PROVE  End(mid, a) <= m.from \/ m.to <= a
    <3>1. m.from \in Nat /\ m.to \in Nat /\ (End(h, b) <= m.from \/ m.to <= b)
      BY <1>g DEF Clear
    <3>2. CASE a = n \/ a = b
      BY <1>1, <1>2, <1>9, <2>00, <3>1, <3>2
    <3>3. CASE a # n /\ a # b
      BY <1>g, <1>9, <2>0, <3>3 DEF Clear
    <3> QED
      BY <3>2, <3>3
  <2> QED
    BY <1>g, <2>1, <2>2 DEF Clear
<1>11. Chain(mid)
  <2>a. after = h.next[b] /\ (after # 0 => after \in Blocks(h) /\ h.prev[after] = b /\ End(h, b) <= after)
    BY <1>g DEF Chain, after
  <2>1. ASSUME NEW a \in Blocks(mid), mid.next[a] # 0
        PROVE  /\ mid.next[a] \in Blocks(mid) /\ mid.prev[mid.next[a]] = a
               /\ End(mid, a) <= mid.next[a]
    <3>1. CASE a = b
      BY <1>2, <1>4, <1>6, <1>9, <3>1
    <3>2. CASE a = n
      BY <1>4, <1>6, <1>9, <2>1, <2>a, <3>2
    <3>3. CASE a # b /\ a # n
      <4>1. /\ a \in Blocks(h) /\ h.next[a] \in Blocks(h) /\ h.prev[h.next[a]] = a
            /\ End(h, a) <= h.next[a] /\ mid.next[a] = h.next[a]
        BY <1>g, <1>6, <2>1, <3>3 DEF Chain
      <4>2. h.next[a] # n /\ h.next[a] # after
        BY <1>1, <1>4, <2>a, <3>3, <4>1
      <4> QED
        BY <1>6, <1>9, <3>3, <4>1, <4>2
    <3> QED
      BY <3>1, <3>2, <3>3
  <2>2. ASSUME NEW a \in Blocks(mid), mid.prev[a] # 0
        PROVE  mid.prev[a] \in Blocks(mid) /\ mid.next[mid.prev[a]] = a
    <3>1. CASE a = n
      BY <1>4, <1>6, <3>1
    <3>2. CASE a # n /\ a = after
      BY <1>6, <3>2
    <3>3. CASE a # n /\ a # after
      <4>1. a \in Blocks(h) /\ h.prev[a] \in Blocks(h) /\ h.next[h.prev[a]] = a /\ mid.prev[a] = h.prev[a]
        BY <1>g, <1>6, <2>2, <3>3 DEF Chain
      <4>2. h.prev[a] # b
        BY <2>a, <3>3, <4>1
      <4> QED
        BY <1>4, <1>6, <4>1, <4>2
    <3> QED
      BY <3>1, <3>2, <3>3
  <2>3. ASSUME NEW a \in Blocks(mid), NEW c \in Blocks(mid), a < c
        PROVE  mid.next[a] # 0 /\ mid.next[a] <= c
    <3>b. b \in Nat /\ n \in Nat /\ b < n
      BY <1>1, <1>2
    <3>0. a \in Blocks(h) \cup {n} /\ c \in Blocks(h) \cup {n} /\ a \in Nat /\ c \in Nat
      BY <1>1, <1>2, <1>6
    <3>1. CASE a = b
      <4>1. c = n \/ n < c
        BY <1>3, <2>3, <3>0, <3>1
      <4> QED
        BY <1>2, <1>4, <1>6, <3>0, <3>1, <4>1
    <3>2. CASE a = n
      <4>1. c \in Blocks(h) /\ b < c
        BY <2>3, <3>0, <3>2, <3>b
      <4> QED
        BY <1>3, <1>6, <3>2, <4>1
    <3>3. CASE a # b /\ a # n /\ c = n
      <4>1. a < b
        <5>1. ~(b < a)
          BY <1>3, <2>3, <3>0, <3>3, <1>2
        <5> QED
          BY <3>0, <3>3, <3>b, <5>1
      <4>2. h.next[a] # 0 /\ h.next[a] <= b
        BY <1>g, <3>0, <3>3, <4>1 DEF Chain
      <4>3. h.next[a] \in Nat /\ mid.next[a] = h.next[a]
        BY <1>1, <1>6, <3>0, <3>3
      <4> QED
        BY <3>3, <3>b, <4>2, <4>3
    <3>4. CASE a # b /\ a # n /\ c # n
      BY <1>g, <1>6, <2>3, <3>0, <3>4 DEF Chain
    <3> QED
      BY <3>1, <3>2, <3>3, <3>4
  <2>4. /\ \A a \in Blocks(mid) : mid.next[a] = 0 => a = mid.tail
        /\ mid.tail # 0 => mid.tail \in Blocks(mid) /\ mid.next[mid.tail] = 0
        /\ mid.tail = 0 => Blocks(mid) = {}
    <3>1. CASE after = 0
      <4>1. h.tail = b
        BY <1>g, <2>a, <3>1 DEF Chain
      <4> QED
        BY <1>g, <1>2, <1>4, <1>6, <3>1, <4>1 DEF Chain
    <3>2. CASE after # 0
      <4>1. h.tail # b /\ h.tail # 0 /\ h.tail \in Blocks(h)
        BY <1>g, <2>a, <3>2, <1>1 DEF Chain
      <4> QED
        BY <1>g, <1>2, <1>4, <1>6, <3>2, <4>1 DEF Chain
    <3> QED
      BY <3>1, <3>2
  <2> QED
    BY <2>1, <2>2, <2>3, <2>4 DEF Chain
<1>12. Good(mid, to, mine) /\ n \in Blocks(mid) /\ ~IsFree(mid, n)
  BY <1>4, <1>6, <1>7, <1>8, <1>10, <1>11 DEF Good
<1>13. /\ n \in Nat \ {0} /\ n # b /\ End(mid, n) = End(h, b)
       /\ \A a \in Blocks(mid) :
            /\ mid.size[a] = IF a = n THEN h.size[b] - size - Header
                             ELSE IF a = b THEN size ELSE h.size[a]
            /\ a # n => mid.free_prev[a] = h.free_prev[a]
  BY <1>2, <1>4, <1>6, <1>9 DEF rest
<1> QED
  BY <1>0, <1>4, <1>6, <1>7, <1>12, <1>13

(* split_block of a block that is not free: the rest is free.              *)
LEMMA SplitKeeps ==
    ASSUME NEW h, NEW to \in Nat, to < Word, NEW mine, mine \subseteq [from : Nat, to : Nat],
           Good(h, to, mine), NEW b \in Blocks(h), ~IsFree(h, b),
           NEW size \in Nat, size <= h.size[b], NEW r, r = split_block(h, b, size)
    PROVE  /\ Good(r, to, mine) /\ Blocks(h) \subseteq Blocks(r)
           /\ size <= r.size[b] /\ ~IsFree(r, b)
           /\ \A a \in Blocks(h) : /\ a # b => r.size[a] = h.size[a]
                                   /\ IsFree(r, a) <=> IsFree(h, a)
           /\ \A a \in Blocks(r) : a \in Blocks(h) \/ IsFree(r, a)
           /\ \A a \in Blocks(r) \ Blocks(h) : a = b + Header + size /\ End(r, a) = End(h, b)
<1> DEFINE n == b + Header + size
<1>1. CASE ~Splits(h, b, size)
  BY <1>1 DEF split_block
<1>2. CASE Splits(h, b, size)
  <2> HIDE DEF n
  <2>0. n = b + Header + size
    BY DEF n
  <2>1. PICK mid :
          /\ r = insert_free(mid, n) /\ Good(mid, to, mine)
          /\ n \in Nat \ {0} /\ n # b /\ n \notin Blocks(h) /\ End(mid, n) = End(h, b)
          /\ Blocks(mid) = Blocks(h) \cup {n}
          /\ \A a \in Blocks(mid) :
               /\ mid.size[a] = IF a = n THEN h.size[b] - size - Header
                                ELSE IF a = b THEN size ELSE h.size[a]
               /\ IsFree(mid, a) <=> a \in Blocks(h) /\ IsFree(h, a)
               /\ a # n => mid.free_prev[a] = h.free_prev[a]
    BY <1>2, <2>0, SplitMiddle
  <2>2. n \in Blocks(mid) /\ ~IsFree(mid, n)
    BY <2>1
  <2>3. /\ Good(r, to, mine) /\ Blocks(r) = Blocks(mid) /\ r.size = mid.size
        /\ \A a \in Blocks(mid) : IsFree(r, a) <=> IsFree(mid, a) \/ a = n
    BY <2>1, <2>2, InsertKeeps
  <2>4. \A a \in Blocks(r) \ Blocks(h) : a = b + Header + size /\ End(r, a) = End(h, b)
    BY <2>0, <2>1, <2>3 DEF End
  <2>5. r.size[b] = size
    BY <2>1, <2>3
  <2> QED
    BY <2>1, <2>3, <2>4, <2>5
<1> QED
  BY <1>1, <1>2

(***************************************************************************)
(* malloc and free keep the headers good and do to the blocks in use what  *)
(* they should.                                                            *)
(***************************************************************************)
InUse(h) == {a \in Blocks(h) : ~IsFree(h, a)}

(* Apart from b before and c after, the same blocks are in use.            *)
SameUsers(h, b, r, c) ==
    /\ InUse(h) \ {b} = InUse(r) \ {c}
    /\ \A a \in InUse(h) \ {b} : r.size[a] = h.size[a]

(* A block taken from the break.                                           *)
LEMMA AppendKeeps ==
    ASSUME NEW h, NEW to \in Nat \ {0}, Origin <= to, NEW mine, mine \subseteq [from : Nat, to : Nat],
           Good(h, to, mine), NEW size \in Nat, NEW r, r = NewBlock(h, to, size, h.tail, 0)
    PROVE  /\ Good(r, to + Header + size, mine)
           /\ to \in InUse(r) \ InUse(h) /\ r.size[to] = size /\ SameUsers(h, to, r, to)
<1>0. Shape(h) /\ Chain(h) /\ FreeLinks(h) /\ Clear(h, to, mine)
  BY DEF Good
<1>1. /\ \A a \in Blocks(h) : a \in Nat \ {0} /\ h.size[a] \in Nat /\ h.next[a] \in Nat
      /\ h.tail \in Nat /\ h.tail \in Blocks(h) \cup {0} /\ 0 \notin Blocks(h)
  BY <1>0, ShapeFields DEF Chain
<1>2. \A a \in Blocks(h) : a < to /\ End(h, a) <= to
  BY <1>0, <1>1 DEF Clear, End, Header
<1>3. to \notin Blocks(h)
  BY <1>2
<1>4. /\ Shape(r) /\ Blocks(r) = Blocks(h) \cup {to}
      /\ r.bins = h.bins /\ r.tail = to
      /\ \A a \in Blocks(r) :
           /\ r.size[a] = IF a = to THEN size ELSE h.size[a]
           /\ r.next[a] = IF a = to THEN 0 ELSE IF a = h.tail THEN to ELSE h.next[a]
           /\ r.prev[a] = IF a = to THEN h.tail ELSE IF a = 0 THEN to ELSE h.prev[a]
           /\ r.available[a] = IF a = to THEN 0 ELSE h.available[a]
           /\ a # to => r.free_next[a] = h.free_next[a] /\ r.free_prev[a] = h.free_prev[a]
  <2>1. Inserted(r, h, to, size, h.tail, 0)
    BY <1>0, <1>1, <1>3, NewBlockIs
  <2> QED
    BY <2>1 DEF Inserted
<1>5. \A a \in Blocks(r) : IsFree(r, a) <=> a \in Blocks(h) /\ IsFree(h, a)
  BY <1>3, <1>4 DEF IsFree
<1>6. FreeLinks(r)
  <2>1. \A a \in Blocks(h) : IsFree(h, a) =>
            /\ a \in Blocks(r) /\ r.size[a] = h.size[a]
            /\ r.free_next[a] = h.free_next[a] /\ r.free_prev[a] = h.free_prev[a]
    BY <1>3, <1>4
  <2> QED
    BY <1>0, <1>4, <1>5, <2>1, FreeLinksKept
<1>7. (\A a \in Blocks(h) : End(r, a) = End(h, a)) /\ End(r, to) = to + Header + size
  BY <1>3, <1>4 DEF End
<1>8. Clear(r, to + Header + size, mine)
  <2>1. \A a \in Blocks(r) : Origin <= a /\ End(r, a) <= to + Header + size
    <3>1. ASSUME NEW a \in Blocks(h) PROVE Origin <= a /\ End(r, a) <= to + Header + size
      <4>1. Origin <= a /\ End(r, a) <= to /\ End(r, a) \in Nat
        BY <1>0, <1>1, <1>2, <1>7 DEF Clear, End, Header
      <4> QED
        BY <4>1 DEF Header
    <3> QED
      BY <1>4, <1>7, <3>1 DEF Header
  <2>2. \A m \in mine : m.from < m.to /\ m.to <= to + Header + size
    BY <1>0 DEF Clear, Header
  <2>3. \A a \in Blocks(r) : \A m \in mine : End(r, a) <= m.from \/ m.to <= a
    BY <1>0, <1>4, <1>7 DEF Clear
  <2> QED
    BY <2>1, <2>2, <2>3 DEF Clear
<1>9. Chain(r)
  <2>1. ASSUME NEW a \in Blocks(r), r.next[a] # 0
        PROVE  /\ r.next[a] \in Blocks(r) /\ r.prev[r.next[a]] = a
               /\ End(r, a) <= r.next[a]
    <3>1. CASE a = h.tail
      BY <1>1, <1>2, <1>3, <1>4, <1>7, <2>1, <3>1
    <3>2. CASE a # h.tail
      <4>1. /\ a \in Blocks(h) /\ h.next[a] \in Blocks(h) /\ h.prev[h.next[a]] = a
            /\ End(h, a) <= h.next[a] /\ r.next[a] = h.next[a]
        BY <1>0, <1>4, <2>1, <3>2 DEF Chain
      <4> QED
        BY <1>1, <1>3, <1>4, <1>7, <4>1
    <3> QED
      BY <3>1, <3>2
  <2>2. ASSUME NEW a \in Blocks(r), r.prev[a] # 0
        PROVE  r.prev[a] \in Blocks(r) /\ r.next[r.prev[a]] = a
    <3>1. CASE a = to
      BY <1>1, <1>3, <1>4, <2>2, <3>1
    <3>2. CASE a # to
      <4>1. a \in Blocks(h) /\ h.prev[a] \in Blocks(h) /\ h.next[h.prev[a]] = a /\ r.prev[a] = h.prev[a]
        BY <1>0, <1>1, <1>4, <2>2, <3>2 DEF Chain
      <4>2. h.prev[a] # h.tail
        BY <1>0, <1>1, <4>1 DEF Chain
      <4> QED
        BY <1>3, <1>4, <4>1, <4>2
    <3> QED
      BY <3>1, <3>2
  <2>3. ASSUME NEW a \in Blocks(r), NEW c \in Blocks(r), a < c
        PROVE  r.next[a] # 0 /\ r.next[a] <= c
    <3>1. a \in Blocks(h) /\ a # to
      BY <1>1, <1>2, <1>4, <2>3
    <3>2. CASE c = to
      <4>1. CASE a = h.tail
        BY <1>4, <3>1, <3>2, <4>1
      <4>2. CASE a # h.tail
        <5>1. h.next[a] # 0 /\ h.next[a] \in Blocks(h)
          BY <1>0, <3>1, <4>2 DEF Chain
        <5>2. r.next[a] = h.next[a]
          BY <1>4, <3>1, <4>2
        <5>3. h.next[a] \in Nat /\ h.next[a] < to
          BY <1>1, <1>2, <5>1
        <5> QED
          BY <3>2, <5>1, <5>2, <5>3
      <4> QED
        BY <4>1, <4>2
    <3>3. CASE c # to
      <4>1. c \in Blocks(h) /\ h.next[a] # 0 /\ h.next[a] <= c
        BY <1>0, <1>4, <2>3, <3>1, <3>3 DEF Chain
      <4>2. a # h.tail
        BY <1>0, <1>1, <3>1, <4>1 DEF Chain
      <4> QED
        BY <1>4, <3>1, <4>1, <4>2
    <3> QED
      BY <3>2, <3>3
  <2>4. /\ \A a \in Blocks(r) : r.next[a] = 0 => a = r.tail
        /\ r.tail # 0 => r.tail \in Blocks(r) /\ r.next[r.tail] = 0
        /\ r.tail = 0 => Blocks(r) = {}
    BY <1>0, <1>1, <1>4 DEF Chain
  <2> QED
    BY <2>1, <2>2, <2>3, <2>4 DEF Chain
<1>10. to \in InUse(r) \ InUse(h) /\ r.size[to] = size
  BY <1>3, <1>4, <1>5 DEF InUse
<1>11. SameUsers(h, to, r, to)
  BY <1>3, <1>4, <1>5 DEF SameUsers, InUse
<1> QED
  BY <1>4, <1>6, <1>8, <1>9, <1>10, <1>11 DEF Good

(* free: a free block before the one freed is joined to it.                *)
LEMMA JoinedPrevKeeps ==
    ASSUME NEW h, NEW to \in Nat, to < Word, NEW mine, mine \subseteq [from : Nat, to : Nat],
           Good(h, to, mine), NEW at \in InUse(h),
           NEW b, b = (IF JoinsPrev(h, at) THEN h.prev[at] ELSE at), NEW r, r = JoinedPrev(h, at)
    PROVE  Good(r, to, mine) /\ b \in InUse(r) /\ SameUsers(h, at, r, b)
<1>1. CASE ~JoinsPrev(h, at)
  BY <1>1 DEF JoinedPrev, SameUsers
<1>2. CASE JoinsPrev(h, at)
  <2> DEFINE one == remove_free(h, b)
  <2>0. b = h.prev[at] /\ b # 0 /\ IsFree(h, b) /\ End(h, b) = at /\ r = join_next(one, b)
    BY <1>2 DEF JoinsPrev, JoinedPrev
  <2>1. b \in Blocks(h) /\ h.next[b] = at /\ at # b /\ at \in Blocks(h) /\ at # 0
    BY <2>0, ShapeFields DEF Good, Chain, InUse
  <2>2. /\ Good(one, to, mine) /\ Blocks(one) = Blocks(h) /\ one.size = h.size /\ one.next = h.next
        /\ \A a \in Blocks(h) : IsFree(one, a) <=> IsFree(h, a) /\ a # b
    BY <2>0, <2>1, RemoveKeeps
  <2> HIDE DEF one
  <2>3. ~IsFree(one, b) /\ ~IsFree(one, at) /\ End(one, b) = at /\ one.next[b] = at /\ b \in Blocks(one)
    BY <2>0, <2>1, <2>2 DEF End, InUse
  <2>4. /\ Good(r, to, mine) /\ Blocks(r) = Blocks(one) \ {at}
        /\ \A a \in Blocks(r) : /\ IsFree(r, a) <=> IsFree(one, a)
                                /\ a # b => r.size[a] = one.size[a]
    BY <2>0, <2>1, <2>2, <2>3, JoinKeeps
  <2>5. b \in InUse(r)
    BY <2>1, <2>2, <2>3, <2>4 DEF InUse
  <2>6. SameUsers(h, at, r, b)
    <3>1. InUse(h) \ {at} = InUse(r) \ {b}
      BY <2>0, <2>1, <2>2, <2>4 DEF InUse
    <3> QED
      BY <2>2, <2>4, <3>1 DEF SameUsers, InUse
  <2> QED
    BY <2>4, <2>5, <2>6
<1> QED
  BY <1>1, <1>2

(* free and realloc: a free block after b is joined to it.                 *)
LEMMA JoinedNextKeeps ==
    ASSUME NEW h, NEW to \in Nat, to < Word, NEW mine, mine \subseteq [from : Nat, to : Nat],
           Good(h, to, mine), NEW b \in InUse(h), NEW r, r = JoinedNext(h, b)
    PROVE  /\ Good(r, to, mine) /\ b \in InUse(r) /\ SameUsers(h, b, r, b)
           /\ Adjacent(h, b, h.next[b]) => r.size[b] = h.size[b] + Header + h.size[h.next[b]]
<1> DEFINE n == h.next[b]
<1>1. CASE ~Adjacent(h, b, n)
  BY <1>1 DEF JoinedNext, SameUsers
<1>2. CASE Adjacent(h, b, n)
  <2> DEFINE one == remove_free(h, n)
  <2>0. n # 0 /\ IsFree(h, n) /\ End(h, b) = n /\ r = join_next(one, b)
    BY <1>2 DEF Adjacent, JoinedNext
  <2>1. n \in Blocks(h) /\ n # b /\ b \in Blocks(h) /\ ~IsFree(h, b)
    BY <2>0 DEF Good, Chain, InUse
  <2> HIDE DEF n
  <2>2. /\ Good(one, to, mine) /\ Blocks(one) = Blocks(h) /\ one.size = h.size /\ one.next = h.next
        /\ \A a \in Blocks(h) : IsFree(one, a) <=> IsFree(h, a) /\ a # n
    BY <2>0, <2>1, RemoveKeeps
  <2> HIDE DEF one
  <2>3. ~IsFree(one, b) /\ ~IsFree(one, n) /\ End(one, b) = n /\ n = one.next[b] /\ b \in Blocks(one)
    BY <2>0, <2>1, <2>2 DEF End, n
  <2>4. /\ Good(r, to, mine) /\ Blocks(r) = Blocks(one) \ {n}
        /\ \A a \in Blocks(r) : /\ IsFree(r, a) <=> IsFree(one, a)
                                /\ r.size[a] = IF a = b THEN one.size[b] + Header + one.size[n]
                                               ELSE one.size[a]
    BY <2>0, <2>1, <2>2, <2>3, JoinKeeps
  <2>5. b \in InUse(r)
    BY <2>1, <2>2, <2>3, <2>4 DEF InUse
  <2>6. SameUsers(h, b, r, b)
    <3>1. InUse(h) \ {b} = InUse(r) \ {b}
      BY <2>0, <2>1, <2>2, <2>4 DEF InUse
    <3> QED
      BY <2>2, <2>4, <3>1 DEF SameUsers, InUse
  <2> QED
    BY <2>1, <2>2, <2>4, <2>5, <2>6 DEF n
<1> QED
  BY <1>1, <1>2

(* free: the block is no longer in use, and all others are as they were.   *)
LEMMA FreeKeeps ==
    ASSUME NEW h, NEW to \in Nat, to < Word, NEW mine, mine \subseteq [from : Nat, to : Nat],
           Good(h, to, mine), NEW at \in InUse(h), NEW r, r = free(h, at + Header)
    PROVE  /\ Good(r, to, mine) /\ InUse(r) = InUse(h) \ {at}
           /\ \A a \in InUse(r) : r.size[a] = h.size[a]
<1> DEFINE b == IF JoinsPrev(h, at) THEN h.prev[at] ELSE at
           one == JoinedPrev(h, at)
           two == JoinedNext(one, b)
<1>1. r = insert_free(two, b)
  <2>1. (at + Header) - Header = at
    BY ShapeFields DEF Good, InUse, Header
  <2> QED
    BY <2>1 DEF free
<1>2. Good(one, to, mine) /\ b \in InUse(one) /\ SameUsers(h, at, one, b)
  BY JoinedPrevKeeps
<1> HIDE DEF one, b
<1>3. Good(two, to, mine) /\ b \in InUse(two) /\ SameUsers(one, b, two, b)
  BY <1>2, JoinedNextKeeps
<1> HIDE DEF two
<1>4. /\ Good(r, to, mine) /\ Blocks(r) = Blocks(two) /\ r.size = two.size
      /\ \A a \in Blocks(two) : IsFree(r, a) <=> IsFree(two, a) \/ a = b
  <2>1. b \in Blocks(two) /\ ~IsFree(two, b)
    BY <1>3 DEF InUse
  <2> QED
    BY <1>1, <1>3, <2>1, InsertKeeps
<1>5. InUse(r) = InUse(two) \ {b}
  BY <1>4 DEF InUse
<1>6. InUse(r) = InUse(h) \ {at}
  BY <1>2, <1>3, <1>5 DEF SameUsers
<1>7. \A a \in InUse(r) : r.size[a] = h.size[a]
  BY <1>2, <1>3, <1>4, <1>5, <1>6 DEF SameUsers
<1> QED
  BY <1>4, <1>6, <1>7

(* Sizes are rounded up to the alignment, and do not wrap round when they  *)
(* are not too big.                                                        *)
LEMMA AlignedIs ==
    ASSUME NEW size \in Nat, ~TooBig(size)
    PROVE  Aligned(size) \in Nat /\ size <= Aligned(size)
<1> DEFINE up == size + 7
<1>1. Word \in Nat /\ size + 32 <= Word
  BY HeapAssumption DEF TooBig, Align, Header
<1>2. Wrap(size + Align - 1) = up
  BY <1>1 DEF Wrap, Align
<1>3. Aligned(size) = up - (up % 8)
  BY <1>2 DEF Aligned, Align
<1>4. up \in Nat /\ up % 8 \in 0..7
  OBVIOUS
<1> QED
  BY <1>3, <1>4

Resized(h, b, size) == [h EXCEPT !.size = Put(@, b, size)]

(* realloc: the last block is made larger together with the break.         *)
LEMMA GrowKeeps ==
    ASSUME NEW h, NEW to \in Nat, NEW mine, mine \subseteq [from : Nat, to : Nat],
           Good(h, to, mine), NEW b \in InUse(h), h.next[b] = 0, to = End(h, b),
           NEW size \in Nat, h.size[b] <= size,
           NEW r, r = Resized(h, b, size)
    PROVE  /\ Good(r, to + (size - h.size[b]), mine)
           /\ b \in InUse(r) /\ r.size[b] = size /\ SameUsers(h, b, r, b)
<1> DEFINE new == to + (size - h.size[b])
<1>0. Shape(h) /\ Chain(h) /\ FreeLinks(h) /\ Clear(h, to, mine) /\ b \in Blocks(h) /\ ~IsFree(h, b)
  BY DEF Good, InUse
<1>1. /\ Shape(r) /\ Blocks(r) = Blocks(h)
      /\ r.next = h.next /\ r.prev = h.prev /\ r.tail = h.tail /\ r.bins = h.bins
      /\ r.available = h.available
      /\ r.free_next = h.free_next /\ r.free_prev = h.free_prev
      /\ \A a \in Blocks(h) : r.size[a] = IF a = b THEN size ELSE h.size[a]
  BY <1>0, ResizeIs DEF Resized
<1>2. \A a \in Blocks(h) : IsFree(r, a) <=> IsFree(h, a)
  BY <1>1 DEF IsFree
<1>3. FreeLinks(r)
  <2>1. \A a \in Blocks(r) : IsFree(r, a) <=> a \in Blocks(h) /\ IsFree(h, a)
    BY <1>1, <1>2
  <2>2. \A a \in Blocks(h) : IsFree(h, a) =>
            /\ a \in Blocks(r) /\ r.size[a] = h.size[a]
            /\ r.free_next[a] = h.free_next[a] /\ r.free_prev[a] = h.free_prev[a]
    BY <1>0, <1>1
  <2> QED
    BY <1>0, <1>1, <2>1, <2>2, FreeLinksKept
<1>4. \A a \in Blocks(h) : a # b => End(r, a) = End(h, a)
  BY <1>1 DEF End
<1>5. Chain(r)
  <2>1. \A a \in Blocks(h) : r.next[a] # 0 => End(r, a) = End(h, a)
    BY <1>1, <1>4
  <2>2. \A a \in Blocks(r) : r.next[a] # 0 =>
            /\ r.next[a] \in Blocks(r) /\ r.prev[r.next[a]] = a
            /\ End(r, a) <= r.next[a]
    BY <1>0, <1>1, <2>1 DEF Chain
  <2> QED
    BY <1>0, <1>1, <2>2 DEF Chain
<1>6. /\ \A a \in Blocks(h) : a \in Nat /\ End(h, a) \in Nat
      /\ h.size[b] \in Nat /\ Origin \in Nat /\ new \in Nat /\ to <= new
  BY <1>0, ShapeFields, HeapAssumption DEF End, Header
<1>7. End(r, b) = new
  BY <1>0, <1>1, <1>6 DEF End, Header
<1> HIDE DEF new
<1>8. Clear(r, new, mine)
  <2>1. ASSUME NEW a \in Blocks(r) PROVE Origin <= a /\ End(r, a) <= new
    <3>1. a \in Blocks(h) /\ Origin <= a /\ End(h, a) <= to
      BY <1>0, <1>1 DEF Clear
    <3> QED
      BY <1>4, <1>6, <1>7, <3>1
  <2>2. \A m \in mine : m.from < m.to /\ m.to <= new
    BY <1>0, <1>6 DEF Clear
  <2>3. ASSUME NEW a \in Blocks(r), NEW m \in mine
        PROVE  End(r, a) <= m.from \/ m.to <= a
    <3>1. a \in Blocks(h) /\ (End(h, a) <= m.from \/ m.to <= a) /\ m.from < m.to /\ m.to <= to
      BY <1>0, <1>1 DEF Clear
    <3>2. m.from \in Nat /\ m.to \in Nat
      OBVIOUS
    <3> QED
      BY <1>4, <1>6, <3>1, <3>2
  <2> QED
    BY <2>1, <2>2, <2>3 DEF Clear
<1>9. b \in InUse(r) /\ r.size[b] = size /\ SameUsers(h, b, r, b)
  BY <1>0, <1>1, <1>2 DEF InUse, SameUsers
<1> QED
  BY <1>1, <1>3, <1>5, <1>8, <1>9 DEF Good, new

(* The blocks in use after split_block of one of them are the same.        *)
LEMMA SplitUsers ==
    ASSUME NEW h, NEW to \in Nat, to < Word, NEW mine, mine \subseteq [from : Nat, to : Nat],
           Good(h, to, mine), NEW b \in InUse(h),
           NEW size \in Nat, size <= h.size[b], NEW r, r = split_block(h, b, size)
    PROVE  /\ Good(r, to, mine) /\ size <= r.size[b]
           /\ b \in InUse(r) /\ SameUsers(h, b, r, b)
<1>1. b \in Blocks(h) /\ ~IsFree(h, b)
  BY DEF InUse
<1>2. /\ Good(r, to, mine) /\ Blocks(h) \subseteq Blocks(r)
      /\ size <= r.size[b] /\ ~IsFree(r, b)
      /\ \A a \in Blocks(h) : /\ a # b => r.size[a] = h.size[a]
                              /\ IsFree(r, a) <=> IsFree(h, a)
      /\ \A a \in Blocks(r) : a \in Blocks(h) \/ IsFree(r, a)
  BY <1>1, SplitKeeps
<1>3. InUse(r) = InUse(h)
  BY <1>2 DEF InUse
<1> QED
  BY <1>1, <1>2, <1>3 DEF SameUsers, InUse

(* malloc fails and changes nothing, or yields a block that was not in use *)
(* and is large enough.                                                    *)
LEMMA MallocIs ==
    ASSUME TypeOK, Good(heap, brk, own), NEW n \in 0..Word - 1, NEW r \in malloc(n)
    PROVE  /\ Good(r.heap, r.brk, own) /\ r.brk \in Origin..Stack
           /\ r.p = 0 => r = Failed
           /\ r.p # 0 => \E b \in InUse(r.heap) \ InUse(heap) :
                 /\ r.p = b + Header /\ n <= r.heap.size[b]
                 /\ SameUsers(heap, b, r.heap, b)
<1> DEFINE asked == IF n = 0 THEN 1 ELSE n
           size == Aligned(asked)
<1>0. /\ Word \in Nat /\ Stack \in Nat /\ Stack < Word /\ Origin \in Nat \ {0}
      /\ brk \in Origin..Stack /\ brk \in Nat \ {0} /\ brk < Word /\ n \in Nat
      /\ own \subseteq [from : Nat, to : Nat] /\ Shape(heap)
      /\ n <= asked /\ asked \in Nat
  BY HeapAssumption DEF TypeOK
<1> HIDE DEF asked
<1>1. CASE TooBig(asked)
  <2>1. r = Failed
    BY <1>1 DEF malloc, asked
  <2> QED
    BY <1>0, <2>1 DEF Failed, Result
<1>2. CASE ~TooBig(asked)
  <2>1. size \in Nat /\ asked <= size
    BY <1>0, <1>2, AlignedIs
  <2>2. \/ \E b \in Best(size) : r = Result(split_block(remove_free(heap, b), b, size), brk, b + Header)
        \/ CanGrow(Header + size) /\ r = Appended(size)
        \/ r = Failed
    BY <1>2 DEF malloc, asked
  <2> HIDE DEF size
  <2>3. n <= size
    BY <1>0, <2>1
  <2>4. CASE r = Failed
    BY <1>0, <2>4 DEF Failed, Result
  <2>5. ASSUME NEW b \in Best(size),
               r = Result(split_block(remove_free(heap, b), b, size), brk, b + Header)
        PROVE  /\ Good(r.heap, r.brk, own) /\ r.brk = brk /\ r.p = b + Header
               /\ b \in InUse(r.heap) \ InUse(heap)
               /\ n <= r.heap.size[b] /\ SameUsers(heap, b, r.heap, b)
    <3> DEFINE one == remove_free(heap, b)
               two == split_block(one, b, size)
    <3>1. r.heap = two /\ r.brk = brk /\ r.p = b + Header
      BY <2>5 DEF Result
    <3>2. b \in Blocks(heap) /\ IsFree(heap, b) /\ size <= heap.size[b] /\ heap.size[b] \in Nat
      BY <1>0, <2>1, ShapeFields DEF Best, Searched, Fitting
    <3>3. /\ Good(one, brk, own) /\ Blocks(one) = Blocks(heap) /\ one.size = heap.size
          /\ \A a \in Blocks(heap) : IsFree(one, a) <=> IsFree(heap, a) /\ a # b
      BY <1>0, <3>2, RemoveKeeps
    <3> HIDE DEF one
    <3>4. /\ b \in InUse(one) /\ InUse(one) = InUse(heap) \cup {b} /\ b \notin InUse(heap)
          /\ size <= one.size[b]
      BY <3>2, <3>3 DEF InUse
    <3>5. /\ Good(two, brk, own) /\ size <= two.size[b]
          /\ b \in InUse(two) /\ SameUsers(one, b, two, b)
      BY <1>0, <2>1, <3>3, <3>4, SplitUsers
    <3>6. two.size[b] \in Nat
      BY <3>5, ShapeFields DEF Good, InUse
    <3> HIDE DEF two
    <3>7. SameUsers(heap, b, two, b)
      BY <3>3, <3>4, <3>5 DEF SameUsers
    <3>8. n <= two.size[b]
      BY <1>0, <2>1, <2>3, <3>5, <3>6
    <3> QED
      BY <3>1, <3>4, <3>5, <3>7, <3>8
  <2>6. CASE CanGrow(Header + size) /\ r = Appended(size)
    <3> DEFINE one == NewBlock(heap, brk, size, heap.tail, 0)
               to == brk + Header + size
    <3>1. to \in Nat /\ brk <= to /\ to <= Stack
      BY <1>0, <2>1, <2>6 DEF CanGrow, Header
    <3>2. Wrap(to) = to
      BY <1>0, <3>1 DEF Wrap
    <3>3. r.heap = one /\ r.brk = to /\ r.p = brk + Header
      BY <2>6, <3>2 DEF Appended, Result
    <3>4. /\ Good(one, to, own)
          /\ brk \in InUse(one) \ InUse(heap) /\ one.size[brk] = size /\ SameUsers(heap, brk, one, brk)
      <4>1. Origin <= brk
        BY <1>0
      <4>2. brk \in Nat \ {0} /\ one = NewBlock(heap, brk, size, heap.tail, 0)
        BY <1>0
      <4> HIDE DEF one
      <4>3. /\ Good(one, brk + Header + size, own)
            /\ brk \in InUse(one) \ InUse(heap) /\ one.size[brk] = size
            /\ SameUsers(heap, brk, one, brk)
        BY <1>0, <2>1, <4>1, <4>2, AppendKeeps
      <4> QED
        BY <4>3
    <3>5. r.p # 0
      BY <1>0, <3>3 DEF Header
    <3> HIDE DEF one, to
    <3>6. r.brk \in Origin..Stack
      BY <1>0, <3>1, <3>3
    <3> QED
      BY <2>3, <3>3, <3>4, <3>5, <3>6
  <2>7. ASSUME NEW b \in Best(size),
               r = Result(split_block(remove_free(heap, b), b, size), brk, b + Header)
        PROVE  r.p # 0
    <3>1. r.p = b + Header /\ b \in Blocks(heap)
      BY <2>7 DEF Result, Best, Searched, Fitting
    <3> QED
      BY <1>0, <3>1, ShapeFields DEF Header
  <2> QED
    BY <1>0, <2>2, <2>4, <2>5, <2>6, <2>7
<1> QED
  BY <1>1, <1>2

(***************************************************************************)
(* The pointers programs hold.                                             *)
(***************************************************************************)
Held(h, u) ==
    /\ \A p \in DOMAIN u : p - Header \in Blocks(h) /\ h.size[p - Header] >= u[p]
    /\ \A b \in Blocks(h) : IsFree(h, b) <=> b + Header \notin DOMAIN u

(* A held pointer is that of a block in use, and the other way round.      *)
LEMMA HeldBlock ==
    ASSUME NEW h, Shape(h), NEW u, DOMAIN u \subseteq Nat, Held(h, u), NEW p \in DOMAIN u
    PROVE  /\ p - Header \in InUse(h) /\ (p - Header) + Header = p
           /\ h.size[p - Header] >= u[p]
<1>1. p - Header \in Blocks(h) /\ h.size[p - Header] >= u[p]
  BY DEF Held
<1>2. (p - Header) + Header = p
  BY DEF Header
<1>3. ~IsFree(h, p - Header)
  BY <1>1, <1>2 DEF Held
<1> QED
  BY <1>1, <1>2, <1>3 DEF InUse

(* Pointer b + Header, if it was held, has gone, and c + Header is held if *)
(* c is in use; all else is as it was.                                     *)
LEMMA HeldKept ==
    ASSUME NEW h, NEW r, Shape(h), Shape(r), NEW u, NEW v, DOMAIN u \subseteq Nat, Held(h, u),
           NEW b \in Nat, NEW c \in Nat, SameUsers(h, b, r, c),
           DOMAIN v = (DOMAIN u \ {b + Header}) \cup (IF c \in InUse(r) THEN {c + Header} ELSE {}),
           \A q \in DOMAIN v : q # c + Header => v[q] = u[q],
           c \in InUse(r) => r.size[c] >= v[c + Header]
    PROVE  Held(r, v)
<1>0. Header = 24
  BY DEF Header
<1>1. Blocks(h) \subseteq Nat /\ Blocks(r) \subseteq Nat
  BY ShapeFields
<1>2. ASSUME NEW q \in DOMAIN u, q # b + Header
      PROVE  /\ q - Header \in InUse(r) /\ q - Header # c /\ q # c + Header
             /\ r.size[q - Header] >= u[q]
  <2>1. q - Header \in InUse(h) /\ (q - Header) + Header = q /\ h.size[q - Header] >= u[q]
    BY HeldBlock
  <2>2. q - Header # b
    BY <1>2, <2>1
  <2>3. q - Header \in InUse(r) /\ q - Header # c /\ r.size[q - Header] = h.size[q - Header]
    BY <2>1, <2>2 DEF SameUsers
  <2>4. q # c + Header
    BY <1>0, <2>3
  <2> QED
    BY <2>1, <2>3, <2>4
<1>3. ASSUME NEW q \in DOMAIN v PROVE q - Header \in Blocks(r) /\ r.size[q - Header] >= v[q]
  <2>1. CASE q = c + Header
    <3>1. q - Header = c
      BY <1>0, <2>1
    <3>2. c \in InUse(r)
      BY <1>2, <2>1
    <3> QED
      BY <2>1, <3>1, <3>2 DEF InUse
  <2>2. CASE q # c + Header
    <3>1. q \in DOMAIN u /\ q # b + Header /\ v[q] = u[q]
      BY <2>2
    <3> QED
      BY <1>2, <3>1 DEF InUse
  <2> QED
    BY <2>1, <2>2
<1>4. ASSUME NEW a \in Blocks(r) PROVE IsFree(r, a) <=> a + Header \notin DOMAIN v
  <2>0. a \in Nat /\ (a + Header) - Header = a
    BY <1>0, <1>1
  <2>1. CASE a \in InUse(r)
    <3>1. CASE a = c
      BY <2>1, <3>1 DEF InUse
    <3>2. CASE a # c
      <4>1. a \in InUse(h) /\ a # b
        BY <2>1, <3>2 DEF SameUsers
      <4>2. a + Header \in DOMAIN u
        BY <4>1 DEF InUse, Held
      <4>3. a + Header # b + Header
        BY <1>0, <2>0, <4>1
      <4> QED
        BY <2>1, <4>2, <4>3 DEF InUse
    <3> QED
      BY <3>1, <3>2
  <2>2. CASE a \notin InUse(r)
    <3>1. a + Header \in DOMAIN v => a \in InUse(r)
      <4>1. CASE a + Header = c + Header
        <5>1. a = c
          BY <1>0, <2>0, <4>1
        <5> QED
          BY <1>2, <4>1, <5>1
      <4>2. CASE a + Header # c + Header
        BY <1>2, <2>0, <4>2
      <4> QED
        BY <4>1, <4>2
    <3> QED
      BY <2>2, <3>1 DEF InUse
  <2> QED
    BY <2>1, <2>2
<1> QED
  BY <1>3, <1>4 DEF Held

(***************************************************************************)
(* The steps of programs.                                                  *)
(***************************************************************************)
(* What a step needs to show when it neither moves the break nor takes     *)
(* memory for the program.                                                 *)
LEMMA IInvParts ==
    HeapInv <=> /\ Good(heap, brk, own) /\ Held(heap, used) /\ brk \in Origin..Stack
             /\ used \in [DOMAIN used -> 0..Word - 1] /\ DOMAIN used \subseteq Nat
             /\ own \subseteq [from : Nat, to : Nat]
BY DEF HeapInv, TypeOK, HeldIsUsable, Held, Good

(* What the assumptions and the invariant say of the numbers.              *)
LEMMA Places ==
    ASSUME HeapInv
    PROVE  /\ Word \in Nat /\ Stack \in Nat /\ Stack < Word /\ Origin \in Nat \ {0}
           /\ brk \in Nat /\ brk < Word /\ Origin <= brk /\ brk <= Stack
           /\ Shape(heap) /\ Blocks(heap) \subseteq Nat \ {0}
           /\ \A p \in DOMAIN used : p \in Nat /\ p - Header \in InUse(heap) /\ (p - Header) + Header = p
                                     /\ p - Header \in Nat /\ heap.size[p - Header] \in Nat
<1>1. Shape(heap) /\ Held(heap, used) /\ DOMAIN used \subseteq Nat
  BY IInvParts DEF Good
<1>2. \A p \in DOMAIN used : p \in Nat /\ p - Header \in InUse(heap) /\ (p - Header) + Header = p
  BY <1>1, HeldBlock
<1> QED
  BY <1>1, <1>2, HeapAssumption, ShapeFields DEF HeapInv, TypeOK, InUse

(* c * n does not overflow when calloc's division says so.                 *)
LEMMA DivBound ==
    ASSUME NEW w \in Nat, NEW n \in Nat \ {0}, NEW c \in Nat, c <= w \div n
    PROVE  c * n \in Nat /\ c * n <= w
OBVIOUS

(* malloc and calloc.                                                      *)
LEMMA GetsKeeps ==
    ASSUME HeapInv, NEW n \in 0..Word - 1, Gets(malloc(n), n)
    PROVE  HeapInv'
<1>1. PICK r \in malloc(n) :
          /\ heap' = r.heap /\ brk' = r.brk
          /\ used' = IF r.p = 0 THEN used ELSE Holding(r.p, n)
  BY DEF Gets
<1>2. own' = own
  BY DEF Gets
<1>3. /\ Good(heap, brk, own) /\ Held(heap, used) /\ TypeOK
      /\ used \in [DOMAIN used -> 0..Word - 1] /\ DOMAIN used \subseteq Nat
      /\ own \subseteq [from : Nat, to : Nat]
  BY IInvParts DEF HeapInv
<1>4. /\ Good(heap', brk', own) /\ brk' \in Origin..Stack
      /\ r.p = 0 => r = Failed
      /\ r.p # 0 => \E b \in InUse(heap') \ InUse(heap) :
            /\ r.p = b + Header /\ n <= heap'.size[b]
            /\ SameUsers(heap, b, heap', b)
  BY <1>1, <1>3, MallocIs
<1>5. CASE r.p = 0
  <2>1. heap' = heap /\ brk' = brk /\ used' = used
    BY <1>1, <1>4, <1>5 DEF Failed, Result
  <2> QED
    BY <1>2, <2>1 DEF HeapInv, TypeOK, HeldIsUsable
<1>6. CASE r.p # 0
  <2>1. PICK b \in InUse(heap') \ InUse(heap) :
            r.p = b + Header /\ n <= heap'.size[b] /\ SameUsers(heap, b, heap', b)
    BY <1>4, <1>6
  <2>2. b \in Nat /\ b + Header \in Nat /\ Shape(heap) /\ Shape(heap')
    BY <1>3, <1>4, ShapeFields DEF Good, InUse, Header
  <2>3. used' = [q \in DOMAIN used \cup {b + Header} |-> IF q = b + Header THEN n ELSE used[q]]
    BY <1>1, <1>6, <2>1 DEF Holding
  <2>4. /\ DOMAIN used' = DOMAIN used \cup {b + Header} /\ DOMAIN used' \subseteq Nat
        /\ used'[b + Header] = n
        /\ \A q \in DOMAIN used' : q # b + Header => used'[q] = used[q]
    BY <1>3, <2>2, <2>3
  <2>5. used' \in [DOMAIN used' -> 0..Word - 1]
    BY <1>3, <2>3
  <2>6. heap'.size[b] >= used'[b + Header]
    BY <2>1, <2>4
  <2>7. DOMAIN used' = (DOMAIN used \ {b + Header}) \cup (IF b \in InUse(heap') THEN {b + Header} ELSE {})
    BY <2>1, <2>4
  <2>8. Held(heap', used')
    BY <1>3, <2>1, <2>2, <2>4, <2>6, <2>7, HeldKept
  <2> QED
    BY <1>2, <1>3, <1>4, <2>4, <2>5, <2>8 DEF HeapInv, TypeOK, HeldIsUsable, Held, Good
<1> QED
  BY <1>5, <1>6

(* A call that fails.                                                      *)
LEMMA FailedKeeps ==
    ASSUME HeapInv, NEW n, Gets({Failed}, n)
    PROVE  HeapInv'
<1>1. heap' = heap /\ brk' = brk /\ used' = used /\ own' = own
  BY DEF Gets, Failed, Result
<1> QED
  BY <1>1 DEF HeapInv, TypeOK, HeldIsUsable

(* calloc asks malloc for the product, which does not wrap round.           *)
LEMMA CallocKeeps ==
    ASSUME HeapInv, NEW n \in Sizes, NEW count \in Sizes, Calloc(count, n)
    PROVE  HeapInv'
<1>0. Word \in Nat \ {0} /\ n \in 0..Word - 1 /\ count \in 0..Word - 1
  BY HeapAssumption
<1>1. CASE n # 0 /\ count > (Word - 1) \div n
  <2>1. Gets({Failed}, count * n)
    BY <1>1 DEF Calloc
  <2> QED
    BY <2>1, FailedKeeps
<1>2. CASE n = 0
  <2>1. count * n = 0
    BY <1>0, <1>2
  <2>2. Gets(malloc(count * n), count * n)
    BY <1>2 DEF Calloc
  <2> QED
    BY <1>0, <2>1, <2>2, GetsKeeps
<1>3. CASE n # 0 /\ ~(count > (Word - 1) \div n)
  <2>1. Gets(malloc(count * n), count * n)
    BY <1>3 DEF Calloc
  <2>2. count <= (Word - 1) \div n
    BY <1>0, <1>3
  <2>3. count * n \in Nat /\ count * n <= Word - 1
    BY <1>0, <1>3, <2>2, DivBound
  <2>4. count * n \in 0..Word - 1
    BY <1>0, <2>3
  <2> QED
    BY <2>1, <2>4, GetsKeeps
<1> QED
  BY <1>1, <1>2, <1>3

(* free, and realloc to 0.                                                 *)
LEMMA FreeStep ==
    ASSUME HeapInv, NEW p \in DOMAIN used, Free(p)
    PROVE  HeapInv'
<1> DEFINE b == p - Header
<1>1. /\ Good(heap, brk, own) /\ Held(heap, used) /\ Shape(heap)
      /\ used \in [DOMAIN used -> 0..Word - 1] /\ DOMAIN used \subseteq Nat
      /\ own \subseteq [from : Nat, to : Nat] /\ brk \in Nat /\ brk < Word
      /\ b \in InUse(heap) /\ b + Header = p /\ b \in Nat
  BY IInvParts, Places
<1>2. /\ heap' = free(heap, p) /\ brk' = brk /\ own' = own
      /\ used' = [q \in DOMAIN used \ {p} |-> used[q]]
  BY DEF Free, Without
<1> HIDE DEF b
<1>3. /\ Good(heap', brk, own) /\ InUse(heap') = InUse(heap) \ {b}
      /\ \A a \in InUse(heap') : heap'.size[a] = heap.size[a]
  <2>1. heap' = free(heap, b + Header)
    BY <1>1, <1>2
  <2> QED
    BY <1>1, <2>1, FreeKeeps
<1>4. SameUsers(heap, b, heap', b) /\ b \notin InUse(heap') /\ Shape(heap')
  BY <1>3 DEF SameUsers, Good
<1>5. /\ DOMAIN used' = DOMAIN used \ {b + Header} /\ DOMAIN used' \subseteq Nat
      /\ used' \in [DOMAIN used' -> 0..Word - 1]
      /\ \A q \in DOMAIN used' : used'[q] = used[q]
  BY <1>1, <1>2
<1>6. DOMAIN used' = (DOMAIN used \ {b + Header}) \cup (IF b \in InUse(heap') THEN {b + Header} ELSE {})
  BY <1>4, <1>5
<1>7. Held(heap', used')
  BY <1>1, <1>4, <1>5, <1>6, HeldKept
<1> QED
  BY <1>1, <1>2, <1>3, <1>5, <1>7, IInvParts DEF HeapInv, TypeOK, HeldIsUsable, Held, Good

(* A step of realloc after which the program holds the same block.         *)
LEMMA SamePointer ==
    ASSUME HeapInv, NEW p \in DOMAIN used, NEW n \in 0..Word - 1, used' = Holding(p, n),
           Good(heap', brk', own'), brk' \in Origin..Stack, own' = own,
           NEW b, b = p - Header, b \in InUse(heap'), n <= heap'.size[b],
           SameUsers(heap, b, heap', b)
    PROVE  HeapInv'
<1>1. /\ Held(heap, used) /\ Shape(heap) /\ Shape(heap')
      /\ used \in [DOMAIN used -> 0..Word - 1] /\ DOMAIN used \subseteq Nat
      /\ own \subseteq [from : Nat, to : Nat] /\ b + Header = p /\ b \in Nat
  BY IInvParts, Places DEF Good
<1>2. /\ DOMAIN used' = DOMAIN used /\ used'[p] = n
      /\ used' \in [DOMAIN used' -> 0..Word - 1]
      /\ \A q \in DOMAIN used' : q # p => used'[q] = used[q]
  BY <1>1 DEF Holding
<1>3. DOMAIN used' = (DOMAIN used \ {b + Header}) \cup (IF b \in InUse(heap') THEN {b + Header} ELSE {})
  BY <1>1, <1>2
<1>4. heap'.size[b] >= used'[b + Header]
  BY <1>1, <1>2
<1>5. Held(heap', used')
  BY <1>1, <1>2, <1>3, <1>4, HeldKept
<1> QED
  BY <1>1, <1>2, <1>5 DEF HeapInv, TypeOK, HeldIsUsable, Held, Good

(* realloc joins the free block after the one resized and splits the sum.  *)
LEMMA AbsorbsStep ==
    ASSUME HeapInv, NEW p \in DOMAIN used, NEW n \in 0..Word - 1, Absorbs(p, n)
    PROVE  HeapInv'
<1> DEFINE b == p - Header
           size == Aligned(n)
           one == JoinedNext(heap, b)
<1>1. /\ Good(heap, brk, own) /\ own \subseteq [from : Nat, to : Nat]
      /\ brk \in Nat /\ brk < Word /\ brk \in Origin..Stack /\ b \in InUse(heap)
  BY IInvParts, Places
<1>2. n \in Nat /\ size \in Nat /\ n <= size
  BY AlignedIs, HeapAssumption DEF Absorbs
<1>3. /\ Adjacent(heap, b, heap.next[b]) /\ heap.size[b] + Header + heap.size[heap.next[b]] >= size
      /\ heap' = split_block(one, b, size) /\ used' = Holding(p, n) /\ brk' = brk /\ own' = own
  BY DEF Absorbs, Room
<1> HIDE DEF b, size
<1>4. /\ Good(one, brk, own) /\ b \in InUse(one) /\ SameUsers(heap, b, one, b)
      /\ one.size[b] = heap.size[b] + Header + heap.size[heap.next[b]]
  BY <1>1, <1>3, JoinedNextKeeps
<1>5. one.size[b] \in Nat /\ size <= one.size[b]
  <2>1. one.size[b] \in Nat
    BY <1>4, ShapeFields DEF Good, InUse
  <2>2. one.size[b] >= size
    BY <1>3, <1>4
  <2> QED
    BY <1>2, <2>1, <2>2
<1> HIDE DEF one
<1>6. /\ Good(heap', brk, own) /\ size <= heap'.size[b]
      /\ b \in InUse(heap') /\ SameUsers(one, b, heap', b)
  BY <1>1, <1>2, <1>3, <1>4, <1>5, SplitUsers
<1>7. SameUsers(heap, b, heap', b)
  BY <1>4, <1>6 DEF SameUsers
<1>8. n <= heap'.size[b]
  <2>1. heap'.size[b] \in Nat
    BY <1>6, ShapeFields DEF Good, InUse
  <2> QED
    BY <1>2, <1>6, <2>1
<1>9. b = p - Header
  BY DEF b
<1> QED
  BY <1>1, <1>3, <1>6, <1>7, <1>8, <1>9, SamePointer

(* realloc moves the break to make the last block larger.                  *)
LEMMA ExtendsStep ==
    ASSUME HeapInv, NEW p \in DOMAIN used, NEW n \in 0..Word - 1, n > heap.size[p - Header], Extends(p, n)
    PROVE  HeapInv'
<1> DEFINE b == p - Header
           size == Aligned(n)
           more == size - heap.size[b]
<1>1. /\ Good(heap, brk, own) /\ own \subseteq [from : Nat, to : Nat]
      /\ brk \in Nat /\ brk <= Stack /\ Origin <= brk /\ Origin \in Nat /\ Stack \in Nat
      /\ b \in InUse(heap) /\ heap.size[b] \in Nat
  BY IInvParts, Places
<1>2. n \in Nat /\ size \in Nat /\ n <= size
  BY AlignedIs, HeapAssumption DEF Extends
<1>3. /\ heap.next[b] = 0 /\ brk = End(heap, b) /\ brk + more <= Stack
      /\ heap' = Resized(heap, b, size)
      /\ brk' = brk + more /\ used' = Holding(p, n) /\ own' = own
  BY DEF Extends, AtBreak, CanGrow, Resized
<1>4. heap.size[b] <= size
  BY <1>1, <1>2
<1>5. b = p - Header
  OBVIOUS
<1> HIDE DEF b, size
<1>6. /\ Good(heap', brk + (size - heap.size[b]), own)
      /\ b \in InUse(heap') /\ heap'.size[b] = size /\ SameUsers(heap, b, heap', b)
  BY <1>1, <1>2, <1>3, <1>4, GrowKeeps
<1>7. brk' \in Origin..Stack
  BY <1>1, <1>2, <1>3, <1>4
<1>8. Good(heap', brk', own') /\ n <= heap'.size[b]
  BY <1>2, <1>3, <1>6
<1> QED
  BY <1>3, <1>5, <1>6, <1>7, <1>8, SamePointer

(* realloc takes another block and frees the one it had.                   *)
LEMMA MovesStep ==
    ASSUME HeapInv, NEW p \in DOMAIN used, NEW n \in 0..Word - 1, Moves(p, n)
    PROVE  HeapInv'
<1> DEFINE b == p - Header
<1>1. PICK r \in malloc(n) :
          /\ brk' = r.brk
          /\ heap' = IF r.p = 0 THEN heap ELSE free(r.heap, p)
          /\ used' = IF r.p = 0 THEN used
                     ELSE [q \in (DOMAIN used \ {p}) \cup {r.p} |-> IF q = r.p THEN n ELSE used[q]]
  BY DEF Moves
<1>2. own' = own
  BY DEF Moves
<1>3. /\ Good(heap, brk, own) /\ Held(heap, used) /\ Shape(heap) /\ TypeOK
      /\ used \in [DOMAIN used -> 0..Word - 1] /\ DOMAIN used \subseteq Nat
      /\ own \subseteq [from : Nat, to : Nat]
      /\ b \in InUse(heap) /\ b + Header = p /\ b \in Nat
      /\ Stack \in Nat /\ Stack < Word /\ Origin \in Nat /\ Word \in Nat
  BY IInvParts, Places DEF HeapInv
<1> HIDE DEF b
<1>4. /\ Good(r.heap, r.brk, own) /\ r.brk \in Origin..Stack
      /\ r.p = 0 => r = Failed
      /\ r.p # 0 => \E c \in InUse(r.heap) \ InUse(heap) :
            /\ r.p = c + Header /\ n <= r.heap.size[c]
            /\ SameUsers(heap, c, r.heap, c)
  BY <1>3, MallocIs
<1>5. CASE r.p = 0
  <2>1. heap' = heap /\ brk' = brk /\ used' = used
    BY <1>1, <1>4, <1>5 DEF Failed, Result
  <2> QED
    BY <1>2, <2>1 DEF HeapInv, TypeOK, HeldIsUsable
<1>6. CASE r.p # 0
  <2>1. PICK c \in InUse(r.heap) \ InUse(heap) :
            r.p = c + Header /\ n <= r.heap.size[c] /\ SameUsers(heap, c, r.heap, c)
    BY <1>4, <1>6
  <2>2. r.brk \in Nat /\ r.brk < Word
    BY <1>3, <1>4
  <2>3. b \in InUse(r.heap) /\ b # c
    BY <1>3, <2>1 DEF SameUsers
  <2>4. heap' = free(r.heap, b + Header)
    BY <1>1, <1>3, <1>6
  <2>5. /\ Good(heap', r.brk, own) /\ InUse(heap') = InUse(r.heap) \ {b}
        /\ \A a \in InUse(heap') : heap'.size[a] = r.heap.size[a]
    BY <1>3, <1>4, <2>2, <2>3, <2>4, FreeKeeps
  <2>6. /\ Shape(heap') /\ c \in InUse(heap') /\ n <= heap'.size[c]
    BY <2>1, <2>3, <2>5 DEF Good
  <2>7. c \in Nat /\ c + Header \in Nat
    BY <2>6, ShapeFields DEF InUse, Header
  <2>8. SameUsers(heap, b, heap', c)
    <3>1. InUse(heap) \ {b} = InUse(heap') \ {c}
      BY <1>3, <2>1, <2>3, <2>5 DEF SameUsers
    <3>2. \A a \in InUse(heap) \ {b} : heap'.size[a] = heap.size[a]
      BY <2>1, <2>5, <3>1 DEF SameUsers
    <3> QED
      BY <3>1, <3>2 DEF SameUsers
  <2>9. used' = [q \in (DOMAIN used \ {b + Header}) \cup {c + Header} |->
                    IF q = c + Header THEN n ELSE used[q]]
    BY <1>1, <1>3, <1>6, <2>1
  <2>10. /\ DOMAIN used' = (DOMAIN used \ {b + Header}) \cup {c + Header} /\ DOMAIN used' \subseteq Nat
         /\ used'[c + Header] = n
         /\ \A q \in DOMAIN used' : q # c + Header => used'[q] = used[q]
    BY <1>3, <2>7, <2>9
  <2>11. used' \in [DOMAIN used' -> 0..Word - 1]
    BY <1>3, <2>9
  <2>12. DOMAIN used' = (DOMAIN used \ {b + Header}) \cup (IF c \in InUse(heap') THEN {c + Header} ELSE {})
    BY <2>6, <2>10
  <2>13. heap'.size[c] >= used'[c + Header]
    BY <2>6, <2>10
  <2>14. Held(heap', used')
    BY <1>3, <2>6, <2>7, <2>8, <2>10, <2>12, <2>13, HeldKept
  <2> QED
    BY <1>1, <1>2, <1>3, <1>4, <2>5, <2>10, <2>11, <2>14 DEF HeapInv, TypeOK, HeldIsUsable, Held, Good
<1> QED
  BY <1>5, <1>6

(* A program moves the break: what it takes lies above every block.        *)
LEMMA MoveBreakStep ==
    ASSUME HeapInv, NEW n \in Gaps, MoveBreak(n)
    PROVE  HeapInv'
<1> DEFINE to == brk + n
           m == [from |-> brk, to |-> to]
<1>1. n \in Nat \ {0} /\ brk \in Nat /\ to \in Nat /\ brk < to /\ to <= Stack /\ Origin <= to
      /\ Origin \in Nat /\ Stack \in Nat
  BY Places, HeapAssumption DEF MoveBreak, CanGrow
<1>2. heap' = heap /\ used' = used /\ brk' = to /\ own' = own \cup {m}
  BY DEF MoveBreak
<1>3. /\ Good(heap, brk, own) /\ Shape(heap) /\ Clear(heap, brk, own)
      /\ own \subseteq [from : Nat, to : Nat]
  BY IInvParts DEF Good
<1>4. m.from = brk /\ m.to = to /\ m \in [from : Nat, to : Nat]
  BY <1>1
<1> HIDE DEF to, m
<1>5. Clear(heap, to, own \cup {m})
  <2>1. ASSUME NEW b \in Blocks(heap) PROVE Origin <= b /\ End(heap, b) <= to /\ End(heap, b) <= m.from
    <3>1. End(heap, b) \in Nat /\ End(heap, b) <= brk /\ Origin <= b
      BY <1>3, ShapeFields DEF Clear, End, Header
    <3> QED
      BY <1>1, <1>4, <3>1
  <2>2. ASSUME NEW x \in own \cup {m} PROVE x.from < x.to /\ x.to <= to
    <3>1. CASE x = m
      BY <1>1, <1>4, <3>1
    <3>2. CASE x \in own
      <4>1. x.from < x.to /\ x.to <= brk /\ x.to \in Nat
        BY <1>3, <3>2 DEF Clear
      <4> QED
        BY <1>1, <4>1
    <3> QED
      BY <3>1, <3>2
  <2>3. \A b \in Blocks(heap) : \A x \in own \cup {m} : End(heap, b) <= x.from \/ x.to <= b
    BY <1>3, <2>1 DEF Clear
  <2> QED
    BY <2>1, <2>2, <2>3 DEF Clear
<1>6. Good(heap', brk', own')
  BY <1>2, <1>3, <1>5 DEF Good
<1>7. brk' \in Origin..Stack /\ own' \subseteq [from : Nat, to : Nat]
  BY <1>1, <1>2, <1>3, <1>4
<1> QED
  BY <1>2, <1>6, <1>7 DEF HeapInv, TypeOK, HeldIsUsable

(* There are no headers at the start.                                      *)
LEMMA InitHolds ==
    ASSUME Init
    PROVE  HeapInv
<1> DEFINE none == [a \in {} |-> 0]
<1>1. heap = [size |-> none, available |-> none, next |-> none, prev |-> none,
              free_next |-> none, free_prev |-> none,
              tail |-> 0, bins |-> [k \in 0..Bits - 1 |-> 0]]
  BY DEF Init
<1>2. Blocks(heap) = {}
  BY <1>1 DEF Blocks
<1>3. none \in [{} -> Nat] /\ none \in [{} -> {0, 1}]
  OBVIOUS
<1> HIDE DEF none
<1>4. Shape(heap)
  BY <1>1, <1>2, <1>3 DEF Shape
<1>5. Chain(heap) /\ FreeLinks(heap)
  BY <1>1, <1>2 DEF Chain, FreeLinks
<1>6. Clear(heap, brk, own)
  BY <1>2 DEF Clear, Init
<1>7. TypeOK /\ HeldIsUsable
  BY <1>2, <1>4, HeapAssumption DEF TypeOK, HeldIsUsable, Init
<1> QED
  BY <1>4, <1>5, <1>6, <1>7 DEF HeapInv, Good

(* Every step keeps the invariant.                                         *)
LEMMA StepKeeps ==
    ASSUME HeapInv, [Next]_vars
    PROVE  HeapInv'
<1>1. ASSUME NEW n \in Sizes, Malloc(n) PROVE HeapInv'
  BY <1>1, HeapAssumption, GetsKeeps DEF Malloc
<1>2. ASSUME NEW n \in Sizes, NEW count \in Sizes, Calloc(count, n) PROVE HeapInv'
  BY <1>2, CallocKeeps
<1>3. ASSUME NEW p \in DOMAIN used, Free(p) PROVE HeapInv'
  BY <1>3, FreeStep
<1>4. ASSUME NEW p \in DOMAIN used, NEW n \in Sizes, Realloc(p, n) PROVE HeapInv'
  <2>0. n \in 0..Word - 1
    BY HeapAssumption
  <2>1. CASE Keeps(p, n)
    <3>1. p - Header \in InUse(heap) /\ Good(heap, brk, own) /\ brk \in Origin..Stack
      BY IInvParts, Places
    <3>2. /\ n <= heap.size[p - Header] /\ used' = Holding(p, n)
          /\ heap' = heap /\ brk' = brk /\ own' = own
      BY <2>1 DEF Keeps
    <3>3. SameUsers(heap, p - Header, heap', p - Header)
      BY <3>2 DEF SameUsers
    <3> QED
      BY <2>0, <3>1, <3>2, <3>3, SamePointer
  <2>2. CASE Absorbs(p, n)
    BY <2>0, <2>2, AbsorbsStep
  <2>3. CASE n > heap.size[p - Header] /\ Extends(p, n)
    BY <2>0, <2>3, ExtendsStep
  <2>4. CASE Moves(p, n)
    BY <2>0, <2>4, MovesStep
  <2>5. CASE Free(p)
    BY <2>5, FreeStep
  <2> QED
    BY <1>4, <2>1, <2>2, <2>3, <2>4, <2>5 DEF Realloc
<1>5. ASSUME NEW n \in Gaps, MoveBreak(n) PROVE HeapInv'
  BY <1>5, MoveBreakStep
<1>6. CASE UNCHANGED vars
  BY <1>6 DEF vars, HeapInv, TypeOK, HeldIsUsable
<1> QED
  BY <1>1, <1>2, <1>3, <1>4, <1>5, <1>6 DEF Next

(* The headers stay whole, whatever programs ask for: chain and free links *)
(* lead where they should, blocks lie between the data and the break, and  *)
(* those in use are the ones held.                                         *)
THEOREM HeapInvariance == Spec => []HeapInv
<1>1. Init => HeapInv
  BY InitHolds
<1>2. HeapInv /\ [Next]_vars => HeapInv'
  BY StepKeeps
<1> QED
  BY <1>1, <1>2, PTL DEF Spec

(* The allocator's variables keep their types: the break stays between the *)
(* data and the stack, and links are addresses.                            *)
THEOREM HeapTypes == Spec => []TypeOK
<1>1. HeapInv => TypeOK
  BY DEF HeapInv
<1> QED
  BY <1>1, HeapInvariance, PTL

(* No block ever overlaps another, memory a program took for itself by     *)
(* moving the break, or the memory above the break.                        *)
THEOREM HeapNoOverlap == Spec => []NoOverlap
<1>1. HeapInv => NoOverlap
  <2> SUFFICES ASSUME HeapInv PROVE NoOverlap
    OBVIOUS
  <2>1. Shape(heap) /\ Chain(heap) /\ Clear(heap, brk, own)
    BY DEF HeapInv, Good
  <2>2. ASSUME NEW b \in Blocks(heap), NEW c \in Blocks(heap), b < c
        PROVE  End(heap, b) <= c
    <3>1. End(heap, b) <= heap.next[b] /\ heap.next[b] <= c
      BY <2>1, <2>2 DEF Chain
    <3>2. End(heap, b) \in Nat /\ heap.next[b] \in Nat /\ c \in Nat
      BY <2>1, ShapeFields DEF End, Header
    <3> QED
      BY <3>1, <3>2
  <2> QED
    BY <2>1, <2>2 DEF NoOverlap, Clear
<1> QED
  BY <1>1, HeapInvariance, PTL

(* A pointer a program holds has the memory it asked for in a block that   *)
(* is not free, and every block is free or held: none is lost.             *)
THEOREM HeapHeldIsUsable == Spec => []HeldIsUsable
<1>1. HeapInv => HeldIsUsable
  BY DEF HeapInv
<1> QED
  BY <1>1, HeapInvariance, PTL
(***************************************************************************)
(* Free neighbours are joined: what free and realloc leave of free memory  *)
(* is in pieces as large as they can be.                                   *)
(***************************************************************************)
FreeOnes(h) == {a \in Blocks(h) : IsFree(h, a)}

(* FreeNeighboursJoined, for the headers h as the helpers change them.     *)
Joined(h) == \A a, c \in FreeOnes(h) : End(h, a) # c

(* No free block ends where b starts; none starts where b ends.            *)
ApartBefore(h, b) == \A c \in FreeOnes(h) : End(h, c) # b
ApartAfter(h, b)  == \A c \in FreeOnes(h) : End(h, b) # c

(* The free blocks of r are some of those of h, as long as they were.      *)
FewerFree(h, r) ==
    /\ FreeOnes(r) \subseteq FreeOnes(h)
    /\ \A a \in FreeOnes(r) : End(r, a) = End(h, a)

(* Taking free blocks away leaves the others joined.                       *)
LEMMA JoinedFewer ==
    ASSUME NEW h, NEW r, Joined(h), FewerFree(h, r)
    PROVE  Joined(r)
BY DEF Joined, FewerFree

(* In a chain, the block that starts where another ends is its next one.   *)
LEMMA NeighbourIsNext ==
    ASSUME NEW h, Shape(h), Chain(h), NEW a \in Blocks(h), NEW c \in Blocks(h), End(h, a) = c
    PROVE  h.next[a] = c /\ h.prev[c] = a /\ a # 0 /\ c # 0 /\ a < c
<1>1. a \in Nat \ {0} /\ c \in Nat \ {0} /\ h.size[a] \in Nat /\ h.next[a] \in Nat
  BY ShapeFields
<1>2. a < c
  BY <1>1 DEF End, Header
<1>3. h.next[a] # 0 /\ h.next[a] <= c
  BY <1>2 DEF Chain
<1>4. End(h, a) <= h.next[a] /\ h.prev[h.next[a]] = a
  BY <1>3 DEF Chain
<1> QED
  BY <1>1, <1>2, <1>3, <1>4

(* free: after the block before it is joined, none is left free before the *)
(* sum.                                                                    *)
LEMMA JoinedPrevFree ==
    ASSUME NEW h, NEW to \in Nat, to < Word, NEW mine, mine \subseteq [from : Nat, to : Nat],
           Good(h, to, mine), Joined(h), NEW at \in InUse(h),
           NEW b, b = (IF JoinsPrev(h, at) THEN h.prev[at] ELSE at), NEW r, r = JoinedPrev(h, at)
    PROVE  FewerFree(h, r) /\ ApartBefore(r, b)
<1>0. Shape(h) /\ Chain(h) /\ at \in Blocks(h) /\ ~IsFree(h, at)
  BY DEF Good, InUse
<1>1. CASE ~JoinsPrev(h, at)
  <2>1. r = h /\ b = at
    BY <1>1 DEF JoinedPrev
  <2>2. ASSUME NEW c \in FreeOnes(h), End(h, c) = at PROVE FALSE
    <3>1. c \in Blocks(h) /\ IsFree(h, c)
      BY DEF FreeOnes
    <3>2. h.prev[at] = c /\ c # 0
      BY <1>0, <2>2, <3>1, NeighbourIsNext
    <3> QED
      BY <1>1, <2>2, <3>1, <3>2 DEF JoinsPrev
  <2> QED
    BY <2>1, <2>2 DEF FewerFree, ApartBefore
<1>2. CASE JoinsPrev(h, at)
  <2> DEFINE one == remove_free(h, b)
  <2>0. b = h.prev[at] /\ b # 0 /\ IsFree(h, b) /\ End(h, b) = at /\ r = join_next(one, b)
    BY <1>2 DEF JoinsPrev, JoinedPrev
  <2>1. b \in Blocks(h) /\ h.next[b] = at /\ at # b /\ at # 0
    BY <1>0, <2>0, ShapeFields DEF Chain
  <2>2. /\ Good(one, to, mine) /\ Blocks(one) = Blocks(h) /\ one.size = h.size /\ one.next = h.next
        /\ \A a \in Blocks(h) : IsFree(one, a) <=> IsFree(h, a) /\ a # b
    BY <2>0, <2>1, RemoveKeeps
  <2> HIDE DEF one
  <2>3. ~IsFree(one, b) /\ ~IsFree(one, at) /\ End(one, b) = at /\ one.next[b] = at /\ b \in Blocks(one)
    BY <1>0, <2>0, <2>1, <2>2 DEF End
  <2>4. /\ Blocks(r) = Blocks(one) \ {at}
        /\ \A a \in Blocks(r) : /\ IsFree(r, a) <=> IsFree(one, a)
                                /\ a # b => r.size[a] = one.size[a]
    BY <2>0, <2>1, <2>2, <2>3, JoinKeeps
  <2>5. FreeOnes(r) = FreeOnes(h) \ {b}
    BY <1>0, <2>2, <2>4 DEF FreeOnes
  <2>6. \A a \in FreeOnes(r) : End(r, a) = End(h, a)
    BY <2>2, <2>4, <2>5 DEF FreeOnes, End
  <2>7. b \in FreeOnes(h)
    BY <2>0, <2>1 DEF FreeOnes
  <2> QED
    BY <2>5, <2>6, <2>7 DEF FewerFree, ApartBefore, Joined
<1> QED
  BY <1>1, <1>2

(* free and realloc: after the block after b is joined, none is left free  *)
(* after the sum.                                                          *)
LEMMA JoinedNextFree ==
    ASSUME NEW h, NEW to \in Nat, to < Word, NEW mine, mine \subseteq [from : Nat, to : Nat],
           Good(h, to, mine), Joined(h), NEW b \in InUse(h), NEW r, r = JoinedNext(h, b)
    PROVE  FewerFree(h, r) /\ ApartAfter(r, b)
<1> DEFINE n == h.next[b]
<1>0. Shape(h) /\ Chain(h) /\ b \in Blocks(h) /\ ~IsFree(h, b)
  BY DEF Good, InUse
<1>1. CASE ~Adjacent(h, b, n)
  <2>1. r = h
    BY <1>1 DEF JoinedNext
  <2>2. ASSUME NEW c \in FreeOnes(h), End(h, b) = c PROVE FALSE
    <3>1. c \in Blocks(h) /\ IsFree(h, c)
      BY DEF FreeOnes
    <3>2. n = c /\ c # 0
      BY <1>0, <2>2, <3>1, NeighbourIsNext
    <3> QED
      BY <1>1, <2>2, <3>1, <3>2 DEF Adjacent
  <2> QED
    BY <2>1, <2>2 DEF FewerFree, ApartAfter
<1>2. CASE Adjacent(h, b, n)
  <2> DEFINE one == remove_free(h, n)
  <2>0. n # 0 /\ IsFree(h, n) /\ End(h, b) = n /\ r = join_next(one, b)
    BY <1>2 DEF Adjacent, JoinedNext
  <2>1. n \in Blocks(h) /\ n # b
    BY <1>0, <2>0 DEF Chain
  <2>9. b \in Nat /\ n \in Nat /\ h.size[b] \in Nat /\ h.size[n] \in Nat
    BY <1>0, <2>1, ShapeFields
  <2> HIDE DEF n
  <2>2. /\ Good(one, to, mine) /\ Blocks(one) = Blocks(h) /\ one.size = h.size /\ one.next = h.next
        /\ \A a \in Blocks(h) : IsFree(one, a) <=> IsFree(h, a) /\ a # n
    BY <2>0, <2>1, RemoveKeeps
  <2> HIDE DEF one
  <2>3. ~IsFree(one, b) /\ ~IsFree(one, n) /\ End(one, b) = n /\ n = one.next[b] /\ b \in Blocks(one)
    BY <1>0, <2>0, <2>1, <2>2 DEF End, n
  <2>4. /\ Blocks(r) = Blocks(one) \ {n}
        /\ \A a \in Blocks(r) : /\ IsFree(r, a) <=> IsFree(one, a)
                                /\ r.size[a] = IF a = b THEN one.size[b] + Header + one.size[n]
                                               ELSE one.size[a]
    BY <2>0, <2>1, <2>2, <2>3, JoinKeeps
  <2>5. FreeOnes(r) = FreeOnes(h) \ {n} /\ n \in FreeOnes(h)
    BY <2>0, <2>1, <2>2, <2>4 DEF FreeOnes
  <2>6. \A a \in FreeOnes(r) : End(r, a) = End(h, a)
    BY <1>0, <2>2, <2>4, <2>5 DEF FreeOnes, End
  <2>7. End(r, b) = End(h, n)
    BY <1>0, <2>0, <2>1, <2>2, <2>4, <2>9 DEF End, Header
  <2> QED
    BY <2>5, <2>6, <2>7 DEF FewerFree, ApartAfter, Joined
<1> QED
  BY <1>1, <1>2

(* insert_free of a block without free neighbours.                         *)
LEMMA InsertJoined ==
    ASSUME NEW h, NEW to \in Nat, to < Word, NEW mine, Good(h, to, mine), Joined(h),
           NEW b \in InUse(h), ApartBefore(h, b), ApartAfter(h, b),
           NEW r, r = insert_free(h, b)
    PROVE  Joined(r)
<1>1. b \in Blocks(h) /\ ~IsFree(h, b) /\ Shape(h)
  BY DEF InUse, Good
<1>2. /\ Blocks(r) = Blocks(h) /\ r.size = h.size
      /\ \A a \in Blocks(h) : IsFree(r, a) <=> IsFree(h, a) \/ a = b
  BY <1>1, InsertKeeps
<1>3. FreeOnes(r) = FreeOnes(h) \cup {b} /\ \A a : End(r, a) = End(h, a)
  BY <1>1, <1>2 DEF FreeOnes, End
<1>4. End(h, b) # b
  BY <1>1, ShapeFields DEF End, Header
<1> QED
  BY <1>3, <1>4 DEF Joined, ApartBefore, ApartAfter

(* free leaves no two free blocks side by side.                            *)
LEMMA FreeJoined ==
    ASSUME NEW h, NEW to \in Nat, to < Word, NEW mine, mine \subseteq [from : Nat, to : Nat],
           Good(h, to, mine), Joined(h), NEW at \in InUse(h), NEW r, r = free(h, at + Header)
    PROVE  Joined(r)
<1> DEFINE b == IF JoinsPrev(h, at) THEN h.prev[at] ELSE at
           one == JoinedPrev(h, at)
           two == JoinedNext(one, b)
<1>1. r = insert_free(two, b)
  <2>1. (at + Header) - Header = at
    BY ShapeFields DEF Good, InUse, Header
  <2> QED
    BY <2>1 DEF free
<1>2. Good(one, to, mine) /\ b \in InUse(one)
  BY JoinedPrevKeeps
<1>3. FewerFree(h, one) /\ ApartBefore(one, b)
  BY JoinedPrevFree
<1> HIDE DEF one, b
<1>4. Joined(one)
  BY <1>3, JoinedFewer
<1>5. Good(two, to, mine) /\ b \in InUse(two)
  BY <1>2, JoinedNextKeeps
<1>6. FewerFree(one, two) /\ ApartAfter(two, b)
  BY <1>2, <1>4, JoinedNextFree
<1> HIDE DEF two
<1>7. Joined(two)
  BY <1>4, <1>6, JoinedFewer
<1>8. ApartBefore(two, b)
  BY <1>3, <1>6 DEF FewerFree, ApartBefore
<1> QED
  BY <1>1, <1>5, <1>6, <1>7, <1>8, InsertJoined

(* split_block: the rest that becomes free has no free neighbour, if the   *)
(* block split had none after it.                                          *)
LEMMA SplitJoined ==
    ASSUME NEW h, NEW to \in Nat, to < Word, NEW mine, mine \subseteq [from : Nat, to : Nat],
           Good(h, to, mine), Joined(h), NEW b \in InUse(h), ApartAfter(h, b),
           NEW size \in Nat, size <= h.size[b], NEW r, r = split_block(h, b, size)
    PROVE  Joined(r)
<1> DEFINE n == b + Header + size
<1>1. Shape(h) /\ Chain(h) /\ b \in Blocks(h) /\ ~IsFree(h, b) /\ Good(r, to, mine)
  BY SplitUsers DEF Good, InUse
<1>2. /\ Blocks(h) \subseteq Blocks(r)
      /\ \A a \in Blocks(h) : /\ a # b => r.size[a] = h.size[a]
                              /\ IsFree(r, a) <=> IsFree(h, a)
      /\ \A a \in Blocks(r) \ Blocks(h) : a = n /\ End(r, a) = End(h, b)
  BY <1>1, SplitKeeps
<1>3. \A a \in FreeOnes(r) : \/ a \in FreeOnes(h) /\ End(r, a) = End(h, a)
                             \/ a \notin Blocks(h) /\ a = n /\ End(r, a) = End(h, b)
  BY <1>1, <1>2 DEF FreeOnes, End
<1> HIDE DEF n
<1>4. ASSUME NEW c \in FreeOnes(h), NEW a \in FreeOnes(r), End(r, c) = a, a \notin Blocks(h)
      PROVE  FALSE
  <2>1. c \in Blocks(h) /\ c \in Blocks(r) /\ a \in Blocks(r) /\ a = n /\ c # b
    BY <1>1, <1>2, <1>3, <1>4 DEF FreeOnes
  <2>2. c \in Nat /\ b \in Nat /\ h.size[b] \in Nat /\ h.next[b] \in Nat /\ h.next[c] \in Nat /\ r.next[c] \in Nat
    BY <1>1, <2>1, ShapeFields DEF Good
  <2>3. End(h, c) = n /\ b < n /\ n <= End(h, b) /\ End(h, c) \in Nat
    <3>1. r.size[c] = h.size[c] /\ h.size[c] \in Nat
      BY <1>1, <1>2, <2>1, ShapeFields
    <3>2. End(h, c) = n /\ End(h, c) \in Nat
      BY <1>4, <2>1, <2>2, <3>1 DEF End, Header
    <3>3. b < n /\ n <= End(h, b)
      BY <2>2 DEF End, Header, n
    <3> QED
      BY <3>2, <3>3
  <2>4. CASE c < b
    BY <1>1, <2>1, <2>2, <2>3, <2>4 DEF Chain
  <2>5. CASE b < c
    <3>1. End(h, b) <= h.next[b] /\ h.next[b] <= c
      BY <1>1, <2>1, <2>5 DEF Chain
    <3>2. c < End(h, c)
      BY <1>1, <2>1, <2>2, ShapeFields DEF End, Header
    <3>3. End(h, b) \in Nat
      BY <2>2 DEF End, Header
    <3> QED
      BY <2>2, <2>3, <3>1, <3>2, <3>3 DEF n, Header
  <2> QED
    BY <2>1, <2>2, <2>4, <2>5
<1>5. ASSUME NEW a \in FreeOnes(r), NEW c \in FreeOnes(r), End(r, a) = c
      PROVE  FALSE
  <2>1. CASE a \in FreeOnes(h) /\ c \in FreeOnes(h)
    BY <1>3, <1>5, <2>1 DEF FreeOnes, Joined
  <2>2. CASE a \notin FreeOnes(h) /\ c \in FreeOnes(h)
    BY <1>3, <1>5, <2>2 DEF ApartAfter
  <2>3. CASE a \in FreeOnes(h) /\ c \notin FreeOnes(h)
    BY <1>3, <1>4, <1>5, <2>3
  <2>4. CASE a \notin FreeOnes(h) /\ c \notin FreeOnes(h)
    <3>1. a = c /\ a \in Blocks(r)
      BY <1>3, <2>4 DEF FreeOnes
    <3> QED
      BY <1>1, <1>5, <3>1, ShapeFields DEF Good, End, Header
  <2> QED
    BY <2>1, <2>2, <2>3, <2>4
<1> QED
  BY <1>5 DEF Joined

(***************************************************************************)
(* Sizes are multiples of the alignment, and following free_prev ends.     *)
(***************************************************************************)
Sized(h) == \A b \in Blocks(h) : h.size[b] % Align = 0 /\ h.size[b] # 0

(* A rank that falls along free_prev: the links of a bin do not go round.  *)
Ranks(h, rank) == \A a \in FreeOnes(h) : h.free_prev[a] # 0 => rank[h.free_prev[a]] < rank[a]
Ranked(h) == \E rank \in [Nat -> Nat] : Ranks(h, rank)

Tidy(h) == Sized(h) /\ Ranked(h)

(* remove_free of a free block.                                            *)
LEMMA RemoveTidy ==
    ASSUME NEW h, NEW to \in Nat, to < Word, NEW mine, Good(h, to, mine), Tidy(h),
           NEW b \in Blocks(h), IsFree(h, b), NEW r, r = remove_free(h, b)
    PROVE  Tidy(r)
<1> DEFINE k == bin_index(h.size[b])
           prev == h.free_prev[b]
           next == h.free_next[b]
<1>0. Shape(h) /\ FreeLinks(h) /\ Clear(h, to, mine)
  BY DEF Good
<1>1. k \in 0..Bits - 1
  BY <1>0, SizesHaveBins
<1>2. prev \in Blocks(h) \cup {0} /\ next \in Blocks(h) \cup {0} /\ 0 \notin Blocks(h)
  BY <1>0, ShapeFields DEF FreeLinks, Linked
<1>3. next # 0 => h.free_prev[next] = b
  BY <1>0 DEF FreeLinks
<1>4. /\ Shape(r) /\ Blocks(r) = Blocks(h)
      /\ r.size = h.size /\ r.next = h.next /\ r.prev = h.prev /\ r.tail = h.tail
      /\ r.bins = IF prev # 0 THEN h.bins ELSE [h.bins EXCEPT ![k] = next]
      /\ \A a \in Blocks(h) :
            /\ r.available[a] = IF a = b THEN 0 ELSE h.available[a]
            /\ r.free_next[a] = IF a = b THEN 0 ELSE IF a = prev THEN next ELSE h.free_next[a]
            /\ r.free_prev[a] = IF a = b THEN 0 ELSE IF a = next THEN prev ELSE h.free_prev[a]
  BY <1>0, <1>1, <1>2, RemoveIs
<1> HIDE DEF k, prev, next
<1>5. FreeOnes(r) = FreeOnes(h) \ {b} /\ b \in FreeOnes(h) /\ FreeOnes(h) \subseteq Blocks(h)
  BY <1>4 DEF FreeOnes, IsFree
<1>6. PICK rank \in [Nat -> Nat] : Ranks(h, rank)
  BY DEF Tidy, Ranked
<1>7. ASSUME NEW a \in FreeOnes(r), r.free_prev[a] # 0
      PROVE  rank[r.free_prev[a]] < rank[a]
  <2>1. CASE a = next
    <3>1. r.free_prev[a] = prev /\ prev # 0 /\ prev \in Blocks(h) /\ h.free_prev[a] = b
      BY <1>2, <1>3, <1>4, <1>5, <1>7, <2>1
    <3>2. rank[prev] < rank[b] /\ rank[b] < rank[a]
      BY <1>2, <1>5, <1>6, <3>1 DEF Ranks, prev
    <3>3. rank[prev] \in Nat /\ rank[b] \in Nat /\ rank[a] \in Nat
      BY <1>0, <1>5, <3>1, ShapeFields
    <3> QED
      BY <3>1, <3>2, <3>3
  <2>2. CASE a # next
    BY <1>4, <1>5, <1>6, <1>7, <2>2 DEF Ranks
  <2> QED
    BY <2>1, <2>2
<1>8. Ranked(r)
  BY <1>7 DEF Ranked, Ranks
<1> QED
  BY <1>4, <1>8 DEF Tidy, Sized

(* insert_free puts a block in front of all others.                        *)
LEMMA InsertTidy ==
    ASSUME NEW h, NEW to \in Nat, to < Word, NEW mine, Good(h, to, mine), Tidy(h),
           NEW b \in InUse(h), NEW r, r = insert_free(h, b)
    PROVE  Tidy(r)
<1> DEFINE k == bin_index(h.size[b])
           first == h.bins[k]
<1>0. Shape(h) /\ FreeLinks(h) /\ Clear(h, to, mine) /\ b \in Blocks(h) /\ ~IsFree(h, b)
  BY DEF Good, InUse
<1>1. k \in 0..Bits - 1
  BY <1>0, SizesHaveBins
<1>2. first \in Blocks(h) \cup {0} /\ first # b /\ 0 \notin Blocks(h)
  <2>1. 0 \notin Blocks(h)
    BY <1>0, ShapeFields
  <2> QED
    BY <1>0, <1>1, <2>1 DEF FreeLinks
<1>3. /\ Shape(r) /\ Blocks(r) = Blocks(h)
      /\ r.size = h.size /\ r.next = h.next /\ r.prev = h.prev /\ r.tail = h.tail
      /\ r.bins = [h.bins EXCEPT ![k] = b]
      /\ \A a \in Blocks(h) :
           /\ r.available[a] = IF a = b THEN 1 ELSE h.available[a]
           /\ r.free_next[a] = IF a = b THEN first ELSE h.free_next[a]
           /\ r.free_prev[a] = IF a = b THEN 0 ELSE IF a = first THEN b ELSE h.free_prev[a]
  BY <1>0, <1>1, <1>2, InsertIs
<1> HIDE DEF k, first
<1>4. /\ FreeOnes(r) = FreeOnes(h) \cup {b} /\ FreeOnes(r) \subseteq Nat
      /\ b \in Nat \ {0} /\ FreeOnes(h) \subseteq Blocks(h) /\ b \notin FreeOnes(h)
  BY <1>0, <1>3, ShapeFields DEF FreeOnes, IsFree
<1>5. PICK rank \in [Nat -> Nat] : Ranks(h, rank)
  BY DEF Tidy, Ranked
<1> DEFINE new == [a \in Nat |-> IF a = b THEN 0 ELSE rank[a] + 1]
<1>6. new \in [Nat -> Nat] /\ \A a \in Nat : new[a] = IF a = b THEN 0 ELSE rank[a] + 1
  OBVIOUS
<1> HIDE DEF new
<1>7. ASSUME NEW a \in FreeOnes(r), r.free_prev[a] # 0
      PROVE  new[r.free_prev[a]] < new[a]
  <2>0. a \in Nat /\ a # b /\ a \in FreeOnes(h)
    <3>1. a # b
      BY <1>0, <1>3, <1>7
    <3> QED
      BY <1>4, <3>1
  <2>1. a # b /\ a \in FreeOnes(h) /\ a \in Nat /\ new[a] = rank[a] + 1 /\ rank[a] \in Nat
    BY <1>6, <2>0
  <2>2. CASE a = first
    <3>1. r.free_prev[a] = b /\ new[b] = 0
      BY <1>3, <1>4, <1>6, <2>1, <2>2
    <3> QED
      BY <2>1, <3>1
  <2>3. CASE a # first
    <3>1. r.free_prev[a] = h.free_prev[a]
      BY <1>3, <1>4, <2>1, <2>3
    <3>2. Linked(h, a, h.free_prev[a])
      BY <1>0, <1>7, <2>1, <3>1 DEF FreeLinks, FreeOnes
    <3>3. h.free_prev[a] \in Nat /\ h.free_prev[a] # b
      BY <1>0, <3>2, ShapeFields DEF Linked
    <3>4. rank[h.free_prev[a]] < rank[a] /\ rank[h.free_prev[a]] \in Nat
      BY <1>5, <1>7, <2>1, <3>1, <3>3 DEF Ranks
    <3>5. new[h.free_prev[a]] = rank[h.free_prev[a]] + 1
      BY <1>6, <3>3
    <3> QED
      BY <2>1, <3>1, <3>4, <3>5
  <2> QED
    BY <2>2, <2>3
<1>8. Ranked(r)
  BY <1>6, <1>7 DEF Ranked, Ranks
<1> QED
  BY <1>3, <1>8 DEF Tidy, Sized

(* The free blocks and their links back stay as they were.                 *)
LEMMA RankedKept ==
    ASSUME NEW h, NEW r, Ranked(h), FreeOnes(r) \subseteq FreeOnes(h),
           \A a \in FreeOnes(r) : r.free_prev[a] = h.free_prev[a]
    PROVE  Ranked(r)
BY DEF Ranked, Ranks

(* Sums of multiples of the alignment.                                     *)
LEMMA SumAligned ==
    ASSUME NEW m \in Nat, NEW n \in Nat, m % Align = 0, n % Align = 0
    PROVE  (m + Header + n) % Align = 0
BY DEF Header, Align

LEMMA RestAligned ==
    ASSUME NEW m \in Nat, NEW n \in Nat, m % Align = 0, n % Align = 0, m - n >= Header + Align
    PROVE  (m - n - Header) % Align = 0 /\ m - n - Header # 0 /\ m - n - Header \in Nat
BY DEF Header, Align

(* join_next of two neighbours that are not free.                          *)
LEMMA JoinTidy ==
    ASSUME NEW h, NEW to \in Nat, NEW mine, mine \subseteq [from : Nat, to : Nat], Good(h, to, mine),
           Tidy(h), NEW b \in Blocks(h), ~IsFree(h, b),
           NEW n, n = h.next[b], n # 0, ~IsFree(h, n), End(h, b) = n,
           NEW r, r = join_next(h, b)
    PROVE  Tidy(r)
<1>1. n \in Blocks(h) /\ n # b
  BY JoinKeeps
<1>2. Shape(h) /\ Chain(h)
  BY DEF Good
<1>3. PICK after \in Blocks(h) \cup {0} : after = h.next[n]
  BY <1>1, <1>2 DEF Chain
<1>4. /\ Blocks(r) = Blocks(h) \ {n}
      /\ \A a \in Blocks(r) :
           /\ r.size[a] = IF a = b THEN h.size[b] + Header + h.size[n] ELSE h.size[a]
           /\ r.available[a] = h.available[a] /\ r.free_prev[a] = h.free_prev[a]
  BY <1>1, <1>2, <1>3, JoinIs
<1>5. h.size[b] \in Nat /\ h.size[n] \in Nat
  BY <1>1, <1>2, ShapeFields
<1>6. (h.size[b] + Header + h.size[n]) % Align = 0 /\ h.size[b] + Header + h.size[n] # 0
  <2>1. h.size[b] % Align = 0 /\ h.size[n] % Align = 0
    BY <1>1 DEF Tidy, Sized
  <2>2. (h.size[b] + Header + h.size[n]) % Align = 0
    BY <1>5, <2>1, SumAligned
  <2>3. h.size[b] + Header + h.size[n] # 0
    BY <1>5 DEF Header
  <2> QED
    BY <2>2, <2>3
<1>7. Sized(r)
  BY <1>4, <1>6 DEF Tidy, Sized
<1>8. Ranked(r)
  <2>1. FreeOnes(r) \subseteq FreeOnes(h) /\ FreeOnes(r) \subseteq Blocks(r)
    BY <1>4 DEF FreeOnes, IsFree
  <2> QED
    BY <1>4, <2>1, RankedKept DEF Tidy
<1> QED
  BY <1>7, <1>8 DEF Tidy

(* split_block to an aligned size.                                         *)
LEMMA SplitTidy ==
    ASSUME NEW h, NEW to \in Nat, to < Word, NEW mine, mine \subseteq [from : Nat, to : Nat],
           Good(h, to, mine), Tidy(h), NEW b \in InUse(h),
           NEW size \in Nat, size <= h.size[b], size % Align = 0, size # 0,
           NEW r, r = split_block(h, b, size)
    PROVE  Tidy(r)
<1> DEFINE n == b + Header + size
<1>0. b \in Blocks(h) /\ ~IsFree(h, b) /\ n = b + Header + size /\ Shape(h)
  BY DEF InUse, Good
<1>1. CASE ~Splits(h, b, size)
  BY <1>1 DEF split_block
<1>2. CASE Splits(h, b, size)
  <2> HIDE DEF n
  <2>1. PICK mid :
          /\ r = insert_free(mid, n) /\ Good(mid, to, mine)
          /\ n \in Nat \ {0} /\ n # b /\ n \notin Blocks(h) /\ End(mid, n) = End(h, b)
          /\ Blocks(mid) = Blocks(h) \cup {n}
          /\ \A a \in Blocks(mid) :
               /\ mid.size[a] = IF a = n THEN h.size[b] - size - Header
                                ELSE IF a = b THEN size ELSE h.size[a]
               /\ IsFree(mid, a) <=> a \in Blocks(h) /\ IsFree(h, a)
               /\ a # n => mid.free_prev[a] = h.free_prev[a]
    BY <1>0, <1>2, SplitMiddle
  <2>2. (h.size[b] - size - Header) % Align = 0 /\ h.size[b] - size - Header # 0
    <3>1. h.size[b] \in Nat /\ h.size[b] % Align = 0 /\ h.size[b] - size >= Header + Align
      BY <1>0, <1>2, ShapeFields DEF Tidy, Sized, Splits
    <3> QED
      BY <3>1, RestAligned
  <2>3. Sized(mid)
    BY <2>1, <2>2 DEF Tidy, Sized
  <2>4. Ranked(mid)
    <3>1. FreeOnes(mid) \subseteq FreeOnes(h) /\ n \notin FreeOnes(mid) /\ FreeOnes(mid) \subseteq Blocks(mid)
      BY <2>1 DEF FreeOnes
    <3>2. \A a \in FreeOnes(mid) : mid.free_prev[a] = h.free_prev[a]
      BY <2>1, <3>1
    <3> QED
      BY <3>1, <3>2, RankedKept DEF Tidy
  <2>5. n \in InUse(mid)
    BY <2>1 DEF InUse
  <2> QED
    BY <2>1, <2>3, <2>4, <2>5, InsertTidy DEF Tidy
<1> QED
  BY <1>1, <1>2

(* A block of an aligned size taken from the break.                        *)
LEMMA AppendTidy ==
    ASSUME NEW h, NEW to \in Nat \ {0}, NEW mine, Good(h, to, mine), Tidy(h),
           NEW size \in Nat, size % Align = 0, size # 0,
           NEW r, r = NewBlock(h, to, size, h.tail, 0)
    PROVE  Tidy(r)
<1>0. Shape(h) /\ Chain(h) /\ Clear(h, to, mine)
  BY DEF Good
<1>1. to \notin Blocks(h) /\ h.tail \in Blocks(h) \cup {0} /\ 0 \notin Blocks(h)
  BY <1>0, ShapeFields DEF Clear, Chain, End, Header
<1>2. /\ Blocks(r) = Blocks(h) \cup {to}
      /\ \A a \in Blocks(r) :
            /\ r.size[a] = IF a = to THEN size ELSE h.size[a]
            /\ r.available[a] = IF a = to THEN 0 ELSE h.available[a]
            /\ a # to => r.free_prev[a] = h.free_prev[a]
  BY <1>0, <1>1, NewBlockIs DEF Inserted
<1>3. Sized(r)
  BY <1>2 DEF Tidy, Sized
<1>4. FreeOnes(r) \subseteq FreeOnes(h) /\ to \notin FreeOnes(r) /\ FreeOnes(r) \subseteq Blocks(r)
  BY <1>2 DEF FreeOnes, IsFree
<1>5. \A a \in FreeOnes(r) : r.free_prev[a] = h.free_prev[a]
  BY <1>2, <1>4
<1> QED
  BY <1>3, <1>4, <1>5, RankedKept DEF Tidy

(* A block in use given another aligned size.                              *)
LEMMA ResizeTidy ==
    ASSUME NEW h, Shape(h), Tidy(h), NEW b \in Blocks(h), NEW size \in Nat, size % Align = 0, size # 0,
           NEW r, r = [h EXCEPT !.size = Put(@, b, size)]
    PROVE  Tidy(r)
<1>1. /\ Blocks(r) = Blocks(h) /\ r.available = h.available /\ r.free_prev = h.free_prev
      /\ \A a \in Blocks(h) : r.size[a] = IF a = b THEN size ELSE h.size[a]
  BY ResizeIs
<1>2. Sized(r)
  BY <1>1 DEF Tidy, Sized
<1>3. FreeOnes(r) = FreeOnes(h)
  BY <1>1 DEF FreeOnes, IsFree
<1> QED
  BY <1>1, <1>2, <1>3, RankedKept DEF Tidy

(* free: the blocks around the one freed are taken from their bins and     *)
(* joined.                                                                 *)
LEMMA JoinedPrevTidy ==
    ASSUME NEW h, NEW to \in Nat, to < Word, NEW mine, mine \subseteq [from : Nat, to : Nat],
           Good(h, to, mine), Tidy(h), NEW at \in InUse(h), NEW r, r = JoinedPrev(h, at)
    PROVE  Tidy(r)
<1> DEFINE b == h.prev[at]
           one == remove_free(h, b)
<1>1. CASE ~JoinsPrev(h, at)
  BY <1>1 DEF JoinedPrev
<1>2. CASE JoinsPrev(h, at)
  <2>0. b # 0 /\ IsFree(h, b) /\ End(h, b) = at /\ r = join_next(one, b)
    BY <1>2 DEF JoinsPrev, JoinedPrev
  <2>1. b \in Blocks(h) /\ h.next[b] = at /\ at # b /\ at \in Blocks(h) /\ at # 0 /\ ~IsFree(h, at)
    BY <2>0, ShapeFields DEF Good, Chain, InUse
  <2>2. /\ Good(one, to, mine) /\ Blocks(one) = Blocks(h) /\ one.size = h.size /\ one.next = h.next
        /\ \A a \in Blocks(h) : IsFree(one, a) <=> IsFree(h, a) /\ a # b
    BY <2>0, <2>1, RemoveKeeps
  <2>3. Tidy(one)
    BY <2>0, <2>1, RemoveTidy
  <2> HIDE DEF one, b
  <2>4. ~IsFree(one, b) /\ ~IsFree(one, at) /\ End(one, b) = at /\ at = one.next[b] /\ b \in Blocks(one)
    BY <2>0, <2>1, <2>2 DEF End
  <2> QED
    BY <2>0, <2>1, <2>2, <2>3, <2>4, JoinTidy
<1> QED
  BY <1>1, <1>2

LEMMA JoinedNextTidy ==
    ASSUME NEW h, NEW to \in Nat, to < Word, NEW mine, mine \subseteq [from : Nat, to : Nat],
           Good(h, to, mine), Tidy(h), NEW b \in InUse(h), NEW r, r = JoinedNext(h, b)
    PROVE  Tidy(r)
<1> DEFINE n == h.next[b]
           one == remove_free(h, n)
<1>1. CASE ~Adjacent(h, b, n)
  BY <1>1 DEF JoinedNext
<1>2. CASE Adjacent(h, b, n)
  <2>0. n # 0 /\ IsFree(h, n) /\ End(h, b) = n /\ r = join_next(one, b)
    BY <1>2 DEF Adjacent, JoinedNext
  <2>1. n \in Blocks(h) /\ n # b /\ b \in Blocks(h) /\ ~IsFree(h, b)
    BY <2>0 DEF Good, Chain, InUse
  <2>2. /\ Good(one, to, mine) /\ Blocks(one) = Blocks(h) /\ one.size = h.size /\ one.next = h.next
        /\ \A a \in Blocks(h) : IsFree(one, a) <=> IsFree(h, a) /\ a # n
    BY <2>0, <2>1, RemoveKeeps
  <2>3. Tidy(one)
    BY <2>0, <2>1, RemoveTidy
  <2>9. n = h.next[b]
    OBVIOUS
  <2> HIDE DEF one, n
  <2>4. ~IsFree(one, b) /\ ~IsFree(one, n) /\ End(one, b) = n /\ n = one.next[b] /\ b \in Blocks(one)
    BY <2>0, <2>1, <2>2, <2>9 DEF End
  <2> QED
    BY <2>0, <2>1, <2>2, <2>3, <2>4, JoinTidy
<1> QED
  BY <1>1, <1>2

LEMMA FreeTidy ==
    ASSUME NEW h, NEW to \in Nat, to < Word, NEW mine, mine \subseteq [from : Nat, to : Nat],
           Good(h, to, mine), Tidy(h), NEW at \in InUse(h), NEW r, r = free(h, at + Header)
    PROVE  Tidy(r)
<1> DEFINE b == IF JoinsPrev(h, at) THEN h.prev[at] ELSE at
           one == JoinedPrev(h, at)
           two == JoinedNext(one, b)
<1>1. r = insert_free(two, b)
  <2>1. (at + Header) - Header = at
    BY ShapeFields DEF Good, InUse, Header
  <2> QED
    BY <2>1 DEF free
<1>2. Good(one, to, mine) /\ b \in InUse(one)
  BY JoinedPrevKeeps
<1>3. Tidy(one)
  BY JoinedPrevTidy
<1> HIDE DEF one, b
<1>4. Good(two, to, mine) /\ b \in InUse(two)
  BY <1>2, JoinedNextKeeps
<1>5. Tidy(two)
  BY <1>2, <1>3, JoinedNextTidy
<1> HIDE DEF two
<1> QED
  BY <1>1, <1>4, <1>5, InsertTidy

(* A size rounded up is a multiple of the alignment, and the least one     *)
(* that is large enough.                                                   *)
LEMMA AlignedFits ==
    ASSUME NEW size \in Nat, ~TooBig(size)
    PROVE  /\ Aligned(size) \in Nat /\ size <= Aligned(size) /\ Aligned(size) % Align = 0
           /\ size # 0 => Aligned(size) # 0
           /\ \A s \in Nat : s % Align = 0 /\ size <= s => Aligned(size) <= s
<1> DEFINE up == size + 7
<1>1. Word \in Nat /\ size + 32 <= Word
  BY HeapAssumption DEF TooBig, Align, Header
<1>2. Wrap(size + Align - 1) = up
  BY <1>1 DEF Wrap, Align
<1>3. Aligned(size) = up - (up % 8)
  BY <1>2 DEF Aligned, Align
<1>4. Aligned(size) \in Nat /\ size <= Aligned(size)
  BY AlignedIs
<1>5. (up - (up % 8)) % 8 = 0
  <2> HIDE DEF up
  <2>1. up \in Nat
    BY DEF up
  <2> QED
    BY <2>1
<1>6. ASSUME NEW s \in Nat, s % 8 = 0, size <= s
      PROVE  up - (up % 8) <= s
  BY <1>6
<1>7. size # 0 => Aligned(size) # 0
  BY <1>4
<1> QED
  BY <1>3, <1>4, <1>5, <1>6, <1>7 DEF Align

(* malloc.                                                                 *)
LEMMA MallocTidy ==
    ASSUME TypeOK, Good(heap, brk, own), Tidy(heap), NEW n \in 0..Word - 1, NEW r \in malloc(n)
    PROVE  Tidy(r.heap)
<1> DEFINE asked == IF n = 0 THEN 1 ELSE n
           size == Aligned(asked)
<1>0. /\ Word \in Nat /\ brk \in Nat \ {0} /\ brk < Word /\ own \subseteq [from : Nat, to : Nat]
      /\ Shape(heap) /\ asked \in Nat /\ asked # 0
  BY HeapAssumption DEF TypeOK, Good
<1> HIDE DEF asked
<1>1. \/ r = Failed
      \/ ~TooBig(asked) /\ \E b \in Best(size) :
            r = Result(split_block(remove_free(heap, b), b, size), brk, b + Header)
      \/ ~TooBig(asked) /\ r = Appended(size)
  BY DEF malloc, asked
<1>2. CASE r = Failed
  BY <1>2 DEF Failed, Result
<1>3. ASSUME ~TooBig(asked), NEW b \in Best(size),
             r = Result(split_block(remove_free(heap, b), b, size), brk, b + Header)
      PROVE  Tidy(r.heap)
  <2> DEFINE one == remove_free(heap, b)
  <2>1. size \in Nat /\ size % Align = 0 /\ size # 0
    BY <1>0, <1>3, AlignedFits
  <2> HIDE DEF size
  <2>2. r.heap = split_block(one, b, size)
    BY <1>3 DEF Result
  <2>3. b \in Blocks(heap) /\ IsFree(heap, b) /\ size <= heap.size[b]
    BY <1>0, <2>1, ShapeFields DEF Best, Searched, Fitting
  <2>4. /\ Good(one, brk, own) /\ Blocks(one) = Blocks(heap) /\ one.size = heap.size
        /\ \A a \in Blocks(heap) : IsFree(one, a) <=> IsFree(heap, a) /\ a # b
    BY <1>0, <2>3, RemoveKeeps
  <2>5. Tidy(one)
    BY <1>0, <2>3, RemoveTidy
  <2> HIDE DEF one
  <2>6. b \in InUse(one) /\ size <= one.size[b]
    BY <2>3, <2>4 DEF InUse
  <2> QED
    BY <1>0, <2>1, <2>2, <2>4, <2>5, <2>6, SplitTidy
<1>4. CASE ~TooBig(asked) /\ r = Appended(size)
  <2>1. size \in Nat /\ size % Align = 0 /\ size # 0
    BY <1>0, <1>4, AlignedFits
  <2> HIDE DEF size
  <2>2. r.heap = NewBlock(heap, brk, size, heap.tail, 0)
    BY <1>4 DEF Appended, Result
  <2> QED
    BY <1>0, <2>1, <2>2, AppendTidy
<1> QED
  BY <1>1, <1>2, <1>3, <1>4

(* A block taken from the break is in use.                                 *)
LEMMA AppendFree ==
    ASSUME NEW h, NEW to \in Nat \ {0}, NEW mine, Shape(h), Chain(h), Clear(h, to, mine),
           NEW size \in Nat, NEW r, r = NewBlock(h, to, size, h.tail, 0)
    PROVE  FewerFree(h, r)
<1>1. to \notin Blocks(h) /\ h.tail \in Blocks(h) \cup {0} /\ 0 \notin Blocks(h)
  BY ShapeFields DEF Clear, Chain, End, Header
<1>2. /\ Shape(r) /\ Blocks(r) = Blocks(h) \cup {to}
      /\ r.bins = h.bins /\ r.tail = to
      /\ \A a \in Blocks(r) :
            /\ r.size[a] = IF a = to THEN size ELSE h.size[a]
            /\ r.next[a] = IF a = to THEN 0 ELSE IF a = h.tail THEN to ELSE h.next[a]
            /\ r.prev[a] = IF a = to THEN h.tail ELSE IF a = 0 THEN to ELSE h.prev[a]
            /\ r.available[a] = IF a = to THEN 0 ELSE h.available[a]
            /\ a # to => r.free_next[a] = h.free_next[a] /\ r.free_prev[a] = h.free_prev[a]
  BY <1>1, NewBlockIs DEF Inserted
<1> QED
  BY <1>1, <1>2 DEF FewerFree, FreeOnes, IsFree, End

(* malloc: what it takes from a free block, or from the break, leaves no   *)
(* two free blocks side by side.                                           *)
LEMMA MallocJoined ==
    ASSUME TypeOK, Good(heap, brk, own), Joined(heap), NEW n \in 0..Word - 1, NEW r \in malloc(n)
    PROVE  Joined(r.heap)
<1> DEFINE asked == IF n = 0 THEN 1 ELSE n
           size == Aligned(asked)
<1>0. /\ Word \in Nat /\ brk \in Nat \ {0} /\ brk < Word /\ own \subseteq [from : Nat, to : Nat]
      /\ Shape(heap) /\ Chain(heap) /\ Clear(heap, brk, own) /\ asked \in Nat
  BY HeapAssumption DEF TypeOK, Good
<1> HIDE DEF asked
<1>1. \/ r = Failed
      \/ ~TooBig(asked) /\ \E b \in Best(size) :
            r = Result(split_block(remove_free(heap, b), b, size), brk, b + Header)
      \/ ~TooBig(asked) /\ r = Appended(size)
  BY DEF malloc, asked
<1>2. CASE r = Failed
  BY <1>2 DEF Failed, Result
<1>3. ASSUME ~TooBig(asked), NEW b \in Best(size),
             r = Result(split_block(remove_free(heap, b), b, size), brk, b + Header)
      PROVE  Joined(r.heap)
  <2> DEFINE one == remove_free(heap, b)
  <2>1. size \in Nat
    BY <1>0, <1>3, AlignedIs
  <2> HIDE DEF size
  <2>2. r.heap = split_block(one, b, size)
    BY <1>3 DEF Result
  <2>3. b \in Blocks(heap) /\ IsFree(heap, b) /\ size <= heap.size[b]
    BY <1>0, <2>1, ShapeFields DEF Best, Searched, Fitting
  <2>4. /\ Good(one, brk, own) /\ Blocks(one) = Blocks(heap) /\ one.size = heap.size
        /\ \A a \in Blocks(heap) : IsFree(one, a) <=> IsFree(heap, a) /\ a # b
    BY <1>0, <2>3, RemoveKeeps
  <2> HIDE DEF one
  <2>5. FewerFree(heap, one) /\ b \in InUse(one) /\ b \in FreeOnes(heap)
    BY <2>3, <2>4 DEF FewerFree, FreeOnes, End, InUse
  <2>6. Joined(one)
    BY <2>5, JoinedFewer
  <2>7. ApartAfter(one, b)
    BY <2>4, <2>5 DEF ApartAfter, Joined, FewerFree, End
  <2>8. size <= one.size[b]
    BY <2>3, <2>4
  <2> QED
    BY <1>0, <2>1, <2>2, <2>4, <2>5, <2>6, <2>7, <2>8, SplitJoined
<1>4. CASE ~TooBig(asked) /\ r = Appended(size)
  <2>1. size \in Nat
    BY <1>0, <1>4, AlignedIs
  <2> HIDE DEF size
  <2>2. r.heap = NewBlock(heap, brk, size, heap.tail, 0)
    BY <1>4 DEF Appended, Result
  <2>3. FewerFree(heap, r.heap)
    BY <1>0, <2>1, <2>2, AppendFree
  <2> QED
    BY <2>3, JoinedFewer
<1> QED
  BY <1>1, <1>2, <1>3, <1>4

(***************************************************************************)
(* The steps of programs.                                                  *)
(***************************************************************************)
Neat(h) == Joined(h) /\ Tidy(h)

(* malloc and calloc.                                                      *)
LEMMA GetsNeat ==
    ASSUME HeapInv, Neat(heap), NEW n \in 0..Word - 1, Gets(malloc(n), n)
    PROVE  Neat(heap')
<1>1. PICK r \in malloc(n) : heap' = r.heap
  BY DEF Gets
<1> QED
  BY <1>1, MallocJoined, MallocTidy DEF HeapInv, Neat

(* calloc asks malloc for the product, which does not wrap round.          *)
LEMMA CallocNeat ==
    ASSUME HeapInv, Neat(heap), NEW n \in Sizes, NEW count \in Sizes, Calloc(count, n)
    PROVE  Neat(heap')
<1>0. Word \in Nat \ {0} /\ n \in 0..Word - 1 /\ count \in 0..Word - 1
  BY HeapAssumption
<1>1. CASE n # 0 /\ count > (Word - 1) \div n
  <2>1. heap' = heap
    BY <1>1 DEF Calloc, Gets, Failed, Result
  <2> QED
    BY <2>1
<1>2. CASE ~(n # 0 /\ count > (Word - 1) \div n)
  <2>1. Gets(malloc(count * n), count * n)
    BY <1>2 DEF Calloc
  <2>2. count * n \in 0..Word - 1
    <3>1. CASE n = 0
      BY <1>0, <3>1
    <3>2. CASE n # 0
      <4>1. count <= (Word - 1) \div n
        BY <1>0, <1>2, <3>2
      <4>2. count * n \in Nat /\ count * n <= Word - 1
        BY <1>0, <3>2, <4>1, DivBound
      <4> QED
        BY <1>0, <4>2
    <3> QED
      BY <3>1, <3>2
  <2> QED
    BY <2>1, <2>2, GetsNeat
<1> QED
  BY <1>1, <1>2

(* free, and realloc to 0.                                                 *)
LEMMA FreeStepNeat ==
    ASSUME HeapInv, Neat(heap), NEW p \in DOMAIN used, Free(p)
    PROVE  Neat(heap')
<1>1. /\ Good(heap, brk, own) /\ own \subseteq [from : Nat, to : Nat] /\ brk \in Nat /\ brk < Word
      /\ p - Header \in InUse(heap) /\ (p - Header) + Header = p
  BY IInvParts, Places
<1>2. heap' = free(heap, (p - Header) + Header)
  BY <1>1 DEF Free
<1> QED
  BY <1>1, <1>2, FreeJoined, FreeTidy DEF Neat

(* realloc joins the free block after the one resized and splits the sum.  *)
LEMMA AbsorbsNeat ==
    ASSUME HeapInv, Neat(heap), NEW p \in DOMAIN used, NEW n \in 0..Word - 1,
           n > heap.size[p - Header], Absorbs(p, n)
    PROVE  Neat(heap')
<1> DEFINE b == p - Header
           size == Aligned(n)
           one == JoinedNext(heap, b)
<1>1. /\ Good(heap, brk, own) /\ own \subseteq [from : Nat, to : Nat]
      /\ brk \in Nat /\ brk < Word /\ b \in InUse(heap)
  BY IInvParts, Places
<1>2. size \in Nat /\ size % Align = 0 /\ size # 0
  <2>1. n \in Nat /\ n # 0 /\ ~TooBig(n)
    BY Places, HeapAssumption DEF Absorbs
  <2> QED
    BY <2>1, AlignedFits
<1>3. /\ Adjacent(heap, b, heap.next[b]) /\ heap.size[b] + Header + heap.size[heap.next[b]] >= size
      /\ heap' = split_block(one, b, size)
  BY DEF Absorbs, Room
<1> HIDE DEF b, size
<1>4. /\ Good(one, brk, own) /\ b \in InUse(one)
      /\ one.size[b] = heap.size[b] + Header + heap.size[heap.next[b]]
  BY <1>1, <1>3, JoinedNextKeeps
<1>5. FewerFree(heap, one) /\ ApartAfter(one, b)
  BY <1>1, JoinedNextFree DEF Neat
<1>8. Tidy(one)
  BY <1>1, JoinedNextTidy DEF Neat
<1> HIDE DEF one
<1>6. size <= one.size[b]
  <2>1. one.size[b] \in Nat
    BY <1>4, ShapeFields DEF Good, InUse
  <2>2. one.size[b] >= size
    BY <1>3, <1>4
  <2> QED
    BY <1>2, <2>1, <2>2
<1>7. Joined(one)
  BY <1>5, JoinedFewer DEF Neat
<1> QED
  BY <1>1, <1>2, <1>3, <1>4, <1>5, <1>6, <1>7, <1>8, SplitJoined, SplitTidy DEF Neat

(* realloc moves the break to make the last block, which is in use, larger. *)
LEMMA ExtendsNeat ==
    ASSUME HeapInv, Neat(heap), NEW p \in DOMAIN used, NEW n \in 0..Word - 1,
           n > heap.size[p - Header], Extends(p, n)
    PROVE  Neat(heap')
<1> DEFINE b == p - Header
           size == Aligned(n)
<1>1. Shape(heap) /\ b \in Blocks(heap) /\ ~IsFree(heap, b)
  BY Places DEF InUse
<1>2. size \in Nat /\ size % Align = 0 /\ size # 0
  <2>1. n \in Nat /\ n # 0 /\ ~TooBig(n)
    BY Places, HeapAssumption DEF Extends
  <2> QED
    BY <2>1, AlignedFits
<1>3. heap' = [heap EXCEPT !.size = Put(@, b, size)]
  BY DEF Extends
<1> HIDE DEF b, size
<1>4. /\ Blocks(heap') = Blocks(heap) /\ heap'.available = heap.available
      /\ \A a \in Blocks(heap) : heap'.size[a] = IF a = b THEN size ELSE heap.size[a]
  BY <1>1, <1>2, <1>3, ResizeIs
<1>5. FewerFree(heap, heap')
  BY <1>1, <1>4 DEF FewerFree, FreeOnes, IsFree, End
<1>6. Tidy(heap')
  BY <1>1, <1>2, <1>3, ResizeTidy DEF Neat
<1> QED
  BY <1>5, <1>6, JoinedFewer DEF Neat

(* realloc takes another block and frees the one it had.                   *)
LEMMA MovesNeat ==
    ASSUME HeapInv, Neat(heap), NEW p \in DOMAIN used, NEW n \in 0..Word - 1, Moves(p, n)
    PROVE  Neat(heap')
<1> DEFINE b == p - Header
<1>1. PICK r \in malloc(n) : heap' = IF r.p = 0 THEN heap ELSE free(r.heap, p)
  BY DEF Moves
<1>2. /\ Good(heap, brk, own) /\ TypeOK /\ own \subseteq [from : Nat, to : Nat]
      /\ b \in InUse(heap) /\ b + Header = p
      /\ Stack \in Nat /\ Stack < Word /\ Origin \in Nat /\ Word \in Nat
  BY IInvParts, Places DEF HeapInv
<1> HIDE DEF b
<1>3. /\ Good(r.heap, r.brk, own) /\ r.brk \in Origin..Stack
      /\ r.p # 0 => \E c \in InUse(r.heap) \ InUse(heap) : SameUsers(heap, c, r.heap, c)
  BY <1>2, MallocIs
<1>4. Joined(r.heap) /\ Tidy(r.heap)
  BY <1>2, MallocJoined, MallocTidy DEF Neat
<1>5. CASE r.p = 0
  BY <1>1, <1>5
<1>6. CASE r.p # 0
  <2>1. b \in InUse(r.heap)
    BY <1>2, <1>3, <1>6 DEF SameUsers
  <2>2. heap' = free(r.heap, b + Header)
    BY <1>1, <1>2, <1>6
  <2>3. r.brk \in Nat /\ r.brk < Word
    BY <1>2, <1>3
  <2> QED
    BY <1>2, <1>3, <1>4, <2>1, <2>2, <2>3, FreeJoined, FreeTidy DEF Neat
<1> QED
  BY <1>5, <1>6

(* Every step leaves free neighbours joined, sizes aligned and links in    *)
(* order.                                                                  *)
LEMMA StepNeat ==
    ASSUME HeapInv, Neat(heap), [Next]_vars
    PROVE  Neat(heap')
<1>1. ASSUME NEW n \in Sizes, Malloc(n) PROVE Neat(heap')
  BY <1>1, HeapAssumption, GetsNeat DEF Malloc
<1>2. ASSUME NEW n \in Sizes, NEW count \in Sizes, Calloc(count, n) PROVE Neat(heap')
  BY <1>2, CallocNeat
<1>3. ASSUME NEW p \in DOMAIN used, Free(p) PROVE Neat(heap')
  BY <1>3, FreeStepNeat
<1>4. ASSUME NEW p \in DOMAIN used, NEW n \in Sizes, Realloc(p, n) PROVE Neat(heap')
  <2>0. n \in 0..Word - 1
    BY HeapAssumption
  <2>1. CASE Keeps(p, n)
    BY <2>1 DEF Keeps
  <2>2. CASE n > heap.size[p - Header] /\ Absorbs(p, n)
    BY <2>0, <2>2, AbsorbsNeat
  <2>3. CASE n > heap.size[p - Header] /\ Extends(p, n)
    BY <2>0, <2>3, ExtendsNeat
  <2>4. CASE Moves(p, n)
    BY <2>0, <2>4, MovesNeat
  <2>5. CASE Free(p)
    BY <2>5, FreeStepNeat
  <2> QED
    BY <1>4, <2>1, <2>2, <2>3, <2>4, <2>5 DEF Realloc
<1>5. ASSUME NEW n \in Gaps, MoveBreak(n) PROVE Neat(heap')
  BY <1>5 DEF MoveBreak
<1>6. CASE UNCHANGED vars
  BY <1>6 DEF vars
<1> QED
  BY <1>1, <1>2, <1>3, <1>4, <1>5, <1>6 DEF Next

(* What holds of the headers at the start and after every step.            *)
LEMMA AlwaysNeat == Spec => [](HeapInv /\ Neat(heap))
<1>1. Init => Neat(heap)
  <2> SUFFICES ASSUME Init PROVE Neat(heap)
    OBVIOUS
  <2>1. Blocks(heap) = {}
    BY DEF Init, Blocks
  <2>2. Ranked(heap)
    <3>1. [a \in Nat |-> 0] \in [Nat -> Nat]
      OBVIOUS
    <3> QED
      BY <2>1, <3>1 DEF Ranked, Ranks, FreeOnes
  <2> QED
    BY <2>1, <2>2 DEF Neat, Tidy, Sized, Joined, FreeOnes
<1>2. HeapInv /\ Neat(heap) /\ [Next]_vars => Neat(heap)'
  BY StepNeat
<1> QED
  BY <1>1, <1>2, HeapInvariance, PTL DEF Spec

(* free, split_block and realloc: there are never two free blocks side by  *)
(* side, so that memory freed piece by piece can be had again in one.      *)
THEOREM HeapFreeJoined == Spec => []FreeNeighboursJoined
<1>1. Neat(heap) => FreeNeighboursJoined
  BY DEF Neat, Joined, FreeNeighboursJoined, FreeOnes
<1> QED
  BY <1>1, AlwaysNeat, PTL

(* malloc: the search through the bins misses no block that is large       *)
(* enough.                                                                 *)
LEMMA SearchFinds ==
    ASSUME HeapInv, Neat(heap), NEW n \in 0..Word - 1, NEW r \in malloc(n), r.brk # brk
    PROVE  Fitting(n) = {}
<1> DEFINE asked == IF n = 0 THEN 1 ELSE n
           size == Aligned(asked)
<1>0. /\ Shape(heap) /\ Clear(heap, brk, own) /\ brk \in Nat /\ brk < Word
      /\ asked \in Nat \ {0} /\ n \in Nat
  BY Places, HeapAssumption DEF HeapInv, Good
<1>1. ~TooBig(asked) /\ Searched(size) = {}
  BY DEF malloc, Failed, Result
<1>2. ASSUME NEW b \in Fitting(n)
      PROVE  FALSE
  <2>1. b \in Blocks(heap) /\ IsFree(heap, b) /\ heap.size[b] >= n
    BY DEF Fitting
  <2>2. heap.size[b] \in Nat /\ heap.size[b] < Word
    BY <1>0, <2>1, SizesHaveBins
  <2>3. heap.size[b] % Align = 0 /\ heap.size[b] # 0
    BY <2>1 DEF Neat, Tidy, Sized
  <2>4. asked <= heap.size[b]
    BY <1>0, <2>1, <2>2, <2>3
  <2> HIDE DEF asked
  <2>5. size \in Nat /\ size # 0 /\ size <= heap.size[b]
    BY <1>0, <1>1, <2>2, <2>3, <2>4, AlignedFits
  <2> HIDE DEF size
  <2>6. bin_index(size) <= bin_index(heap.size[b])
    BY <2>2, <2>5, BinsAreOrdered
  <2>7. bin_index(heap.size[b]) \in Nat /\ bin_index(size) \in Nat
    <3>1. size < Word
      BY <2>2, <2>5, HeapAssumption
    <3> QED
      BY <2>2, <2>5, <3>1, BinIndexType
  <2>8. b \in Searched(size)
    BY <2>1, <2>2, <2>5, <2>6, <2>7 DEF Searched, Fitting, Starts
  <2> QED
    BY <1>1, <2>8
<1> QED
  BY <1>2

(* The break moves for a request only when no free block could hold it.    *)
THEOREM HeapGrowsOnlyWhenFull == Spec => GrowsOnlyWhenFull
<1> DEFINE A == \A n \in Requests : Malloc(n) /\ brk' # brk => Fitting(n) = {}
<1>1. ASSUME HeapInv, Neat(heap)
      PROVE  A
  <2>1. ASSUME NEW n \in Requests, Malloc(n), brk' # brk PROVE Fitting(n) = {}
    <3>1. PICK r \in malloc(n) : r.brk # brk
      BY <2>1 DEF Malloc, Gets
    <3>2. n \in 0..Word - 1
      BY HeapAssumption DEF Requests
    <3> QED
      BY <1>1, <3>1, <3>2, SearchFinds
  <2> QED
    BY <2>1
<1>2. HeapInv /\ Neat(heap) => A
  BY <1>1
<1> HIDE DEF A
<1>3. Spec => [][A]_vars
  BY <1>2, AlwaysNeat, PTL
<1> QED
  BY <1>3 DEF GrowsOnlyWhenFull, A

(***************************************************************************)
(* The bins hold exactly the free blocks.                                  *)
(***************************************************************************)
(* Iterating a function from a first value makes a sequence.               *)
Iterates(f, n, a, F) == f[0] = a /\ \A d \in 0..n : d + 1 <= n => f[d + 1] = F[f[d]]

Iteration(f, a, F) == f[0] = a /\ \A d \in Nat : f[d + 1] = F[f[d]]

LEMMA IteratesFinitely ==
    ASSUME NEW X, NEW a \in X, NEW F \in [X -> X], NEW n \in Nat
    PROVE  \E f \in [0..n -> X] : Iterates(f, n, a, F)
<1> DEFINE S == {m \in 0..n : \E f \in [0..m -> X] : Iterates(f, m, a, F)}
<1>1. 0 \in S
  <2>1. [d \in 0..0 |-> a] \in [0..0 -> X] /\ Iterates([d \in 0..0 |-> a], 0, a, F)
    BY DEF Iterates
  <2> QED
    BY <2>1
<1>2. ASSUME NEW m \in 0..n, m \in S, m + 1 <= n
      PROVE  m + 1 \in S
  <2>1. PICK f \in [0..m -> X] : Iterates(f, m, a, F)
    BY <1>2
  <2> DEFINE g == [d \in 0..(m + 1) |-> IF d <= m THEN f[d] ELSE F[f[m]]]
  <2>2. m \in 0..m /\ f[m] \in X /\ 0 \in 0..m
    OBVIOUS
  <2>3. ASSUME NEW d \in 0..(m + 1)
        PROVE  g[d] \in X
    <3>1. CASE d <= m
      <4>1. d \in 0..m
        BY <3>1
      <4> QED
        BY <3>1, <4>1
    <3>2. CASE ~(d <= m)
      BY <2>2, <3>2
    <3> QED
      BY <3>1, <3>2
  <2>4. g[0] = a
    BY <2>1, <2>2 DEF Iterates
  <2>5. ASSUME NEW d \in 0..(m + 1), d + 1 <= m + 1
        PROVE  g[d + 1] = F[g[d]]
    <3>1. d \in 0..m /\ d <= m /\ d + 1 \in 0..(m + 1) /\ g[d] = f[d]
      BY <2>5
    <3>2. CASE d + 1 <= m
      <4>1. f[d + 1] = F[f[d]]
        BY <2>1, <3>1, <3>2 DEF Iterates
      <4> QED
        BY <3>1, <3>2, <4>1
    <3>3. CASE ~(d + 1 <= m)
      <4>1. d = m
        BY <3>1, <3>3
      <4> QED
        BY <3>1, <3>3, <4>1
    <3> QED
      BY <3>2, <3>3
  <2>6. g \in [0..(m + 1) -> X]
    <3> DEFINE G(d) == IF d <= m THEN f[d] ELSE F[f[m]]
    <3>1. \A d \in 0..(m + 1) : G(d) \in X
      BY <2>3
    <3> HIDE DEF G
    <3>2. [d \in 0..(m + 1) |-> G(d)] \in [0..(m + 1) -> X]
      BY <3>1
    <3> QED
      BY <3>2 DEF G
  <2> HIDE DEF g
  <2>7. Iterates(g, m + 1, a, F)
    BY <2>4, <2>5 DEF Iterates
  <2> QED
    BY <1>2, <2>6, <2>7
<1> HIDE DEF S
<1>3. 0..n \subseteq S
  BY <1>1, <1>2, Induction
<1>4. n \in S
  BY <1>3
<1> QED
  BY <1>4 DEF S

LEMMA IteratesOnce ==
    ASSUME NEW a, NEW F, NEW n \in Nat, NEW m \in Nat, n <= m,
           NEW f, Iterates(f, n, a, F), NEW g, Iterates(g, m, a, F)
    PROVE  f[n] = g[n]
<1> DEFINE S == {d \in 0..n : f[d] = g[d]}
<1>1. 0 \in S
  BY DEF Iterates
<1>2. ASSUME NEW d \in 0..n, d \in S, d + 1 <= n
      PROVE  d + 1 \in S
  <2>1. d \in 0..m /\ d + 1 <= m /\ d + 1 \in 0..n
    BY <1>2
  <2>2. f[d + 1] = F[f[d]] /\ g[d + 1] = F[g[d]]
    BY <1>2, <2>1 DEF Iterates
  <2> QED
    BY <1>2, <2>1, <2>2
<1> HIDE DEF S
<1>3. 0..n \subseteq S
  BY <1>1, <1>2, Induction
<1> QED
  BY <1>3 DEF S

LEMMA IterationExists ==
    ASSUME NEW X, NEW a \in X, NEW F \in [X -> X]
    PROVE  \E f \in [Nat -> X] : Iteration(f, a, F)
<1> DEFINE P(n) == CHOOSE f \in [0..n -> X] : Iterates(f, n, a, F)
           up == [n \in Nat |-> P(n)[n]]
<1>1. ASSUME NEW n \in Nat
      PROVE  P(n) \in [0..n -> X] /\ Iterates(P(n), n, a, F)
  BY IteratesFinitely
<1> HIDE DEF P
<1>2. \A n \in Nat : P(n)[n] \in X
  <2>1. \A n \in Nat : n \in 0..n
    OBVIOUS
  <2> QED
    BY <1>1, <2>1
<1>3. up \in [Nat -> X] /\ \A n \in Nat : up[n] = P(n)[n]
  BY <1>2
<1> HIDE DEF up
<1>4. up[0] = a
  BY <1>1, <1>3 DEF Iterates
<1>5. ASSUME NEW d \in Nat
      PROVE  up[d + 1] = F[up[d]]
  <2>1. d + 1 \in Nat /\ d \in 0..(d + 1) /\ d <= d + 1 /\ d + 1 <= d + 1
    OBVIOUS
  <2>2. Iterates(P(d), d, a, F) /\ Iterates(P(d + 1), d + 1, a, F)
    BY <1>1, <2>1
  <2>3. P(d)[d] = P(d + 1)[d]
    BY <2>1, <2>2, IteratesOnce
  <2>4. P(d + 1)[d + 1] = F[P(d + 1)[d]]
    BY <2>1, <2>2 DEF Iterates
  <2> QED
    BY <1>3, <2>1, <2>3, <2>4
<1> QED
  BY <1>3, <1>4, <1>5 DEF Iteration

(* The free blocks of bin k, and a walk through it along free_next.        *)
InBin(h, k) == {b \in Blocks(h) : IsFree(h, b) /\ bin_index(h.size[b]) = k}

Walks(h, k, at) ==
    /\ at[0] = h.bins[k]
    /\ \A i \in Nat : at[i + 1] = IF at[i] = 0 THEN 0 ELSE h.free_next[at[i]]

(* Each bin can be walked through.                                         *)
LEMMA WalkExists ==
    ASSUME NEW h, Shape(h), FreeLinks(h), NEW k \in 0..Bits - 1
    PROVE  \E at \in [Nat -> Blocks(h) \cup {0}] : Walks(h, k, at)
<1> DEFINE X == FreeOnes(h) \cup {0}
           F == [p \in X |-> IF p = 0 THEN 0 ELSE h.free_next[p]]
           a == h.bins[k]
<1>0. 0 \notin Blocks(h) /\ FreeOnes(h) \subseteq Blocks(h)
  BY ShapeFields DEF FreeOnes
<1>1. a \in X
  BY DEF FreeLinks, FreeOnes
<1>2. \A p \in X : p # 0 => h.free_next[p] \in X
  BY DEF FreeLinks, Linked, FreeOnes
<1>3. F \in [X -> X] /\ \A p \in X : F[p] = IF p = 0 THEN 0 ELSE h.free_next[p]
  BY <1>2
<1> HIDE DEF X, F, a
<1>4. PICK at \in [Nat -> X] : Iteration(at, a, F)
  BY <1>1, <1>3, IterationExists
<1>5. at \in [Nat -> Blocks(h) \cup {0}]
  BY <1>0, <1>4 DEF X
<1>6. \A i \in Nat : at[i + 1] = IF at[i] = 0 THEN 0 ELSE h.free_next[at[i]]
  BY <1>3, <1>4 DEF Iteration
<1> QED
  BY <1>4, <1>5, <1>6 DEF Walks, Iteration, a

(* Bin(k) is such a walk.                                                  *)
LEMMA BinWalks ==
    ASSUME HeapInv, NEW k \in 0..Bits - 1
    PROVE  Walks(heap, k, Bin(k))
<1> DEFINE L(at) == at = [i \in Nat |-> IF i = 0 THEN heap.bins[k]
                                        ELSE IF at[i - 1] = 0 THEN 0 ELSE heap.free_next[at[i - 1]]]
<1>1. \E at : L(at)
  <2>1. PICK h : h = heap
    OBVIOUS
  <2>2. Shape(h) /\ FreeLinks(h)
    BY <2>1 DEF HeapInv, Good
  <2>3. PICK at \in [Nat -> Blocks(h) \cup {0}] : Walks(h, k, at)
    BY <2>2, WalkExists
  <2>4. ASSUME NEW i \in Nat
        PROVE  at[i] = IF i = 0 THEN h.bins[k]
                       ELSE IF at[i - 1] = 0 THEN 0 ELSE h.free_next[at[i - 1]]
    <3>1. CASE i = 0
      BY <2>3, <3>1 DEF Walks
    <3>2. CASE i # 0
      <4>1. i - 1 \in Nat /\ (i - 1) + 1 = i
        BY <3>2
      <4>2. at[(i - 1) + 1] = IF at[i - 1] = 0 THEN 0 ELSE h.free_next[at[i - 1]]
        BY <2>3, <4>1 DEF Walks
      <4> QED
        BY <3>2, <4>1, <4>2
    <3> QED
      BY <3>1, <3>2
  <2>5. at = [i \in Nat |-> at[i]]
    OBVIOUS
  <2>6. at = [i \in Nat |-> IF i = 0 THEN h.bins[k]
                            ELSE IF at[i - 1] = 0 THEN 0 ELSE h.free_next[at[i - 1]]]
    BY <2>4, <2>5
  <2> QED
    BY <2>1, <2>6
<1>2. Bin(k) = CHOOSE at : L(at)
  BY DEF Bin
<1>3. L(Bin(k))
  BY <1>1, <1>2
<1>4. ASSUME NEW i \in Nat
      PROVE  Bin(k)[i + 1] = IF Bin(k)[i] = 0 THEN 0 ELSE heap.free_next[Bin(k)[i]]
  <2>1. i + 1 \in Nat /\ i + 1 # 0 /\ (i + 1) - 1 = i
    OBVIOUS
  <2> QED
    BY <1>3, <2>1
<1>5. Bin(k)[0] = heap.bins[k]
  BY <1>3
<1> QED
  BY <1>4, <1>5 DEF Walks

(* A walk stays in its bin, and free_prev leads back along it.             *)
LEMMA WalkStaysInBin ==
    ASSUME NEW h, Shape(h), FreeLinks(h), NEW k \in 0..Bits - 1, NEW at, Walks(h, k, at), NEW n \in Nat
    PROVE  /\ at[n] \in InBin(h, k) \cup {0}
           /\ at[n] # 0 => h.free_prev[at[n]] = IF n = 0 THEN 0 ELSE at[n - 1]
<1> DEFINE S == {d \in 0..n : /\ at[d] \in InBin(h, k) \cup {0}
                              /\ at[d] # 0 => h.free_prev[at[d]] = IF d = 0 THEN 0 ELSE at[d - 1]}
<1>1. 0 \in S
  <2>1. h.bins[k] # 0 => h.bins[k] \in InBin(h, k) /\ h.free_prev[h.bins[k]] = 0
    BY DEF FreeLinks, InBin
  <2>2. at[0] = h.bins[k]
    BY DEF Walks
  <2> QED
    BY <2>1, <2>2
<1>2. ASSUME NEW d \in 0..n, d \in S, d + 1 <= n
      PROVE  d + 1 \in S
  <2>1. d + 1 \in 0..n /\ d + 1 # 0 /\ (d + 1) - 1 = d /\ d \in Nat
    BY <1>2
  <2>2. at[d + 1] = IF at[d] = 0 THEN 0 ELSE h.free_next[at[d]]
    BY <2>1 DEF Walks
  <2>3. ASSUME at[d + 1] # 0
        PROVE  at[d + 1] \in InBin(h, k) /\ h.free_prev[at[d + 1]] = at[d]
    <3>1. at[d] # 0 /\ at[d] \in InBin(h, k) /\ at[d + 1] = h.free_next[at[d]]
      BY <1>2, <2>2, <2>3
    <3>2. at[d] \in Blocks(h) /\ IsFree(h, at[d]) /\ bin_index(h.size[at[d]]) = k
      BY <3>1 DEF InBin
    <3>3. Linked(h, at[d], at[d + 1]) /\ h.free_prev[at[d + 1]] = at[d]
      BY <2>3, <3>1, <3>2 DEF FreeLinks
    <3> QED
      BY <3>2, <3>3 DEF Linked, SameBin, InBin
  <2> QED
    BY <2>1, <2>3
<1> HIDE DEF S
<1>3. 0..n \subseteq S
  BY <1>1, <1>2, Induction
<1>4. n \in S
  BY <1>3
<1> QED
  BY <1>4 DEF S

(* A walk that has not ended passes blocks of rising rank.                 *)
LEMMA RanksRise ==
    ASSUME NEW h, Shape(h), FreeLinks(h), NEW k \in 0..Bits - 1, NEW at, Walks(h, k, at),
           NEW rank \in [Nat -> Nat], Ranks(h, rank), NEW i \in Nat, NEW n \in Nat, at[n] # 0, i < n
    PROVE  at[i] # 0 /\ rank[at[i]] < rank[at[n]]
<1>0. \A d \in Nat : at[d] # 0 => at[d] \in FreeOnes(h) /\ at[d] \in Nat
  <2>1. FreeOnes(h) \subseteq Nat /\ \A b \in InBin(h, k) : b \in FreeOnes(h)
    BY ShapeFields DEF FreeOnes, InBin
  <2> QED
    BY <2>1, WalkStaysInBin
<1>1. ASSUME NEW d \in Nat, at[d + 1] # 0
      PROVE  at[d] # 0 /\ rank[at[d]] < rank[at[d + 1]] /\ rank[at[d]] \in Nat /\ rank[at[d + 1]] \in Nat
  <2>1. d + 1 \in Nat /\ d + 1 # 0 /\ (d + 1) - 1 = d
    OBVIOUS
  <2>2. at[d] # 0
    BY <1>1 DEF Walks
  <2>3. h.free_prev[at[d + 1]] = at[d]
    BY <1>1, <2>1, WalkStaysInBin
  <2>4. at[d] \in Nat /\ at[d + 1] \in Nat /\ at[d + 1] \in FreeOnes(h)
    BY <1>0, <1>1, <2>1, <2>2
  <2> QED
    BY <2>2, <2>3, <2>4 DEF Ranks
<1> DEFINE S == {d \in 0..n : d < n => at[n - (d + 1)] # 0 /\ rank[at[n - (d + 1)]] < rank[at[n]]
                                       /\ rank[at[n - (d + 1)]] \in Nat}
<1>2. 0 \in S
  <2>1. CASE n = 0
    BY <2>1
  <2>2. CASE n # 0
    <3>1. n - 1 \in Nat /\ (n - 1) + 1 = n /\ n - (0 + 1) = n - 1
      BY <2>2
    <3>2. at[(n - 1) + 1] # 0
      BY <3>1
    <3>3. at[n - 1] # 0 /\ rank[at[n - 1]] < rank[at[n]] /\ rank[at[n - 1]] \in Nat
      BY <1>1, <3>1, <3>2
    <3> QED
      BY <3>1, <3>3
  <2> QED
    BY <2>1, <2>2
<1>3. ASSUME NEW d \in 0..n, d \in S, d + 1 <= n
      PROVE  d + 1 \in S
  <2>1. CASE d + 1 = n
    BY <2>1
  <2>2. CASE d + 1 < n
    <3>1. PICK e \in Nat : e = n - (d + 2)
      BY <2>2
    <3>2. e + 1 = n - (d + 1) /\ n - ((d + 1) + 1) = e
      BY <3>1
    <3>3. at[e + 1] # 0 /\ rank[at[e + 1]] < rank[at[n]] /\ rank[at[e + 1]] \in Nat
      <4>1. d < n
        BY <2>2
      <4> QED
        BY <1>3, <3>2, <4>1
    <3>4. at[e] # 0 /\ rank[at[e]] < rank[at[e + 1]] /\ rank[at[e]] \in Nat
      BY <1>1, <3>3
    <3>5. rank[at[n]] \in Nat
      BY <1>0
    <3>6. rank[at[e]] < rank[at[n]]
      BY <3>3, <3>4, <3>5
    <3>7. d + 1 \in 0..n
      BY <1>3
    <3> QED
      BY <3>2, <3>4, <3>6, <3>7
  <2> QED
    BY <1>3, <2>1, <2>2
<1> HIDE DEF S
<1>4. 0..n \subseteq S
  BY <1>2, <1>3, Induction
<1>5. n - (i + 1) \in 0..n /\ n - (i + 1) < n /\ n - ((n - (i + 1)) + 1) = i
  OBVIOUS
<1>6. n - (i + 1) \in S
  BY <1>4, <1>5
<1> QED
  BY <1>5, <1>6 DEF S

(* There is room for Stack \div Header blocks at most: each has a header.  *)
LEMMA BlocksAreFew ==
    ASSUME NEW h, NEW to \in Nat, to <= Stack, NEW mine, Shape(h), Chain(h), Clear(h, to, mine),
           NEW b \in Blocks(h)
    PROVE  /\ b \div Header \in 0..(Stack \div Header) - 1
           /\ \A c \in Blocks(h) : b # c => b \div Header # c \div Header
<1>0. Stack \in Nat /\ Origin \in Nat
  BY HeapAssumption
<1>1. b \in Nat /\ h.size[b] \in Nat /\ b + 24 <= Stack
  <2>1. b \in Nat /\ h.size[b] \in Nat
    BY ShapeFields
  <2>2. b + 24 + h.size[b] <= to
    BY DEF Clear, End, Header
  <2> QED
    BY <1>0, <2>1, <2>2
<1>2. b \div 24 \in 0..(Stack \div 24) - 1
  <2>1. b \div 24 \in Nat /\ Stack \div 24 \in Nat
    BY <1>0, <1>1
  <2>2. b \div 24 < Stack \div 24
    BY <1>0, <1>1
  <2> QED
    BY <2>1, <2>2
<1>3. ASSUME NEW a \in Blocks(h), NEW c \in Blocks(h), a < c
      PROVE  a \div 24 # c \div 24
  <2>1. a \in Nat /\ c \in Nat /\ h.size[a] \in Nat /\ h.next[a] \in Nat
    BY ShapeFields
  <2>2. h.next[a] # 0 /\ h.next[a] <= c /\ End(h, a) <= h.next[a]
    BY <1>3 DEF Chain
  <2>3. a + 24 <= c
    BY <2>1, <2>2 DEF End, Header
  <2> QED
    BY <2>1, <2>3
<1>4. ASSUME NEW c \in Blocks(h), b # c
      PROVE  b \div 24 # c \div 24
  <2>1. c \in Nat
    BY ShapeFields
  <2>2. b < c \/ c < b
    BY <1>1, <1>4, <2>1
  <2> QED
    BY <1>3, <2>2
<1> QED
  BY <1>2, <1>4 DEF Header

(* A walk has ended when there is no room for another block.               *)
LEMMA WalkEnds ==
    ASSUME NEW h, NEW to \in Nat, to <= Stack, NEW mine, Good(h, to, mine), Ranked(h),
           NEW k \in 0..Bits - 1, NEW at, Walks(h, k, at)
    PROVE  at[Stack \div Header] = 0
<1> DEFINE N == Stack \div Header
           f == [i \in 0..N |-> at[i] \div Header]
<1>0. Shape(h) /\ Chain(h) /\ FreeLinks(h) /\ Clear(h, to, mine) /\ N \in Nat
  BY HeapAssumption DEF Good, Header
<1>1. SUFFICES ASSUME at[N] # 0 PROVE FALSE
  OBVIOUS
<1>2. PICK rank \in [Nat -> Nat] : Ranks(h, rank)
  BY DEF Ranked
<1> HIDE DEF N
<1>3. \A i \in 0..N : at[i] \in Blocks(h)
  <2>1. ASSUME NEW i \in 0..N
        PROVE  at[i] # 0
    <3>1. CASE i = N
      BY <1>1, <3>1
    <3>2. CASE i # N
      <4>1. i \in Nat /\ i < N
        BY <1>0, <3>2
      <4> QED
        BY <1>0, <1>1, <1>2, <4>1, RanksRise
    <3> QED
      BY <3>1, <3>2
  <2>2. \A i \in 0..N : at[i] \in InBin(h, k) \cup {0}
    BY <1>0, WalkStaysInBin
  <2> QED
    BY <2>1, <2>2 DEF InBin
<1>4. ASSUME NEW i \in 0..N, NEW j \in 0..N, i # j
      PROVE  at[i] # at[j]
  <2>1. ASSUME NEW x \in 0..N, NEW y \in 0..N, x < y
        PROVE  at[x] # at[y]
    <3>1. at[y] \in Blocks(h) /\ at[y] # 0 /\ at[y] \in Nat
      BY <1>0, <1>3, ShapeFields
    <3>2. x \in Nat /\ y \in Nat
      BY <1>0
    <3>3. rank[at[x]] < rank[at[y]]
      BY <1>0, <1>2, <2>1, <3>1, <3>2, RanksRise
    <3>4. rank[at[y]] \in Nat
      BY <3>1
    <3> QED
      BY <3>3, <3>4
  <2>2. i < j \/ j < i
    BY <1>0, <1>4
  <2> QED
    BY <2>1, <2>2
<1>5. ASSUME NEW i \in 0..N
      PROVE  /\ at[i] \div Header \in 0..N - 1
             /\ \A j \in 0..N : i # j => at[i] \div Header # at[j] \div Header
  BY <1>0, <1>3, <1>4, BlocksAreFew DEF N
<1>6. f \in [0..N -> 0..N - 1] /\ \A i \in 0..N : f[i] = at[i] \div Header
  BY <1>5
<1> HIDE DEF f
<1>7. \A i, j \in 0..N : i # j => f[i] # f[j]
  BY <1>5, <1>6
<1>8. IsFiniteSet(0..N) /\ Cardinality(0..N) = N + 1
  <2>1. 0 \in Int /\ N \in Int /\ ~(0 > N) /\ N - 0 + 1 = N + 1
    BY <1>0
  <2> QED
    BY <2>1, FS_Interval
<1>9. IsFiniteSet(0..N - 1) /\ Cardinality(0..N - 1) = N
  <2>1. 0 \in Int /\ N - 1 \in Int /\ (0 > N - 1 => N = 0) /\ (N - 1) - 0 + 1 = N
    BY <1>0
  <2> QED
    BY <2>1, FS_Interval
<1> DEFINE S == 0..N
           T == 0..N - 1
<1>10. /\ IsFiniteSet(S) /\ IsFiniteSet(T) /\ f \in [S -> T]
       /\ Cardinality(T) < Cardinality(S)
  <2>1. N < N + 1
    BY <1>0
  <2> QED
    BY <1>6, <1>8, <1>9, <2>1
<1> HIDE DEF S, T
<1>11. \E i, j \in S : i # j /\ f[i] = f[j]
  BY <1>10, FS_PigeonHole
<1> QED
  BY <1>7, <1>11 DEF S

(* A walk through a bin meets every free block of it.                      *)
LEMMA WalkIsComplete ==
    ASSUME NEW h, NEW to \in Nat, to <= Stack, NEW mine, Good(h, to, mine), Ranked(h),
           NEW k \in 0..Bits - 1, NEW at, Walks(h, k, at), NEW b \in InBin(h, k)
    PROVE  \E i \in 0..Stack \div Header : at[i] = b
<1> DEFINE N == Stack \div Header
           Met == {at[i] : i \in 0..N}
           Missed == {c \in InBin(h, k) : c \notin Met}
<1>0. Shape(h) /\ FreeLinks(h) /\ N \in Nat /\ 0 \notin Blocks(h)
  BY HeapAssumption, ShapeFields DEF Good, Header
<1>1. PICK rank \in [Nat -> Nat] : Ranks(h, rank)
  BY DEF Ranked
<1>2. at[N] = 0
  BY WalkEnds
<1>3. InBin(h, k) \subseteq FreeOnes(h) /\ FreeOnes(h) \subseteq Nat /\ InBin(h, k) \subseteq Blocks(h)
  BY <1>0, ShapeFields DEF InBin, FreeOnes
<1> HIDE DEF N
<1>4. ASSUME NEW c \in Missed
      PROVE  h.free_prev[c] \in Missed /\ rank[h.free_prev[c]] < rank[c]
  <2>1. c \in InBin(h, k) /\ c \in Blocks(h) /\ IsFree(h, c) /\ bin_index(h.size[c]) = k
    BY DEF InBin
  <2>2. 0 \in 0..N /\ at[0] = h.bins[k]
    BY <1>0 DEF Walks
  <2>3. h.free_prev[c] # 0
    BY <1>0, <2>1, <2>2 DEF FreeLinks
  <2>4. Linked(h, c, h.free_prev[c]) /\ h.free_next[h.free_prev[c]] = c
    BY <1>0, <2>1, <2>3 DEF FreeLinks
  <2>5. h.free_prev[c] \in InBin(h, k)
    BY <2>1, <2>4 DEF Linked, SameBin, InBin
  <2>6. ASSUME NEW i \in 0..N, at[i] = h.free_prev[c]
        PROVE  FALSE
    <3>1. i # N
      BY <1>2, <2>3, <2>6
    <3>2. i + 1 \in 0..N /\ i \in Nat
      BY <1>0, <3>1
    <3>3. at[i + 1] = c
      BY <2>3, <2>4, <2>6, <3>2 DEF Walks
    <3> QED
      BY <3>2, <3>3
  <2>7. rank[h.free_prev[c]] < rank[c]
    BY <1>1, <1>3, <2>1, <2>3 DEF Ranks
  <2> QED
    BY <2>5, <2>6, <2>7
<1>5. Missed = {}
  <2> SUFFICES ASSUME Missed # {} PROVE FALSE
    OBVIOUS
  <2> DEFINE R == {rank[c] : c \in Missed}
  <2>1. Missed \subseteq Nat
    BY <1>3
  <2> HIDE DEF Missed
  <2>2. R \subseteq Nat /\ R # {}
    BY <2>1
  <2>3. PICK r \in R : \A s \in R : r <= s
    <3> HIDE DEF R
    <3> QED
      BY <2>2, LeastNatural
  <2>4. PICK c \in Missed : r = rank[c]
    BY <2>3
  <2>5. h.free_prev[c] \in Missed /\ rank[h.free_prev[c]] < rank[c]
    BY <1>4
  <2>6. rank[h.free_prev[c]] \in R /\ rank[h.free_prev[c]] \in Nat /\ rank[c] \in Nat
    BY <2>1, <2>5
  <2>7. rank[c] <= rank[h.free_prev[c]]
    BY <2>3, <2>4, <2>6
  <2> QED
    BY <2>5, <2>6, <2>7
<1>6. b \in Met
  BY <1>5
<1>7. \E i \in 0..N : at[i] = b
  BY <1>6
<1> QED
  BY <1>7 DEF N

(* The bins are what remove_free takes them for: each holds exactly the    *)
(* free blocks of its sizes, each once, linked both ways, and it ends.     *)
THEOREM HeapBinsAreExact == Spec => []BinsAreExact
<1>1. ASSUME HeapInv, Neat(heap)
      PROVE  BinsAreExact
  <2> DEFINE N == Stack \div Header
  <2>h. PICK h : h = heap
    OBVIOUS
  <2>t. PICK to \in Nat : to = brk
    BY <1>1, Places
  <2>m. PICK mine : mine = own
    OBVIOUS
  <2>1. h = heap /\ to = brk /\ mine = own
    BY <2>h, <2>t, <2>m
  <2>2. /\ Good(h, to, mine) /\ Ranked(h) /\ to <= Stack /\ Shape(h) /\ FreeLinks(h)
        /\ 0 \notin Blocks(h) /\ N \in Nat
    BY <1>1, <2>1, Places, HeapAssumption, ShapeFields DEF HeapInv, Good, Neat, Tidy, Header
  <2>3. ASSUME NEW k \in 0..Bits - 1
        PROVE  /\ \A b \in InBin(h, k) : \E i \in 0..N :
                     Bin(k)[i] = b /\ h.free_prev[b] = IF i = 0 THEN 0 ELSE Bin(k)[i - 1]
               /\ \A i \in 0..N : Bin(k)[i] \in InBin(h, k) \cup {0}
               /\ Bin(k)[N] = 0
    <3>1. PICK at : at = Bin(k)
      OBVIOUS
    <3>2. Walks(h, k, at)
      BY <1>1, <2>1, <3>1, BinWalks
    <3>3. \A n \in Nat : /\ at[n] \in InBin(h, k) \cup {0}
                         /\ at[n] # 0 => h.free_prev[at[n]] = IF n = 0 THEN 0 ELSE at[n - 1]
      BY <2>2, <3>2, WalkStaysInBin
    <3>4. at[N] = 0
      BY <2>2, <3>2, WalkEnds
    <3>5. \A b \in InBin(h, k) : \E i \in 0..N : at[i] = b
      BY <2>2, <3>2, WalkIsComplete
    <3>6. \A b \in InBin(h, k) : b # 0
      BY <2>2 DEF InBin
    <3> HIDE DEF N
    <3>7. \A i \in 0..N : i \in Nat
      BY <2>2
    <3> QED
      BY <3>1, <3>3, <3>4, <3>5, <3>6, <3>7
  <2> QED
    BY <2>1, <2>3 DEF BinsAreExact, InBin
<1>2. HeapInv /\ Neat(heap) => BinsAreExact
  BY <1>1
<1> QED
  BY <1>2, AlwaysNeat, PTL
=============================================================================
