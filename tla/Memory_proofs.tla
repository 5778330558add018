---------------------------- MODULE Memory_proofs ----------------------------
(***************************************************************************)
(* Proofs about Heap, MpuWrappers (P below), KernelObjects (K) and HeapOnce *)
(* (O), for every place, size and alignment, all requests and any number   *)
(* of callers: blocks cover the memory and have one owner each, the free   *)
(* ones are listed in order, merged and counted, and a request is refused  *)
(* only if nothing could hold it; a handle leads to the object it was      *)
(* given for, and back; objects own their blocks and are counted.          *)
(***************************************************************************)
EXTENDS Heap, FiniteSetTheorems, WellFoundedInduction, SequenceTheorems, TLAPS

-----------------------------------------------------------------------------
(* The regions.                                                            *)
Begin(i) == FirstOf(Regions[i])
Finish(i) == EndOf(Regions[i])

(* A multiple of n stays one when n is added or subtracted.                *)
LEMMA Multiples ==
  ASSUME NEW n \in Nat \ {0}, NEW a \in Int, NEW b \in Int, a % n = 0, b % n = 0
  PROVE  (a + b) % n = 0
<1> DEFINE p == a \div n
           q == b \div n
           r == (a + b) % n
           k == (a + b) \div n
<1>1. p \in Int /\ q \in Int /\ k \in Int /\ r \in 0 .. n - 1
  OBVIOUS
<1>2. a = n * p /\ b = n * q /\ a + b = n * k + r
  OBVIOUS
<1>3. r = n * (p + q - k)
  BY <1>1, <1>2
<1>4. p + q - k \in Int
  BY <1>1
<1>5. CASE p + q - k <= 0
  <2>1. n * (p + q - k) <= 0
    BY <1>4, <1>5
  <2> QED BY <1>1, <1>3, <2>1
<1>6. CASE p + q - k >= 1
  <2>1. n * (p + q - k) >= n
    BY <1>4, <1>6
  <2> QED BY <1>1, <1>3, <2>1
<1> QED BY <1>4, <1>5, <1>6

(* Rounded up or down to a multiple.                                       *)
LEMMA RoundedDown ==
  ASSUME NEW n \in Nat \ {0}, NEW a \in Int
  PROVE  /\ a % n \in 0 .. n - 1 /\ (a - (a % n)) % n = 0
         /\ (a + (n - (a % n))) % n = 0
<1> DEFINE p == a \div n
<1>1. p \in Int /\ a % n \in 0 .. n - 1 /\ a = n * p + (a % n)
  OBVIOUS
<1>2. \A k \in Int : (n * k) % n = 0
  <2> SUFFICES ASSUME NEW k \in Int PROVE (n * k) % n = 0
    OBVIOUS
  <2> DEFINE r == (n * k) % n
             q == (n * k) \div n
  <2>1. n * k \in Int
    OBVIOUS
  <2>2. q \in Int /\ r \in 0 .. n - 1 /\ n * k = n * q + r
    BY <2>1
  <2>3. r = n * (k - q)
    BY <2>2
  <2>4. k - q \in Int
    BY <2>2
  <2>5. CASE k - q <= 0
    <3>1. n * (k - q) <= 0
      BY <2>4, <2>5
    <3> QED BY <2>2, <2>3, <3>1
  <2>6. CASE k - q >= 1
    <3>1. n * (k - q) >= n
      BY <2>4, <2>6
    <3> QED BY <2>2, <2>3, <3>1
  <2> QED BY <2>4, <2>5, <2>6
<1>3. a - (a % n) = n * p /\ a + (n - (a % n)) = n * (p + 1)
  BY <1>1
<1>4. p + 1 \in Int
  BY <1>1
<1> HIDE DEF p
<1> QED BY <1>1, <1>2, <1>3, <1>4

(* Aligned rounds up to a multiple of portBYTE_ALIGNMENT.                  *)
LEMMA AlignedUp ==
  ASSUME Parameters, NEW n \in Nat
  PROVE  Aligned(n) \in Nat /\ Aligned(n) >= n /\ Aligned(n) % ALIGN = 0
<1>1. ALIGN \in Nat \ {0}
  BY DEF Parameters
<1> DEFINE m == n % ALIGN
<1>2. n \in Int
  OBVIOUS
<1>3. m \in 0 .. ALIGN - 1 /\ (n + (ALIGN - m)) % ALIGN = 0
  BY ONLY <1>1, <1>2, RoundedDown
<1>4. Aligned(n) = IF m = 0 THEN n ELSE n + (ALIGN - m)
  BY DEF Aligned
<1>5. m = 0 => n % ALIGN = 0
  OBVIOUS
<1> HIDE DEF m
<1> QED BY <1>1, <1>3, <1>4, <1>5

(* The regions follow each other.                                          *)
LEMMA RegionFacts ==
  ASSUME Parameters
  PROVE  /\ DOMAIN Regions = 1 .. Len(Regions) /\ Len(Regions) \in Nat \ {0}
         /\ First = Begin(1) /\ End = Finish(Len(Regions))
         /\ \A i \in DOMAIN Regions :
              /\ Begin(i) \in Nat \ {0} /\ Finish(i) \in Nat
              /\ Begin(i) + 2 * HEADER <= Finish(i)
              /\ Begin(i) % ALIGN = 0 /\ Finish(i) % ALIGN = 0
         /\ \A i, j \in DOMAIN Regions : i < j => Finish(i) + HEADER <= Begin(j)
         /\ Links = {Finish(i) : i \in 1 .. Len(Regions) - 1}
<1>1. ALIGN \in Nat \ {0} /\ HEADER \in Nat \ {0}
  BY DEF Parameters
<1>2. DOMAIN Regions = 1 .. Len(Regions) /\ Len(Regions) \in Nat \ {0}
  BY DEF Parameters
<1>3. \A i \in DOMAIN Regions : Regions[i] \in [at : Nat \ {0}, size : Nat]
  <2> DEFINE S == [at : Nat \ {0}, size : Nat]
  <2>1. Regions \in Seq(S)
    BY DEF Parameters
  <2> HIDE DEF S
  <2>2. \A i \in DOMAIN Regions : Regions[i] \in S
    BY ONLY <1>2, <2>1
  <2> QED BY <2>2 DEF S
<1>4. ASSUME NEW i \in DOMAIN Regions
      PROVE  /\ Begin(i) \in Nat /\ Begin(i) >= Regions[i].at /\ Begin(i) % ALIGN = 0
             /\ Finish(i) \in Int /\ Finish(i) % ALIGN = 0
  <2>1. Begin(i) \in Nat /\ Begin(i) >= Regions[i].at /\ Begin(i) % ALIGN = 0
    BY <1>3, AlignedUp DEF Begin, FirstOf
  <2> DEFINE top == Regions[i].at + Regions[i].size - HEADER
  <2>2. top \in Int
    BY <1>1, <1>3
  <2>3. top % ALIGN \in 0 .. ALIGN - 1 /\ (top - (top % ALIGN)) % ALIGN = 0
    BY <1>1, <2>2, RoundedDown
  <2>4. Finish(i) = top - (top % ALIGN)
    BY DEF Finish, EndOf
  <2> QED BY <2>1, <2>2, <2>3, <2>4
<1>5. \A i \in DOMAIN Regions : Begin(i) + 2 * HEADER <= Finish(i)
  BY DEF Parameters, Begin, Finish
<1>6. \A i, j \in DOMAIN Regions : i < j => Finish(i) + HEADER <= Regions[j].at
  BY DEF Parameters, Finish
<1>7. \A i, j \in DOMAIN Regions : i < j => Finish(i) + HEADER <= Begin(j)
  BY <1>1, <1>3, <1>4, <1>6
<1>8. \A i \in DOMAIN Regions : Begin(i) # 0 /\ Finish(i) \in Nat
  BY <1>1, <1>3, <1>4, <1>5
<1>9. First = Begin(1) /\ End = Finish(Len(Regions))
  BY DEF First, End, Begin, Finish
<1>10. Links = {Finish(i) : i \in 1 .. Len(Regions) - 1}
  BY DEF Links, Finish
<1> QED BY <1>2, <1>4, <1>5, <1>7, <1>8, <1>9, <1>10

(* Where the regions lie: aligned, one above the other, each ending with a *)
(* header, so that an address is in one of them only.                      *)
LEMMA Places ==
  ASSUME Parameters
  PROVE  /\ First \in Nat /\ First > 0 /\ End \in Nat /\ End \notin Links /\ HEADER \in Nat /\ HEADER > 0
         /\ First % ALIGN = 0 /\ End % ALIGN = 0
         /\ \A i \in DOMAIN Regions :
              /\ Begin(i) \in Nat /\ Finish(i) \in Nat /\ First <= Begin(i) /\ Finish(i) <= End
              /\ Begin(i) + 2 * HEADER <= Finish(i) /\ Begin(i) % ALIGN = 0 /\ Finish(i) % ALIGN = 0
         /\ \A i, j \in DOMAIN Regions, x \in Int :
              Begin(i) <= x /\ x <= Finish(i) /\ Begin(j) <= x /\ x <= Finish(j) => i = j
         /\ \A l \in Links : l \in Nat /\ l < End /\ \E i \in DOMAIN Regions : l = Finish(i)
         /\ \A l \in Links, i \in DOMAIN Regions : l < Begin(i) \/ l >= Finish(i)
<1>1. HEADER \in Nat /\ HEADER > 0
  BY DEF Parameters
<1>2. \A i \in DOMAIN Regions : 1 <= i /\ i <= Len(Regions) /\ i \in Nat
  BY RegionFacts
<1>3. 1 \in DOMAIN Regions /\ Len(Regions) \in DOMAIN Regions
  BY RegionFacts
<1>4. \A i, j \in DOMAIN Regions : i < j => Finish(i) + HEADER <= Begin(j)
  BY RegionFacts
<1>5. \A i \in DOMAIN Regions :
        /\ Begin(i) \in Nat /\ Finish(i) \in Nat /\ Begin(i) > 0
        /\ Begin(i) + 2 * HEADER <= Finish(i) /\ Begin(i) % ALIGN = 0 /\ Finish(i) % ALIGN = 0
  BY RegionFacts
<1>6. \A i \in DOMAIN Regions : First <= Begin(i) /\ Finish(i) <= End
  <2> SUFFICES ASSUME NEW i \in DOMAIN Regions PROVE First <= Begin(i) /\ Finish(i) <= End
    OBVIOUS
  <2>1. First = Begin(1) /\ End = Finish(Len(Regions))
    BY RegionFacts
  <2>2. i = 1 \/ 1 < i
    BY <1>2
  <2>3. i = Len(Regions) \/ i < Len(Regions)
    BY <1>2, RegionFacts
  <2> QED BY <1>1, <1>3, <1>4, <1>5, <2>1, <2>2, <2>3
<1>7. ASSUME NEW i \in DOMAIN Regions, NEW j \in DOMAIN Regions, NEW x \in Int,
             Begin(i) <= x, x <= Finish(i), Begin(j) <= x, x <= Finish(j)
      PROVE  i = j
  <2>1. i < j \/ j < i \/ i = j
    BY <1>2
  <2> QED BY <1>1, <1>4, <1>5, <1>7, <2>1
<1>8. \A l \in Links : \E i \in DOMAIN Regions : i < Len(Regions) /\ l = Finish(i)
  BY RegionFacts
<1>9. \A l \in Links : l \in Nat /\ l < End
  BY <1>1, <1>3, <1>4, <1>5, <1>8, RegionFacts
<1>10. ASSUME NEW l \in Links, NEW i \in DOMAIN Regions PROVE l < Begin(i) \/ l >= Finish(i)
  <2>1. PICK j \in DOMAIN Regions : l = Finish(j)
    BY <1>8
  <2>2. SUFFICES ASSUME Begin(i) <= l, l < Finish(i) PROVE FALSE
    BY <1>5, <1>9
  <2>3. Begin(j) <= l
    BY <1>1, <1>5, <2>1
  <2>4. i = j
    BY <1>5, <1>7, <1>9, <2>1, <2>2, <2>3
  <2> QED BY <2>1, <2>2, <2>4, <1>9
<1>11. First \in Nat /\ First > 0 /\ End \in Nat /\ First % ALIGN = 0 /\ End % ALIGN = 0
  BY <1>3, <1>5, RegionFacts
<1>12. End \notin Links
  BY <1>9, <1>11
<1> QED BY <1>1, <1>5, <1>6, <1>7, <1>8, <1>9, <1>10, <1>11, <1>12

-----------------------------------------------------------------------------
(* The headers, also in between two steps of a call.                       *)

Within(h) == DOMAIN h.block \ {End}
Behind(h, b) == b + h.block[b].size
Header == [size : Nat, next : Nat, used : BOOLEAN]

(* There is a header at every end of a region that was not swallowed.      *)
Shape(h) ==
  /\ h = [start |-> h.start, block |-> h.block, free |-> h.free, least |-> h.least]
  /\ End \in DOMAIN h.block /\ DOMAIN h.block \subseteq First .. End
  /\ \A b \in DOMAIN h.block : h.block[b] \in Header
  /\ h.block[End] = [size |-> 0, next |-> NULL, used |-> FALSE]
  /\ \A b \in Within(h) :
       IF b \in Links THEN b \in Listed(h) /\ h.block[b].size = 0 ELSE h.block[b].size > 0

(* The blocks cover the regions, each from its beginning to its end.       *)
Tiled(h) ==
  /\ \A i \in DOMAIN Regions : Begin(i) \in DOMAIN h.block
  /\ \A b, c \in DOMAIN h.block : b < c => Behind(h, b) <= c
  /\ \A b \in Within(h) : \E i \in DOMAIN Regions : Begin(i) <= b /\ Behind(h, b) <= Finish(i)
  /\ \A b \in Within(h) : Behind(h, b) \in DOMAIN h.block \cup Links

(* The list leads upwards through the blocks whose pointer is not cleared, *)
(* and none of these ends where another begins.                            *)
Linked(h) ==
  /\ \A p \in Listed(h) \cup {XSTART} :
       /\ p < NextFree(h, p) /\ NextFree(h, p) \in Listed(h) \cup {End}
       /\ \A b \in Listed(h) : b <= p \/ b >= NextFree(h, p)
  /\ \A p \in Listed(h) : ~h.block[p].used /\ Behind(h, p) \notin Listed(h) \ Links

Good(h) == Shape(h) /\ Tiled(h) /\ Linked(h)

(* No byte is in two hands, or in none: who has each block that is not in  *)
(* the list.                                                               *)
Owned(h, f, s) ==
  /\ \A r \in s :
       /\ r.at \in Int /\ r.size \in Nat
       /\ r.at - HEADER \in Within(h) \ Listed(h) /\ h.block[r.at - HEADER].used
       /\ r.at + r.size <= Behind(h, r.at - HEADER)
       /\ \A o \in s : o.at = r.at => o = r
  /\ \A t \in Callers : f[t] # NULL =>
       /\ f[t] \in Within(h) \ Listed(h) /\ ~h.block[f[t]].used
       /\ \A u \in Callers : f[u] = f[t] => u = t
  /\ \A b \in Within(h) \ Listed(h) :
       (\E t \in Callers : f[t] = b) \/ (\E r \in s : r.at = b + HEADER)

AllAligned(h) == \A b \in DOMAIN h.block : b % ALIGN = 0

Sound(h, f, s) == Good(h) /\ AllAligned(h) /\ Owned(h, f, s)

(* What these say, without the pointers.                                   *)
LEMMA GoodFacts ==
  ASSUME Parameters, NEW h, Good(h)
  PROVE  /\ End \in DOMAIN h.block /\ End \notin Listed(h) /\ XSTART \notin DOMAIN h.block
         /\ \A b \in DOMAIN h.block :
              /\ b \in Nat /\ First <= b /\ b <= End /\ (b # End => b < End)
              /\ h.block[b] \in Header
              /\ h.block[b].size \in Nat /\ h.block[b].next \in Nat /\ h.block[b].used \in BOOLEAN
              /\ Behind(h, b) \in Nat
         /\ Listed(h) \subseteq Within(h)
         /\ \A b \in Within(h) \ Links : h.block[b].size > 0
         /\ \A b \in Within(h) : b \in Links => b \in Listed(h) /\ h.block[b].size = 0
<1>1. First \in Nat /\ First > 0 /\ End \in Nat
  BY Places
<1>2. DOMAIN h.block \subseteq First .. End
  BY DEF Good, Shape
<1>3. \A b \in DOMAIN h.block : h.block[b] \in Header
  BY DEF Good, Shape
<1>4. End \in DOMAIN h.block /\ End \notin Listed(h)
  BY DEF Good, Shape, Listed
<1>5. Listed(h) \subseteq Within(h)
  BY <1>4 DEF Listed, Within
<1>6. \A b \in Within(h) \ Links : h.block[b].size > 0
  BY DEF Good, Shape
<1>7. \A b \in Within(h) : b \in Links => b \in Listed(h) /\ h.block[b].size = 0
  BY DEF Good, Shape
<1>8. XSTART \notin DOMAIN h.block
  BY <1>1, <1>2 DEF XSTART
<1> QED BY <1>1, <1>2, <1>3, <1>4, <1>5, <1>6, <1>7, <1>8 DEF Header, Behind

(* Two blocks with a common point lie in one region.                       *)
LEMMA SameRegion ==
  ASSUME Parameters, NEW i \in DOMAIN Regions, NEW j \in DOMAIN Regions, NEW x \in Int,
         Begin(i) <= x, x <= Finish(i), Begin(j) <= x, x <= Finish(j)
  PROVE  i = j
BY Places

-----------------------------------------------------------------------------
(* The sum of what the blocks of the list hold, as one would count it from *)
(* below: what there is up to each address.                                *)

Weights(h) == [x \in Int |-> IF x \in Listed(h) THEN h.block[x].size ELSE 0]

SumsTo(w, n) ==
  \E below \in [Int -> Nat] :
    /\ below[First] = 0 /\ below[End] = n
    /\ \A x \in Int : below[x + 1] = below[x] + w[x]
    /\ \A x, y \in Int : x <= y => below[x] <= below[y]

(* A weight is a number of bytes.                                          *)
LEMMA WeightsTyped ==
  ASSUME Parameters, NEW h, Good(h)
  PROVE  Weights(h) \in [Int -> Nat]
<1>1. \A x \in Listed(h) : h.block[x].size \in Nat
  BY GoodFacts DEF Within
<1> QED BY <1>1 DEF Weights

(* One of the weights changes.                                             *)
LEMMA SumMoves ==
  ASSUME Parameters, NEW w \in [Int -> Nat], NEW n \in Int, SumsTo(w, n),
         NEW b \in Int, First <= b, b < End, NEW m \in Nat
  PROVE  SumsTo([w EXCEPT ![b] = m], n - w[b] + m)
<1>1. PICK below \in [Int -> Nat] :
        /\ below[First] = 0 /\ below[End] = n
        /\ \A x \in Int : below[x + 1] = below[x] + w[x]
        /\ \A x, y \in Int : x <= y => below[x] <= below[y]
  BY DEF SumsTo
<1> DEFINE v == [w EXCEPT ![b] = m]
           d == m - w[b]
           now == [x \in Int |-> IF x > b THEN below[x] + d ELSE below[x]]
<1>2. d \in Int /\ w[b] \in Nat /\ w[b] + d = m /\ \A x \in Int : v[x] = IF x = b THEN m ELSE w[x]
  OBVIOUS
<1>3. First \in Int /\ End \in Int
  BY Places
<1>4. \A x \in Int : now[x] = IF x > b THEN below[x] + d ELSE below[x]
  OBVIOUS
<1>5. below[b + 1] = below[b] + w[b] /\ b + 1 \in Int /\ below[b] \in Nat
  BY <1>1
<1>6. \A x \in Int : below[x] \in Nat
  BY <1>1
<1>7. DOMAIN now = Int
  OBVIOUS
<1> HIDE DEF v, d, now
<1>8. \A x \in Int : x > b => below[x] >= below[b] + w[b]
  BY <1>1, <1>5, <1>6
<1>9. \A x \in Int : now[x] \in Nat
  <2> SUFFICES ASSUME NEW x \in Int PROVE now[x] \in Nat
    OBVIOUS
  <2>1. CASE x > b
    <3>1. below[x] + d >= below[b] + m /\ below[x] \in Nat
      BY <1>2, <1>5, <1>6, <1>8, <2>1
    <3> QED BY <1>2, <1>4, <1>5, <2>1, <3>1
  <2>2. CASE ~(x > b)
    BY <1>4, <1>6, <2>2
  <2> QED BY <2>1, <2>2
<1>10. now \in [Int -> Nat]
  <2>1. now = [x \in Int |-> now[x]]
    BY DEF now
  <2> QED BY <1>9, <2>1
<1>11. now[First] = 0 /\ now[End] = n - w[b] + m
  <2>1. now[First] = below[First]
    BY <1>3, <1>4
  <2>2. now[End] = below[End] + d
    BY <1>3, <1>4
  <2>3. below[First] = 0 /\ below[End] = n
    BY <1>1
  <2>4. n + d = n - w[b] + m
    BY <1>2
  <2> QED BY <2>1, <2>2, <2>3, <2>4
<1>12. ASSUME NEW x \in Int PROVE now[x + 1] = now[x] + v[x]
  <2>0. x + 1 \in Int /\ w[x] \in Nat
    OBVIOUS
  <2>1. below[x + 1] = below[x] + w[x]
    BY <1>1
  <2>2. CASE x = b
    BY <1>2, <1>4, <1>5, <1>6, <2>0, <2>1, <2>2
  <2>3. CASE x < b
    BY <1>2, <1>4, <1>6, <2>0, <2>1, <2>3
  <2>4. CASE x > b
    BY <1>2, <1>4, <1>6, <2>0, <2>1, <2>4
  <2> QED BY <2>2, <2>3, <2>4
<1>13. ASSUME NEW x \in Int, NEW y \in Int, x <= y PROVE now[x] <= now[y]
  <2>1. below[x] <= below[y] /\ below[x] \in Nat /\ below[y] \in Nat
    BY <1>1, <1>13
  <2>2. CASE x <= b /\ y > b
    <3>1. below[x] <= below[b]
      BY <1>1, <2>2
    <3>2. below[y] + d >= below[b] + m
      BY <1>2, <1>5, <1>8, <2>1, <2>2
    <3> QED BY <1>2, <1>4, <1>5, <2>1, <2>2, <3>1, <3>2
  <2>3. CASE ~(x <= b /\ y > b)
    BY <1>2, <1>4, <1>13, <2>1, <2>3
  <2> QED BY <2>2, <2>3
<1>14. SumsTo(v, n - w[b] + m)
  BY <1>10, <1>11, <1>12, <1>13 DEF SumsTo
<1> QED BY <1>14 DEF v

(* The same with names for what it ends in.                                *)
LEMMA SumMoved ==
  ASSUME Parameters, NEW w \in [Int -> Nat], NEW n \in Int, SumsTo(w, n),
         NEW b \in Int, First <= b, b < End, NEW m \in Nat,
         NEW v, v = [w EXCEPT ![b] = m], NEW k, k = n - w[b] + m
  PROVE  SumsTo(v, k)
BY SumMoves

(* So is their sum.                                                        *)
LEMMA SumTyped ==
  ASSUME Parameters, NEW w, NEW n, SumsTo(w, n)
  PROVE  n \in Nat
<1>1. End \in Int
  BY Places
<1> QED BY <1>1 DEF SumsTo

(* No block of the list is larger than all of them.                        *)
LEMMA SumCovers ==
  ASSUME Parameters, NEW h, Good(h), NEW n \in Int, SumsTo(Weights(h), n), NEW b \in Listed(h)
  PROVE  h.block[b].size <= n
<1>1. PICK below \in [Int -> Nat] :
        /\ below[End] = n
        /\ \A x \in Int : below[x + 1] = below[x] + Weights(h)[x]
        /\ \A x, y \in Int : x <= y => below[x] <= below[y]
  BY DEF SumsTo
<1>2. b \in Nat /\ b + 1 \in Int /\ End \in Int /\ b + 1 <= End /\ h.block[b].size \in Nat
  BY GoodFacts, Places DEF Within
<1>3. Weights(h)[b] = h.block[b].size
  BY <1>2 DEF Weights
<1>4. below[b + 1] = below[b] + h.block[b].size /\ below[b] \in Nat
  <2>1. b \in Int
    BY <1>2
  <2>2. below[b + 1] = below[b] + Weights(h)[b]
    BY <1>1, <2>1
  <2> QED BY <1>3, <2>1, <2>2
<1>5. below[b + 1] <= below[End]
  BY <1>1, <1>2
<1>6. below[End] = n
  BY <1>1
<1> QED BY <1>2, <1>4, <1>5, <1>6

(* A change that leaves the list and its sizes leaves the sum.             *)
LEMMA SameWeights ==
  ASSUME NEW h, NEW g, Listed(g) = Listed(h), \A a \in Listed(h) : g.block[a].size = h.block[a].size
  PROVE  Weights(g) = Weights(h)
BY DEF Weights

-----------------------------------------------------------------------------
(* prvInsertBlockIntoFreeList: what it does to the headers, then that they *)
(* stay good.                                                              *)
LEMMA InsertFields ==
  ASSUME NEW h, Shape(h), NEW p, NEW b, NEW g, g = InsertBlock(h, p, b)
  PROVE  LET joins == p # XSTART /\ p + h.block[p].size = b
             at == IF joins THEN p ELSE b
             size == IF joins THEN h.block[p].size + h.block[b].size ELSE h.block[b].size
             behind == NextFree(h, p)
             touches == at + size = behind /\ behind # End
             gone == (IF joins THEN {b} ELSE {}) \cup (IF touches THEN {behind} ELSE {})
             merged == [size |-> IF touches THEN size + h.block[behind].size ELSE size,
                        next |-> IF touches THEN h.block[behind].next ELSE behind,
                        used |-> FALSE]
         IN  /\ g = [start |-> g.start, block |-> g.block, free |-> g.free, least |-> g.least]
             /\ g.start = (IF p = XSTART THEN b ELSE h.start)
             /\ g.free = h.free /\ g.least = h.least
             /\ DOMAIN g.block = DOMAIN h.block \ gone
             /\ \A a \in DOMAIN g.block :
                  g.block[a] = IF a = at THEN merged
                               ELSE IF a = p THEN [h.block[a] EXCEPT !.next = b] ELSE h.block[a]
<1> DEFINE joins == p # XSTART /\ p + h.block[p].size = b
           at == IF joins THEN p ELSE b
           size == IF joins THEN h.block[p].size + h.block[b].size ELSE h.block[b].size
           behind == NextFree(h, p)
           touches == at + size = behind /\ behind # End
           gone == (IF joins THEN {b} ELSE {}) \cup (IF touches THEN {behind} ELSE {})
           merged == [size |-> IF touches THEN size + h.block[behind].size ELSE size,
                      next |-> IF touches THEN h.block[behind].next ELSE behind,
                      used |-> FALSE]
           blocks == [a \in DOMAIN h.block \ gone |->
                        IF a = at THEN merged
                        ELSE IF a = p THEN [h.block[a] EXCEPT !.next = b] ELSE h.block[a]]
<1>1. g = [h EXCEPT !.start = IF p = XSTART THEN b ELSE @, !.block = blocks]
  BY DEF InsertBlock
<1>2. DOMAIN blocks = DOMAIN h.block \ gone
      /\ \A a \in DOMAIN blocks :
           blocks[a] = IF a = at THEN merged
                       ELSE IF a = p THEN [h.block[a] EXCEPT !.next = b] ELSE h.block[a]
  OBVIOUS
<1>3. h = [start |-> h.start, block |-> h.block, free |-> h.free, least |-> h.least]
  BY DEF Shape
<1>4. /\ g = [start |-> g.start, block |-> g.block, free |-> g.free, least |-> g.least]
      /\ g.start = (IF p = XSTART THEN b ELSE h.start)
      /\ g.free = h.free /\ g.least = h.least /\ g.block = blocks
  <2> HIDE DEF blocks
  <2>1. h.start = h.start
    OBVIOUS
  <2> DEFINE s == h.start
             k == h.block
             f == h.free
             l == h.least
  <2>2. h = [start |-> s, block |-> k, free |-> f, least |-> l]
    BY <1>3
  <2> HIDE DEF s, k, f, l
  <2>3. g = [start |-> IF p = XSTART THEN b ELSE s, block |-> blocks, free |-> f, least |-> l]
    BY <1>1, <2>2
  <2> QED BY <2>2, <2>3
<1> QED BY <1>2, <1>4

(* prvInsertBlockIntoFreeList, all eight cases of it (from xStart or from  *)
(* a block, joined with the one before, with the one behind): the list     *)
(* stays as it should be, the blocks outside it stay, and the count grows  *)
(* by what came in.                                                        *)
LEMMA InsertGood ==
  ASSUME Parameters, NEW h, Good(h), NEW b \in Within(h), b \notin Listed(h), b \notin Links,
         NEW p \in Listed(h) \cup {XSTART}, Precedes(h, p, b),
         NEW g, g = InsertBlock(h, p, b)
  PROVE  /\ Good(g)
         /\ DOMAIN g.block \subseteq DOMAIN h.block
         /\ \A a \in Within(h) \ Listed(h) : a # b =>
              a \in Within(g) \ Listed(g) /\ g.block[a] = h.block[a]
         /\ \A a \in Within(g) : a \in Listed(g) \/ (a \notin Listed(h) /\ a # b)
         /\ \A a \in Listed(g) : a \in Listed(h) \/ a = b
         /\ g.free = h.free /\ g.least = h.least
         /\ \A n \in Int : SumsTo(Weights(h), n) => SumsTo(Weights(g), n + h.block[b].size)
<1> DEFINE joins == p # XSTART /\ p + h.block[p].size = b
           at == IF joins THEN p ELSE b
           size == IF joins THEN h.block[p].size + h.block[b].size ELSE h.block[b].size
           behind == NextFree(h, p)
           touches == at + size = behind /\ behind # End
           gone == (IF joins THEN {b} ELSE {}) \cup (IF touches THEN {behind} ELSE {})
           merged == [size |-> IF touches THEN size + h.block[behind].size ELSE size,
                      next |-> IF touches THEN h.block[behind].next ELSE behind,
                      used |-> FALSE]
<1>1. /\ End \in DOMAIN h.block /\ End \notin Listed(h) /\ XSTART \notin DOMAIN h.block
      /\ \A a \in DOMAIN h.block :
           /\ a \in Nat /\ First <= a /\ a <= End /\ (a # End => a < End)
           /\ h.block[a] \in Header
           /\ h.block[a].size \in Nat /\ h.block[a].next \in Nat /\ h.block[a].used \in BOOLEAN
           /\ Behind(h, a) \in Nat
      /\ Listed(h) \subseteq Within(h)
      /\ \A a \in Within(h) \ Links : h.block[a].size > 0
      /\ \A a \in Within(h) : a \in Links => a \in Listed(h) /\ h.block[a].size = 0
  BY GoodFacts
<1>2. /\ g = [start |-> g.start, block |-> g.block, free |-> g.free, least |-> g.least]
      /\ g.start = (IF p = XSTART THEN b ELSE h.start)
      /\ g.free = h.free /\ g.least = h.least
      /\ DOMAIN g.block = DOMAIN h.block \ gone
      /\ \A a \in DOMAIN g.block :
           g.block[a] = IF a = at THEN merged
                        ELSE IF a = p THEN [h.block[a] EXCEPT !.next = b] ELSE h.block[a]
  BY InsertFields DEF Good
\* The list of h.
<1>3. \A q \in Listed(h) \cup {XSTART} :
        /\ q < NextFree(h, q) /\ NextFree(h, q) \in Listed(h) \cup {End}
        /\ \A c \in Listed(h) : c <= q \/ c >= NextFree(h, q)
  BY DEF Good, Linked
<1>4. \A q \in Listed(h) : ~h.block[q].used /\ Behind(h, q) \notin Listed(h) \ Links
  BY DEF Good, Linked
<1>5. \A c, d \in DOMAIN h.block : c < d => Behind(h, c) <= d
  BY DEF Good, Tiled
<1>6. /\ First \in Nat /\ First > 0 /\ XSTART = -1 /\ NULL = 0
      /\ b \in DOMAIN h.block /\ b # End /\ b \in Nat
      /\ \A a : a \in Within(h) <=> a \in DOMAIN h.block /\ a # End
      /\ \A a : a \in Within(g) <=> a \in DOMAIN g.block /\ a # End
  BY <1>1, Places DEF Within, XSTART, NULL
<1>7. /\ p \in Int /\ p < b /\ (p # XSTART => p \in Listed(h) /\ p \in DOMAIN h.block /\ p # End)
      /\ behind \in Listed(h) \cup {End} /\ behind \in DOMAIN h.block /\ behind \in Nat
      /\ b < behind /\ p < behind /\ First <= b
      /\ (p # XSTART => Behind(h, p) <= b) /\ Behind(h, b) <= behind
      /\ Behind(h, b) \in Nat /\ b < Behind(h, b)
  <2>1. p < b /\ behind >= b
    BY DEF Precedes
  <2>2. p \in Int /\ (p # XSTART => p \in Listed(h) /\ p \in DOMAIN h.block /\ p # End)
    BY <1>1, <1>6
  <2>3. behind \in Listed(h) \cup {End} /\ behind \in DOMAIN h.block /\ behind \in Nat
    BY <1>1, <1>3, <1>6
  <2>4. b < behind
    BY <1>1, <1>6, <2>1, <2>3
  <2>5. p < behind
    BY <2>1, <2>2, <2>3, <2>4, <1>6
  <2>6. (p # XSTART => Behind(h, p) <= b) /\ Behind(h, b) <= behind
    BY <1>5, <1>6, <2>1, <2>2, <2>3, <2>4
  <2>7. Behind(h, b) \in Nat /\ b < Behind(h, b)
    BY <1>1, <1>6 DEF Behind
  <2> QED BY <1>1, <1>6, <2>1, <2>2, <2>3, <2>4, <2>5, <2>6, <2>7
<1>8. /\ at \in Nat /\ at <= b /\ at \in DOMAIN h.block /\ at # End /\ at \notin Links
      /\ at \notin gone /\ at \in DOMAIN g.block /\ p <= at
      /\ at + size = Behind(h, b) /\ size \in Nat /\ size > 0
      /\ (joins => Behind(h, p) = b /\ at = p /\ p # XSTART) /\ (~joins => at = b /\ p # at)
      /\ (p # XSTART /\ ~joins => Behind(h, p) # b)
      /\ (touches => Behind(h, b) = behind /\ behind # End /\ behind \in Listed(h))
      /\ (~touches => Behind(h, b) # behind \/ behind = End)
  <2>1. p # XSTART => p + h.block[p].size = Behind(h, p)
    BY DEF Behind
  <2>2. b + h.block[b].size = Behind(h, b) /\ h.block[b].size \in Nat /\ h.block[b].size > 0
    BY <1>1, <1>6 DEF Behind
  <2>3. CASE joins
    <3>1. h.block[p].size \in Nat /\ h.block[p].size > 0 /\ p + h.block[p].size = b
      BY <1>1, <1>6, <1>7, <2>3
    <3>2. p \notin Links
      <4>1. p \in Within(h)
        BY <1>6, <1>7, <2>3
      <4> QED BY <1>1, <3>1, <4>1
    <3>3. at = p /\ size = h.block[p].size + h.block[b].size /\ at + size = Behind(h, b)
      BY <2>2, <2>3, <3>1, <1>6, <1>7
    <3>4. size \in Nat /\ size > 0
      BY <2>2, <3>1, <3>3
    <3>5. p \in Nat /\ p # b /\ p # behind
      BY <1>1, <1>6, <1>7, <2>3
    <3> QED BY <1>1, <1>2, <1>6, <1>7, <2>1, <2>2, <2>3, <3>1, <3>2, <3>3, <3>4, <3>5
  <2>4. CASE ~joins
    <3>1. at = b /\ size = h.block[b].size
      BY <2>4
    <3> QED BY <1>1, <1>2, <1>6, <1>7, <2>1, <2>2, <2>4, <3>1
  <2> QED BY <2>3, <2>4
<1>9. /\ \A a \in DOMAIN h.block : a \in DOMAIN g.block \/ (joins /\ a = b) \/ (touches /\ a = behind)
      /\ DOMAIN g.block \subseteq DOMAIN h.block
      /\ (joins => b \notin DOMAIN g.block) /\ (touches => behind \notin DOMAIN g.block)
  BY <1>2
<1>10. /\ Behind(g, at) \in Nat /\ g.block[at].size \in Nat /\ g.block[at].size > 0
       /\ g.block[at].used = FALSE
       /\ (touches => Behind(g, at) = Behind(h, behind) /\ g.block[at].next = h.block[behind].next)
       /\ (~touches => Behind(g, at) = Behind(h, b) /\ g.block[at].next = behind)
       /\ g.block[at] \in Header
  <2>1. g.block[at] = merged
    BY <1>2, <1>8
  <2>2. touches => /\ h.block[behind].size \in Nat /\ h.block[behind].next \in Nat
                   /\ Behind(h, behind) = behind + h.block[behind].size /\ at + size = behind
    BY <1>1, <1>7, <1>8 DEF Behind
  <2>3. Behind(g, at) = at + g.block[at].size
    BY DEF Behind
  <2> HIDE DEF at, size, behind, touches
  <2>4. at \in Nat /\ size \in Nat /\ size > 0 /\ at + size = Behind(h, b) /\ behind \in Nat
    BY <1>7, <1>8
  <2> QED BY <2>1, <2>2, <2>3, <2>4 DEF Header
<1>11. /\ \A a \in DOMAIN g.block : a # at =>
            /\ g.block[a].size = h.block[a].size /\ g.block[a].used = h.block[a].used
            /\ Behind(g, a) = Behind(h, a) /\ g.block[a] \in Header
            /\ (a # p => g.block[a] = h.block[a])
            /\ (a = p => g.block[a].next = b)
  <2> SUFFICES ASSUME NEW a \in DOMAIN g.block, a # at
               PROVE  /\ g.block[a].size = h.block[a].size /\ g.block[a].used = h.block[a].used
                      /\ Behind(g, a) = Behind(h, a) /\ g.block[a] \in Header
                      /\ (a # p => g.block[a] = h.block[a])
                      /\ (a = p => g.block[a].next = b)
    OBVIOUS
  <2>1. g.block[a] = IF a = p THEN [h.block[a] EXCEPT !.next = b] ELSE h.block[a]
    BY <1>2
  <2> DEFINE r == h.block[a]
  <2>2. r \in Header /\ b \in Nat
    BY <1>1, <1>6, <1>9
  <2>3. /\ [r EXCEPT !.next = b] \in Header /\ [r EXCEPT !.next = b].next = b
        /\ [r EXCEPT !.next = b].size = r.size /\ [r EXCEPT !.next = b].used = r.used
    <3> HIDE DEF r
    <3> QED BY <2>2 DEF Header
  <2> QED BY <2>1, <2>2, <2>3 DEF Behind
<1> HIDE DEF joins, at, size, behind, touches, gone, merged
\* Which blocks are in the list of g.
<1>12. \A a : a \in Listed(g) <=>
          a \in DOMAIN g.block /\ (a \in Listed(h) \/ a = b)
  <2> SUFFICES ASSUME NEW a \in DOMAIN g.block
               PROVE  g.block[a].next # NULL <=> a \in Listed(h) \/ a = b
    BY DEF Listed
  <2>1. CASE a = at
    <3>1. at = b \/ at \in Listed(h)
      BY <1>7, <1>8
    <3>2. behind # NULL
      BY <1>6, <1>7
    <3>3. touches => h.block[behind].next # NULL
      BY <1>8 DEF Listed
    <3> QED BY <1>10, <2>1, <3>1, <3>2, <3>3
  <2>2. CASE a # at /\ a = p
    <3>1. a # XSTART
      BY <1>1, <1>9
    <3>2. g.block[a].next = b /\ b # NULL /\ a \in Listed(h)
      BY <1>6, <1>7, <1>11, <2>2, <3>1
    <3> QED BY <3>2
  <2>3. CASE a # at /\ a # p
    <3>1. a # b
      BY <1>8, <1>9, <2>3
    <3> QED BY <1>9, <1>11, <2>3, <3>1 DEF Listed
  <2> QED BY <2>1, <2>2, <2>3
<1>13. Shape(g)
  <2>1. End \in DOMAIN g.block
    BY <1>1, <1>6, <1>8, <1>9
  <2>2. DOMAIN g.block \subseteq First .. End
    BY <1>9 DEF Good, Shape
  <2>3. g.block[End] = [size |-> 0, next |-> NULL, used |-> FALSE]
    <3>1. End # at /\ End # p
      BY <1>1, <1>7, <1>8, <1>6
    <3> QED BY <1>11, <2>1, <3>1 DEF Good, Shape
  <2>4. \A a \in DOMAIN g.block : g.block[a] \in Header
    BY <1>10, <1>11
  <2>5. ASSUME NEW a \in Within(g)
        PROVE  IF a \in Links THEN a \in Listed(g) /\ g.block[a].size = 0 ELSE g.block[a].size > 0
    <3>1. CASE a = at
      BY <1>8, <1>10, <3>1
    <3>2. CASE a # at
      BY <1>1, <1>6, <1>9, <1>11, <1>12, <3>2
    <3> QED BY <3>1, <3>2
  <2> QED BY <1>2, <2>1, <2>2, <2>3, <2>4, <2>5 DEF Shape
\* The regions that meet at b and behind it.
<1>14. PICK i \in DOMAIN Regions : Begin(i) <= b /\ Behind(h, b) <= Finish(i)
  BY <1>6 DEF Good, Tiled
<1>15. Begin(i) \in Nat /\ Finish(i) \in Nat
  BY Places
<1>16. joins => Begin(i) <= p
  <2> SUFFICES ASSUME joins PROVE Begin(i) <= p
    OBVIOUS
  <2>1. PICK j \in DOMAIN Regions : Begin(j) <= p /\ Behind(h, p) <= Finish(j)
    BY <1>6, <1>7, <1>8 DEF Good, Tiled
  <2>2. Begin(j) \in Nat /\ Finish(j) \in Nat /\ b \in Int /\ Begin(j) <= b /\ b <= Finish(j)
    BY <1>6, <1>7, <1>8, <2>1, Places
  <2>3. Begin(i) <= b /\ b <= Finish(i)
    BY <1>6, <1>7, <1>14, <1>15
  <2>4. i = j
    BY <2>2, <2>3, SameRegion
  <2> QED BY <2>1, <2>4
<1>17. touches => Behind(h, behind) <= Finish(i) /\ Begin(i) < behind
  <2> SUFFICES ASSUME touches PROVE Behind(h, behind) <= Finish(i) /\ Begin(i) < behind
    OBVIOUS
  <2>1. PICK j \in DOMAIN Regions : Begin(j) <= behind /\ Behind(h, behind) <= Finish(j)
    BY <1>6, <1>7, <1>8 DEF Good, Tiled
  <2>2. behind <= Behind(h, behind) /\ Behind(h, behind) \in Nat
    BY <1>1, <1>7 DEF Behind
  <2>3. Begin(j) \in Nat /\ Finish(j) \in Nat /\ behind \in Int /\ behind <= Finish(j)
    BY <1>7, <2>1, <2>2, Places
  <2>4. Begin(i) <= behind /\ behind <= Finish(i) /\ Begin(i) < behind
    BY <1>6, <1>7, <1>8, <1>14, <1>15
  <2>5. i = j
    BY <2>1, <2>3, <2>4, SameRegion
  <2> QED BY <2>1, <2>4, <2>5
<1>18. Begin(i) <= at /\ Behind(g, at) <= Finish(i)
  BY <1>8, <1>10, <1>14, <1>16, <1>17
<1>19. \A c, d \in DOMAIN g.block : c < d => Behind(g, c) <= d
  <2> SUFFICES ASSUME NEW c \in DOMAIN g.block, NEW d \in DOMAIN g.block, c < d
               PROVE  Behind(g, c) <= d
    OBVIOUS
  <2>1. CASE c # at
    BY <1>5, <1>9, <1>11, <2>1
  <2>2. CASE c = at
    <3>1. d \in Nat /\ d \in DOMAIN h.block /\ at < d
      BY <1>1, <1>9, <2>2
    <3>2. b < d
      BY <1>5, <1>6, <1>7, <1>8, <1>9, <3>1
    <3>3. Behind(h, b) <= d
      BY <1>5, <1>6, <3>1, <3>2
    <3>4. CASE ~touches
      BY <1>10, <2>2, <3>3, <3>4
    <3>5. CASE touches
      <4>1. behind < d
        BY <1>7, <1>8, <1>9, <3>1, <3>3, <3>5
      <4>2. Behind(h, behind) <= d
        BY <1>5, <1>7, <3>1, <4>1
      <4> QED BY <1>10, <2>2, <3>5, <4>2
    <3> QED BY <3>4, <3>5
  <2> QED BY <2>1, <2>2
<1>20. Tiled(g)
  <2>1. ASSUME NEW k \in DOMAIN Regions PROVE Begin(k) \in DOMAIN g.block
    <3>1. Begin(k) \in DOMAIN h.block /\ Begin(k) \in Nat /\ Begin(k) <= Finish(k) /\ Finish(k) \in Nat
      BY Places DEF Good, Tiled
    <3>2. joins => Begin(k) # b
      <4> SUFFICES ASSUME joins, Begin(k) = b PROVE FALSE
        OBVIOUS
      <4>1. b <= Finish(i)
        BY <1>6, <1>7, <1>14, <1>15
      <4>2. k = i
        BY <1>6, <1>14, <3>1, <4>1, SameRegion
      <4> QED BY <1>7, <1>8, <1>16, <4>2, <3>1
    <3>3. touches => Begin(k) # behind
      <4> SUFFICES ASSUME touches, Begin(k) = behind PROVE FALSE
        OBVIOUS
      <4>1. Begin(i) <= behind /\ behind <= Finish(i) /\ behind \in Int /\ behind <= Finish(k)
        BY <1>7, <1>8, <1>14, <1>17, <3>1, <1>15
      <4>2. k = i
        BY <3>1, <4>1, SameRegion
      <4> QED BY <1>7, <1>17, <4>2, <3>1
    <3> QED BY <1>9, <3>1, <3>2, <3>3
  <2>2. ASSUME NEW c \in Within(g)
        PROVE  \E k \in DOMAIN Regions : Begin(k) <= c /\ Behind(g, c) <= Finish(k)
    <3>1. CASE c = at
      BY <1>18, <3>1
    <3>2. CASE c # at
      BY <1>6, <1>9, <1>11, <3>2 DEF Good, Tiled
    <3> QED BY <3>1, <3>2
  <2>3. ASSUME NEW c \in Within(g) PROVE Behind(g, c) \in DOMAIN g.block \cup Links
    <3>0. c \in DOMAIN g.block /\ c \in DOMAIN h.block /\ c # End /\ c \in Nat
      BY <1>1, <1>6, <1>9
    <3>1. \A d \in DOMAIN h.block : d # End => Behind(h, d) \in DOMAIN h.block \cup Links
      BY <1>6 DEF Good, Tiled
    <3>2. CASE c = at /\ ~touches
      <4>1. Behind(g, c) = Behind(h, b) /\ Behind(h, b) # b /\ Behind(h, b) \in DOMAIN h.block \cup Links
        BY <1>6, <1>7, <1>10, <3>1, <3>2
      <4> QED BY <1>9, <3>2, <4>1
    <3>3. CASE c = at /\ touches
      <4>1. Behind(g, c) = Behind(h, behind) /\ Behind(h, behind) \in DOMAIN h.block \cup Links
        BY <1>7, <1>8, <1>10, <3>1, <3>3
      <4>2. behind <= Behind(h, behind)
        BY <1>1, <1>7 DEF Behind
      <4>3. behind = Behind(h, behind) => behind \in Links
        <5>1. h.block[behind].size \in Nat /\ Behind(h, behind) = behind + h.block[behind].size
          BY <1>1, <1>7 DEF Behind
        <5>2. behind \in Within(h)
          BY <1>6, <1>7, <1>8, <3>3
        <5> QED BY <1>1, <1>7, <5>1, <5>2
      <4>4. Behind(h, behind) # b
        BY <1>6, <1>7, <4>2, <1>1
      <4> QED BY <1>9, <4>1, <4>3, <4>4
    <3>4. CASE c # at
      <4>1. Behind(g, c) = Behind(h, c) /\ Behind(h, c) \in DOMAIN h.block \cup Links
        BY <1>11, <3>0, <3>1, <3>4
      <4>2. c < at => Behind(h, c) <= at
        BY <1>8, <1>11, <1>19, <3>0, <3>4
      <4>3. c > at => c > b /\ (touches => c > behind)
        <5>1. c > at => c >= Behind(g, at)
          BY <1>8, <1>19, <3>0
        <5>2. touches => behind <= Behind(h, behind)
          BY <1>1, <1>7 DEF Behind
        <5> QED BY <1>1, <1>6, <1>7, <1>8, <1>9, <1>10, <3>0, <5>1, <5>2
      <4>4. c <= Behind(h, c) /\ Behind(h, c) \in Nat
        BY <1>1, <3>0 DEF Behind
      <4>5. joins => Behind(h, c) # b
        BY <1>6, <1>7, <1>8, <3>0, <3>4, <4>2, <4>3, <4>4
      <4>6. touches => Behind(h, c) # behind
        BY <1>6, <1>7, <1>8, <3>0, <3>4, <4>2, <4>3, <4>4
      <4> QED BY <1>9, <4>1, <4>5, <4>6
    <3> QED BY <3>2, <3>3, <3>4
  <2> QED BY <1>19, <2>1, <2>2, <2>3 DEF Tiled
<1>21. \A q \in Listed(g) \cup {XSTART} :
          NextFree(g, q) = IF q = at THEN IF touches THEN NextFree(h, behind) ELSE behind
                           ELSE IF q = p THEN b ELSE NextFree(h, q)
  <2> SUFFICES ASSUME NEW q \in Listed(g) \cup {XSTART}
               PROVE  NextFree(g, q) = IF q = at THEN IF touches THEN NextFree(h, behind) ELSE behind
                                       ELSE IF q = p THEN b ELSE NextFree(h, q)
    OBVIOUS
  <2>1. CASE q = XSTART
    BY <1>2, <1>6, <1>8, <2>1 DEF NextFree
  <2>2. CASE q # XSTART
    <3>1. q \in DOMAIN g.block /\ NextFree(g, q) = g.block[q].next /\ NextFree(h, q) = h.block[q].next
      BY <2>2 DEF Listed, NextFree
    <3>2. NextFree(h, behind) = h.block[behind].next
      BY <1>6, <1>7 DEF NextFree
    <3> QED BY <1>10, <1>11, <3>1, <3>2
  <2> QED BY <2>1, <2>2
<1>22. ASSUME NEW q \in Listed(g) \cup {XSTART}
       PROVE  /\ q < NextFree(g, q) /\ NextFree(g, q) \in Listed(g) \cup {End}
              /\ \A c \in Listed(g) : c <= q \/ c >= NextFree(g, q)
  <2>1. \A c \in Listed(g) : c \in Nat /\ c \in DOMAIN g.block /\ c \in Listed(h) \cup {b}
    BY <1>1, <1>9, <1>12
  <2>2. \A c \in Listed(h) : c <= p \/ c >= behind
    BY <1>3 DEF behind
  <2>3. \A c \in Listed(h) : c \in Nat /\ c \in DOMAIN h.block
    BY <1>1, <1>6
  <2>4. CASE q = at /\ ~touches
    <3>1. NextFree(g, q) = behind
      BY <1>21, <2>4
    <3>2. behind \in Listed(g) \cup {End}
      BY <1>7, <1>9, <1>12, <2>4
    <3>3. \A c \in Listed(g) : c <= at \/ c >= behind
      BY <1>6, <1>7, <1>8, <1>9, <2>1, <2>2
    <3> QED BY <1>7, <1>8, <2>4, <3>1, <3>2, <3>3
  <2>5. CASE q = at /\ touches
    <3>1. NextFree(g, q) = NextFree(h, behind)
      BY <1>21, <2>5
    <3>2. /\ behind < NextFree(h, behind) /\ NextFree(h, behind) \in Listed(h) \cup {End}
          /\ \A c \in Listed(h) : c <= behind \/ c >= NextFree(h, behind)
      BY <1>3, <1>8, <2>5
    <3>3. NextFree(h, behind) \in Nat
      BY <1>1, <2>3, <3>2
    <3>4. NextFree(h, behind) \in Listed(g) \cup {End}
      BY <1>6, <1>7, <1>9, <1>12, <2>3, <3>2, <3>3
    <3>5. \A c \in Listed(g) : c <= at \/ c >= NextFree(h, behind)
      BY <1>6, <1>7, <1>8, <1>9, <2>1, <2>2, <2>5, <3>2, <3>3
    <3> QED BY <1>7, <1>8, <2>5, <3>1, <3>2, <3>3, <3>4, <3>5
  <2>6. CASE q # at /\ q = p
    <3>1. NextFree(g, q) = b /\ ~joins /\ at = b
      BY <1>8, <1>21, <2>6
    <3>2. b \in Listed(g)
      BY <1>8, <1>12, <3>1
    <3> QED BY <1>6, <1>7, <2>1, <2>2, <2>6, <3>1, <3>2
  <2>7. CASE q # at /\ q # p
    <3>1. NextFree(g, q) = NextFree(h, q)
      BY <1>21, <2>7
    <3>2. q # b
      BY <1>8, <1>9, <1>12, <2>7, <1>6
    <3>3. q \in Listed(h) \cup {XSTART} /\ q \in Int
      BY <1>6, <2>1, <3>2
    <3>4. /\ q < NextFree(h, q) /\ NextFree(h, q) \in Listed(h) \cup {End}
          /\ \A c \in Listed(h) : c <= q \/ c >= NextFree(h, q)
      BY <1>3, <3>3
    <3>5. NextFree(h, q) \in Nat
      BY <1>1, <2>3, <3>4
    <3>6. (q < p /\ p >= NextFree(h, q)) \/ q >= behind
      BY <1>6, <1>7, <2>2, <2>3, <2>7, <3>3, <3>4
    <3>7. NextFree(h, q) # behind /\ NextFree(h, q) # b
      BY <1>1, <1>6, <1>7, <3>3, <3>4, <3>5, <3>6
    <3>8. NextFree(h, q) \in Listed(g) \cup {End}
      BY <1>9, <1>12, <2>3, <3>4, <3>7
    <3>9. b <= q \/ b >= NextFree(h, q)
      BY <1>6, <1>7, <3>3, <3>5, <3>6
    <3> QED BY <2>1, <3>1, <3>4, <3>8, <3>9
  <2> QED BY <2>4, <2>5, <2>6, <2>7
<1>23. ASSUME NEW q \in Listed(g)
       PROVE  ~g.block[q].used /\ Behind(g, q) \notin Listed(g) \ Links
  <2>1. q \in DOMAIN g.block /\ q \in DOMAIN h.block /\ q \in Nat /\ (q \in Listed(h) \/ q = b)
    BY <1>1, <1>9, <1>12
  <2>2. CASE q = at /\ touches
    <3>1. Behind(h, behind) \notin Listed(h) \ Links /\ Behind(h, behind) # b
      <4>1. behind <= Behind(h, behind) /\ Behind(h, behind) \in Nat
        BY <1>1, <1>7 DEF Behind
      <4> QED BY <1>4, <1>6, <1>7, <1>8, <2>2, <4>1
    <3> QED BY <1>10, <1>12, <2>2, <3>1
  <2>3. CASE q = at /\ ~touches
    <3>1. Behind(g, q) = Behind(h, b) /\ Behind(h, b) # b
      BY <1>6, <1>7, <1>10, <2>3
    <3>2. Behind(h, b) \notin Listed(h)
      <4> SUFFICES ASSUME Behind(h, b) \in Listed(h) PROVE FALSE
        OBVIOUS
      <4>1. Behind(h, b) <= p \/ Behind(h, b) >= behind
        BY <1>3 DEF behind
      <4>2. Behind(h, b) = behind
        BY <1>6, <1>7, <4>1
      <4> QED BY <1>1, <1>8, <2>3, <4>2
    <3> QED BY <1>10, <1>12, <2>3, <3>1, <3>2
  <2>4. CASE q # at
    <3>1. q # b /\ q \in Listed(h)
      BY <1>8, <1>9, <2>1, <2>4
    <3>2. ~g.block[q].used /\ Behind(g, q) = Behind(h, q) /\ Behind(h, q) \notin Listed(h) \ Links
      BY <1>4, <1>11, <2>1, <2>4, <3>1
    <3>3. b \in DOMAIN g.block => Behind(h, q) # b
      <4> SUFFICES ASSUME b \in DOMAIN g.block, Behind(h, q) = b PROVE FALSE
        OBVIOUS
      <4>1. ~joins /\ at = b
        BY <1>8, <1>9
      <4>2. q <= b /\ q # p
        <5>1. q <= Behind(h, q)
          BY <1>1, <2>1 DEF Behind
        <5>2. q # XSTART
          BY <1>6, <2>1
        <5>3. q = p => Behind(h, q) # b
          BY <1>8, <4>1, <5>2
        <5> QED BY <5>1, <5>3
      <4>3. q < p
        <5>1. q <= p \/ q >= behind
          BY <1>3, <3>1 DEF behind
        <5> QED BY <1>6, <1>7, <2>1, <4>2, <5>1
      <4>4. p # XSTART /\ Behind(h, q) <= p
        BY <1>5, <1>6, <1>7, <2>1, <4>3
      <4> QED BY <1>6, <1>7, <4>4
    <3> QED BY <1>12, <3>2, <3>3
  <2> QED BY <2>2, <2>3, <2>4
<1>24. Linked(g)
  BY <1>22, <1>23 DEF Linked
<1>25. \A a \in Within(h) \ Listed(h) : a # b =>
          a \in Within(g) \ Listed(g) /\ g.block[a] = h.block[a]
  <2> SUFFICES ASSUME NEW a \in Within(h), a \notin Listed(h), a # b
               PROVE  a \in Within(g) \ Listed(g) /\ g.block[a] = h.block[a]
    OBVIOUS
  <2>1. a \in DOMAIN h.block /\ a # End /\ a # behind /\ a # p
    BY <1>1, <1>6, <1>7
  <2>2. a # at /\ a \in DOMAIN g.block
    BY <1>7, <1>8, <1>9, <2>1
  <2> QED BY <1>6, <1>11, <1>12, <2>1, <2>2
<1>26. \A a \in Within(g) : a \in Listed(g) \/ (a \notin Listed(h) /\ a # b)
  BY <1>6, <1>12
<1>27. ASSUME NEW n \in Int, SumsTo(Weights(h), n) PROVE SumsTo(Weights(g), n + h.block[b].size)
  <2> DEFINE w == Weights(h)
             s == h.block[b].size
             w1 == [w EXCEPT ![at] = w[at] + s]
             w2 == [w1 EXCEPT ![behind] = 0]
             w3 == [w2 EXCEPT ![at] = w1[at] + h.block[behind].size]
  <2>1. w \in [Int -> Nat] /\ s \in Nat /\ at \in Int /\ First <= at /\ at < End
    BY <1>1, <1>6, <1>8, WeightsTyped
  <2>2. w[at] \in Nat /\ w1 \in [Int -> Nat] /\ n - w[at] + (w[at] + s) = n + s /\ n + s \in Int
    BY <2>1
  <2>3. SumsTo(w1, n - w[at] + (w[at] + s))
    <3> HIDE DEF w
    <3>1. w[at] + s \in Nat /\ SumsTo(w, n)
      BY <1>27, <2>1, <2>2 DEF w
    <3> QED BY <2>1, <3>1, SumMoves
  <2>4. SumsTo(w1, n + s)
    BY <2>2, <2>3
  <2>5. size + at = Behind(h, b) /\ w[at] + s = size
    <3>1. CASE joins
      <4>1. at = p /\ p \in Listed(h) /\ size = h.block[p].size + h.block[b].size
        BY <1>7, <1>8, <3>1 DEF size
      <4> QED BY <1>8, <2>1, <4>1, <1>1, <1>7 DEF Weights
    <3>2. CASE ~joins
      <4>1. at = b /\ size = h.block[b].size
        BY <1>8, <3>2 DEF size
      <4> QED BY <1>8, <2>1, <4>1 DEF Weights
    <3> QED BY <3>1, <3>2
  <2>6. CASE ~touches
    <3>1. g.block[at].size = size
      <4>1. g.block[at] = merged
        BY <1>2, <1>8
      <4> QED BY <2>6, <4>1 DEF merged
    <3>2. \A x \in Int : Weights(g)[x] = w1[x]
      <4> SUFFICES ASSUME NEW x \in Int PROVE Weights(g)[x] = w1[x]
        OBVIOUS
      <4>1. CASE x = at
        BY <1>7, <1>8, <1>12, <2>1, <2>5, <3>1, <4>1 DEF Weights
      <4>2. CASE x # at
        <5>1. x \in Listed(g) <=> x \in Listed(h)
          BY <1>8, <1>9, <1>12, <2>6, <4>2, <1>1, <1>6
        <5>2. w1[x] = w[x]
          BY <2>1, <4>2
        <5>3. x \in Listed(g) => g.block[x].size = h.block[x].size
          BY <1>11, <1>12, <4>2
        <5> QED BY <5>1, <5>2, <5>3 DEF Weights
      <4> QED BY <4>1, <4>2
    <3>3. Weights(g) = w1
      BY <2>2, <3>2 DEF Weights
    <3> QED BY <2>4, <3>3
  <2>7. CASE touches
    <3>1. /\ behind \in Int /\ First <= behind /\ behind < End /\ behind # at /\ behind \in Listed(h)
          /\ h.block[behind].size \in Nat
      BY <1>1, <1>6, <1>7, <1>8, <2>7
    <3>2. w1[behind] = h.block[behind].size
      BY <2>1, <3>1 DEF Weights
    <3>4. w2[at] = w1[at] /\ w1[at] = size
      BY <2>1, <2>2, <2>5, <3>1
    <3> DEFINE z == h.block[behind].size
               k == n + s
               d == k - z
               m == size + z
    <3>5. /\ k \in Int /\ z \in Nat /\ d \in Int /\ m \in Nat /\ 0 \in Nat
          /\ SumsTo(w1, k) /\ w1 \in [Int -> Nat]
          /\ w1[behind] = z /\ w2[at] = size /\ size \in Nat
      BY <1>8, <2>2, <2>4, <3>1, <3>2, <3>4
    <3>6. SumsTo(w3, k) /\ w3 \in [Int -> Nat]
      <4>1. d = k - z /\ m = size + z
        OBVIOUS
      <4>2. w3 = [w2 EXCEPT ![at] = m] /\ w2 = [w1 EXCEPT ![behind] = 0]
        BY <3>4
      <4> HIDE DEF z, k, d, m, w1, w2, w3
      <4>3. d = k - w1[behind] + 0
        BY <3>5, <4>1
      <4>4. SumsTo(w2, d)
        BY <3>1, <3>5, <4>2, <4>3, SumMoved
      <4>5. w2 \in [Int -> Nat]
        BY <3>1, <3>5, <4>2
      <4>6. k = d - w2[at] + m
        BY <3>5, <4>1
      <4>7. SumsTo(w3, k)
        BY <2>1, <3>5, <4>2, <4>4, <4>5, <4>6, SumMoved
      <4> QED BY <2>1, <3>5, <4>2, <4>5, <4>7
    <3>7. g.block[at].size = size + h.block[behind].size
      <4>1. g.block[at] = merged
        BY <1>2, <1>8
      <4> QED BY <2>7, <4>1 DEF merged
    <3>8. ASSUME NEW x \in Int PROVE Weights(g)[x] = w3[x]
      <4>1. CASE x = at
        BY <1>7, <1>8, <1>12, <2>1, <3>1, <3>4, <3>7, <4>1 DEF Weights
      <4>2. CASE x = behind
        BY <1>9, <1>12, <2>7, <3>1, <4>2, <2>1 DEF Weights
      <4>3. CASE x # at /\ x # behind
        <5>1. x \in Listed(g) <=> x \in Listed(h)
          BY <1>8, <1>9, <1>12, <4>3, <1>1, <1>6
        <5>2. w3[x] = w[x]
          BY <2>1, <4>3
        <5>3. x \in Listed(g) => g.block[x].size = h.block[x].size
          BY <1>11, <1>12, <4>3
        <5> QED BY <5>1, <5>2, <5>3 DEF Weights
      <4> QED BY <4>1, <4>2, <4>3
    <3>9. Weights(g) = w3
      BY <3>6, <3>8 DEF Weights
    <3> QED BY <3>6, <3>9
  <2> QED BY <2>6, <2>7
<1> QED
  BY <1>2, <1>9, <1>12, <1>13, <1>20, <1>24, <1>25, <1>26, <1>27 DEF Good

-----------------------------------------------------------------------------
(* A header that changes without moving.                                   *)
LEMMA NextFields ==
  \A r \in Header, n \in Nat :
    /\ [r EXCEPT !.next = n] \in Header /\ [r EXCEPT !.next = n].next = n
    /\ [r EXCEPT !.next = n].size = r.size /\ [r EXCEPT !.next = n].used = r.used
BY DEF Header

(* A header whose size changes is one.                                     *)
LEMMA SizeFields ==
  \A r \in Header, n \in Nat :
    /\ [r EXCEPT !.size = n] \in Header /\ [r EXCEPT !.size = n].size = n
    /\ [r EXCEPT !.size = n].next = r.next /\ [r EXCEPT !.size = n].used = r.used
BY DEF Header

(* And one that is marked.                                                 *)
LEMMA UsedFields ==
  \A r \in Header, u \in BOOLEAN :
    /\ [r EXCEPT !.used = u] \in Header /\ [r EXCEPT !.used = u].used = u
    /\ [r EXCEPT !.used = u].size = r.size /\ [r EXCEPT !.used = u].next = r.next
BY DEF Header

(* The headers are replaced, and what counts the free bytes.               *)
LEMMA RecordFields ==
  ASSUME NEW h, h = [start |-> h.start, block |-> h.block, free |-> h.free, least |-> h.least],
         NEW s, NEW k, NEW f, NEW l
  PROVE  /\ [h EXCEPT !.start = s, !.block = k] = [start |-> s, block |-> k, free |-> h.free, least |-> h.least]
         /\ [h EXCEPT !.block = k] = [start |-> h.start, block |-> k, free |-> h.free, least |-> h.least]
         /\ [h EXCEPT !.free = f, !.least = l, !.block = k] = [start |-> h.start, block |-> k, free |-> f, least |-> l]
         /\ [h EXCEPT !.free = f] = [start |-> h.start, block |-> h.block, free |-> f, least |-> h.least]
<1> DEFINE a == h.start
           b == h.block
           c == h.free
           d == h.least
<1>1. h = [start |-> a, block |-> b, free |-> c, least |-> d]
  OBVIOUS
<1>2. h.start = a /\ h.block = b /\ h.free = c /\ h.least = d
  OBVIOUS
<1> HIDE DEF a, b, c, d
<1>3. [h EXCEPT !.start = s, !.block = k] = [start |-> s, block |-> k, free |-> c, least |-> d]
  <2> SUFFICES ASSUME NEW g, g = [h EXCEPT !.start = s, !.block = k]
               PROVE  g = [start |-> s, block |-> k, free |-> c, least |-> d]
    OBVIOUS
  <2> QED BY <1>1
<1>4. [h EXCEPT !.block = k] = [start |-> a, block |-> k, free |-> c, least |-> d]
  BY ONLY <1>1
<1>5. [h EXCEPT !.free = f, !.least = l, !.block = k] = [start |-> a, block |-> k, free |-> f, least |-> l]
  <2> SUFFICES ASSUME NEW g, g = [h EXCEPT !.free = f, !.least = l, !.block = k]
               PROVE  g = [start |-> a, block |-> k, free |-> f, least |-> l]
    OBVIOUS
  <2> QED BY <1>1
<1>6. [h EXCEPT !.free = f] = [start |-> a, block |-> b, free |-> f, least |-> d]
  BY ONLY <1>1
<1> QED BY ONLY <1>2, <1>3, <1>4, <1>5, <1>6

(* Blocks that keep their place and size.                                  *)
LEMMA StillTiled ==
  ASSUME Parameters, NEW h, Tiled(h), NEW g, DOMAIN g.block = DOMAIN h.block,
         \A a \in DOMAIN h.block : g.block[a].size = h.block[a].size
  PROVE  Tiled(g)
BY DEF Tiled, Behind, Within

(* A block that is not in the list is marked, or its mark is taken away.   *)
LEMMA MarkGood ==
  ASSUME Parameters, NEW h, Good(h), NEW b \in Within(h), b \notin Listed(h),
         NEW g, g = [start |-> g.start, block |-> g.block, free |-> g.free, least |-> g.least],
         g.start = h.start, DOMAIN g.block = DOMAIN h.block,
         \A a \in DOMAIN h.block :
           /\ g.block[a] \in Header
           /\ g.block[a].size = h.block[a].size /\ g.block[a].next = h.block[a].next
           /\ a # b => g.block[a] = h.block[a]
  PROVE  Good(g) /\ Listed(g) = Listed(h)
<1>4. Listed(g) = Listed(h)
  BY DEF Listed
<1>5. Within(g) = Within(h) /\ End \in DOMAIN h.block /\ End # b
  BY GoodFacts DEF Within
<1>6. Shape(g)
  <2>1. g.block[End] = h.block[End]
    BY <1>5
  <2>2. \A a \in Within(g) : IF a \in Links THEN a \in Listed(g) /\ g.block[a].size = 0 ELSE g.block[a].size > 0
    BY <1>4, <1>5 DEF Good, Shape, Within
  <2> QED BY <2>1, <2>2 DEF Good, Shape
<1>7. Tiled(g)
  BY StillTiled DEF Good
<1>8. \A q : NextFree(g, q) = NextFree(h, q) \/ q \notin DOMAIN h.block \cup {XSTART}
  BY DEF NextFree
<1>9. Listed(h) \subseteq DOMAIN h.block
  BY DEF Listed
<1>10. \A q \in Listed(h) : g.block[q].used = h.block[q].used /\ Behind(g, q) = Behind(h, q)
  BY <1>9 DEF Behind
<1>11. Linked(g)
  BY <1>4, <1>8, <1>9, <1>10 DEF Good, Linked
<1> QED BY <1>4, <1>6, <1>7, <1>11 DEF Good

(* A block leaves the list.                                                *)
LEMMA UnlinkGood ==
  ASSUME Parameters, NEW h, Good(h), NEW b \in Listed(h), b \notin Links,
         NEW p \in Listed(h) \cup {XSTART}, NextFree(h, p) = b,
         NEW g, g = Unlink(h, p, b)
  PROVE  /\ Good(g) /\ Listed(g) = Listed(h) \ {b} /\ DOMAIN g.block = DOMAIN h.block
         /\ \A a \in DOMAIN h.block :
              /\ g.block[a].size = h.block[a].size /\ g.block[a].used = h.block[a].used
              /\ a \notin Listed(h) => g.block[a] = h.block[a]
         /\ g.free = h.free /\ g.least = h.least
<1> DEFINE blocks == [a \in DOMAIN h.block |->
                        IF a = p THEN [h.block[a] EXCEPT !.next = h.block[b].next]
                        ELSE IF a = b THEN [h.block[a] EXCEPT !.next = NULL]
                        ELSE h.block[a]]
           start == IF p = XSTART THEN h.block[b].next ELSE h.start
<1>1. /\ End \in DOMAIN h.block /\ End \notin Listed(h) /\ XSTART \notin DOMAIN h.block
      /\ \A a \in DOMAIN h.block :
           /\ a \in Nat /\ First <= a /\ a <= End
           /\ h.block[a] \in Header
           /\ h.block[a].size \in Nat /\ h.block[a].next \in Nat /\ h.block[a].used \in BOOLEAN
      /\ Listed(h) \subseteq Within(h)
      /\ \A a \in Within(h) : a \in Links => a \in Listed(h) /\ h.block[a].size = 0
  BY GoodFacts
<1>2. h = [start |-> h.start, block |-> h.block, free |-> h.free, least |-> h.least]
  BY DEF Good, Shape
<1>3. g = [h EXCEPT !.start = start, !.block = blocks]
  BY DEF Unlink
<1>4. g = [start |-> start, block |-> blocks, free |-> h.free, least |-> h.least]
  <2> HIDE DEF start, blocks
  <2> QED BY <1>2, <1>3, RecordFields
<1>5. /\ g.start = start /\ g.block = blocks /\ g.free = h.free /\ g.least = h.least
      /\ g = [start |-> g.start, block |-> g.block, free |-> g.free, least |-> g.least]
  <2> HIDE DEF start, blocks
  <2> QED BY <1>4
<1>6. /\ b \in DOMAIN h.block /\ b # End /\ b # p /\ p # End
      /\ NULL = 0 /\ First \in Nat /\ First > 0 /\ XSTART = -1
      /\ \A q \in Listed(h) : q \in Nat /\ q \in DOMAIN h.block /\ q # XSTART /\ q # End
      /\ \A a : a \in Within(h) <=> a \in DOMAIN h.block /\ a # End
  <2>1. \A a : a \in Within(h) <=> a \in DOMAIN h.block /\ a # End
    BY DEF Within
  <2>2. NULL = 0 /\ First \in Nat /\ First > 0 /\ XSTART = -1
    BY Places DEF NULL, XSTART
  <2>3. \A q \in Listed(h) : q \in Nat /\ q \in DOMAIN h.block /\ q # XSTART /\ q # End
    BY <1>1, <2>1
  <2>4. p < b
    BY DEF Good, Linked
  <2>5. End \in Nat
    BY Places
  <2> QED BY <1>1, <2>1, <2>2, <2>3, <2>4, <2>5
<1>7. /\ \A q \in Listed(h) \cup {XSTART} :
           /\ q < NextFree(h, q) /\ NextFree(h, q) \in Listed(h) \cup {End}
           /\ \A c \in Listed(h) : c <= q \/ c >= NextFree(h, q)
      /\ \A q \in Listed(h) : ~h.block[q].used /\ Behind(h, q) \notin Listed(h) \ Links
  BY DEF Good, Linked
<1>8. DOMAIN g.block = DOMAIN h.block
      /\ \A a \in DOMAIN h.block :
           /\ g.block[a] \in Header
           /\ g.block[a].size = h.block[a].size /\ g.block[a].used = h.block[a].used
           /\ g.block[a].next = IF a = p THEN h.block[b].next ELSE IF a = b THEN NULL ELSE h.block[a].next
           /\ a # p /\ a # b => g.block[a] = h.block[a]
  <2>1. DOMAIN g.block = DOMAIN h.block
    BY <1>5
  <2>2. ASSUME NEW a \in DOMAIN h.block
        PROVE  /\ g.block[a] \in Header
               /\ g.block[a].size = h.block[a].size /\ g.block[a].used = h.block[a].used
               /\ g.block[a].next = (IF a = p THEN h.block[b].next ELSE IF a = b THEN NULL ELSE h.block[a].next)
               /\ a # p /\ a # b => g.block[a] = h.block[a]
    <3> DEFINE r == h.block[a]
               n == h.block[b].next
    <3>1. g.block[a] = IF a = p THEN [r EXCEPT !.next = n] ELSE IF a = b THEN [r EXCEPT !.next = NULL] ELSE r
      BY <1>5
    <3>2. r \in Header /\ n \in Nat /\ NULL \in Nat
      BY <1>1, <1>6
    <3>3. \A m \in Nat : /\ [r EXCEPT !.next = m] \in Header /\ [r EXCEPT !.next = m].next = m
                         /\ [r EXCEPT !.next = m].size = r.size /\ [r EXCEPT !.next = m].used = r.used
      BY ONLY <3>2, NextFields
    <3> HIDE DEF r, n
    <3>4. /\ g.block[a] \in Header
          /\ g.block[a].size = r.size /\ g.block[a].used = r.used
          /\ g.block[a].next = (IF a = p THEN n ELSE IF a = b THEN NULL ELSE r.next)
          /\ a # p /\ a # b => g.block[a] = r
      BY <3>1, <3>2, <3>3
    <3> QED BY <3>4 DEF r, n
  <2> QED BY <2>1, <2>2
<1> HIDE DEF blocks
<1>9. h.block[b].next = NextFree(h, b) /\ h.block[b].next \in Listed(h) \cup {End}
      /\ h.block[b].next \in Nat /\ b < h.block[b].next
  BY <1>1, <1>6, <1>7 DEF NextFree
<1>10. \A a : a \in Listed(g) <=> a \in Listed(h) /\ a # b
  <2> SUFFICES ASSUME NEW a \in DOMAIN h.block
               PROVE  g.block[a].next # NULL <=> h.block[a].next # NULL /\ a # b
    BY <1>8 DEF Listed
  <2>1. CASE a = p
    <3>1. p \in Listed(h)
      BY <1>1, <2>1
    <3>2. h.block[b].next # NULL
      BY <1>6, <1>9
    <3> QED BY <1>6, <1>8, <2>1, <3>1, <3>2 DEF Listed
  <2>2. CASE a # p
    BY <1>8, <2>2
  <2> QED BY <2>1, <2>2
<1>11. Shape(g)
  <2>1. \A a \in Within(g) : IF a \in Links THEN a \in Listed(g) /\ g.block[a].size = 0 ELSE g.block[a].size > 0
    BY <1>8, <1>10 DEF Good, Shape, Within
  <2>2. g.block[End] = h.block[End]
    BY <1>1, <1>6, <1>8
  <2> QED BY <1>5, <1>8, <2>1, <2>2 DEF Good, Shape
<1>12. Tiled(g)
  BY <1>8, StillTiled DEF Good
<1>13. \A q \in Listed(g) \cup {XSTART} : NextFree(g, q) = IF q = p THEN NextFree(h, b) ELSE NextFree(h, q)
  <2> SUFFICES ASSUME NEW q \in Listed(g) \cup {XSTART}
               PROVE  NextFree(g, q) = IF q = p THEN NextFree(h, b) ELSE NextFree(h, q)
    OBVIOUS
  <2>1. CASE q = XSTART
    BY <1>5, <1>9, <2>1 DEF NextFree
  <2>2. CASE q # XSTART
    BY <1>6, <1>8, <1>9, <1>10, <2>2 DEF NextFree
  <2> QED BY <2>1, <2>2
<1>14. ASSUME NEW q \in Listed(g) \cup {XSTART}
       PROVE  /\ q < NextFree(g, q) /\ NextFree(g, q) \in Listed(g) \cup {End}
              /\ \A c \in Listed(g) : c <= q \/ c >= NextFree(g, q)
  <2>1. \A c \in Listed(h) : c \in Nat
    BY <1>6
  <2>2. q \in Listed(h) \cup {XSTART} /\ q # b /\ q \in Int
    BY <1>6, <1>10
  <2>3. CASE q = p
    <3>1. NextFree(g, q) = NextFree(h, b)
      BY <1>13, <2>3
    <3>2. /\ b < NextFree(h, b) /\ NextFree(h, b) \in Listed(h) \cup {End}
          /\ \A c \in Listed(h) : c <= b \/ c >= NextFree(h, b)
      BY <1>7
    <3>3. \A c \in Listed(h) : c <= p \/ c >= b
      BY <1>7
    <3>4. p < b
      BY <1>7
    <3> QED BY <1>6, <1>9, <1>10, <2>1, <2>2, <2>3, <3>1, <3>2, <3>3, <3>4
  <2>4. CASE q # p
    <3>1. NextFree(g, q) = NextFree(h, q)
      BY <1>13, <2>4
    <3>2. /\ q < NextFree(h, q) /\ NextFree(h, q) \in Listed(h) \cup {End}
          /\ \A c \in Listed(h) : c <= q \/ c >= NextFree(h, q)
      BY <1>7, <2>2
    <3>3. NextFree(h, q) # b
      <4> SUFFICES ASSUME NextFree(h, q) = b PROVE FALSE
        OBVIOUS
      <4>1. p < b /\ p \in Int /\ b \in Nat
        BY <1>6, <1>7
      <4>2. q <= p \/ q = XSTART
        BY <1>6, <1>7, <2>2, <3>2, <4>1
      <4>3. p <= q \/ p = XSTART
        BY <1>6, <1>7, <2>2, <3>2, <4>1
      <4>4. q = XSTART => p # XSTART /\ p \in Listed(h)
        BY <2>4
      <4>5. p = XSTART => q # XSTART /\ q \in Listed(h)
        BY <2>2, <2>4
      <4> QED BY <1>6, <1>7, <2>2, <2>4, <3>2, <4>1, <4>2, <4>3, <4>4, <4>5
    <3> QED BY <1>10, <3>1, <3>2, <3>3
  <2> QED BY <2>3, <2>4
<1>15. \A q \in Listed(g) : ~g.block[q].used /\ Behind(g, q) \notin Listed(g) \ Links
  BY <1>6, <1>7, <1>8, <1>10 DEF Behind
<1>16. Linked(g)
  BY <1>14, <1>15 DEF Linked
<1>17. \A a \in DOMAIN h.block : a \notin Listed(h) => g.block[a] = h.block[a]
  BY <1>1, <1>8
<1>18. Listed(g) = Listed(h) \ {b}
  BY <1>10
<1> QED BY <1>5, <1>8, <1>11, <1>12, <1>16, <1>17, <1>18 DEF Good

(* A block is cut in two.                                                  *)
LEMMA SplitGood ==
  ASSUME Parameters, NEW h, Good(h), NEW b \in Within(h), b \notin Listed(h), b \notin Links,
         NEW size \in Nat, size > 0, size < h.block[b].size,
         NEW g, g = Split(h, b, size), NEW c, c = b + size
  PROVE  /\ Good(g) /\ Listed(g) = Listed(h) /\ DOMAIN g.block = DOMAIN h.block \cup {c}
         /\ c \in Within(g) /\ c \notin Links /\ c \notin DOMAIN h.block /\ c # b
         /\ g.block[c].size = h.block[b].size - size
         /\ g.block[b].size = size /\ g.block[b].used = h.block[b].used
         /\ \A a \in DOMAIN h.block : a # b => g.block[a] = h.block[a]
         /\ g.free = h.free /\ g.least = h.least
<1> DEFINE rest == [size |-> h.block[b].size - size, next |-> NULL, used |-> FALSE]
           blocks == [a \in DOMAIN h.block \cup {c} |->
                        IF a = b THEN [h.block[b] EXCEPT !.size = size]
                        ELSE IF a = c THEN rest ELSE h.block[a]]
<1>1. /\ End \in DOMAIN h.block /\ XSTART \notin DOMAIN h.block
      /\ \A a \in DOMAIN h.block :
           /\ a \in Nat /\ First <= a /\ a <= End
           /\ h.block[a] \in Header
           /\ h.block[a].size \in Nat /\ h.block[a].next \in Nat /\ h.block[a].used \in BOOLEAN
           /\ Behind(h, a) \in Nat
      /\ Listed(h) \subseteq Within(h)
      /\ \A a \in Within(h) \ Links : h.block[a].size > 0
      /\ \A a \in Within(h) : a \in Links => a \in Listed(h) /\ h.block[a].size = 0
  BY GoodFacts
<1>2. g = [h EXCEPT !.block = blocks]
  BY DEF Split
<1>3. /\ g.start = h.start /\ g.block = blocks /\ g.free = h.free /\ g.least = h.least
      /\ g = [start |-> g.start, block |-> g.block, free |-> g.free, least |-> g.least]
  <2> HIDE DEF blocks
  <2>1. h = [start |-> h.start, block |-> h.block, free |-> h.free, least |-> h.least]
    BY DEF Good, Shape
  <2>2. g = [start |-> h.start, block |-> blocks, free |-> h.free, least |-> h.least]
    BY <1>2, <2>1, RecordFields
  <2> QED BY <2>2
<1>4. /\ b \in DOMAIN h.block /\ b # End /\ b \in Nat /\ NULL = 0 /\ End \in Nat
      /\ \A a : a \in Within(h) <=> a \in DOMAIN h.block /\ a # End
      /\ \A a : a \in Within(g) <=> a \in DOMAIN g.block /\ a # End
  BY <1>1, Places DEF Within, NULL
<1>5. c \in Nat /\ b < c /\ c < Behind(h, b) /\ Behind(h, b) = b + h.block[b].size
  BY <1>1, <1>4 DEF Behind
<1>6. \A a, d \in DOMAIN h.block : a < d => Behind(h, a) <= d
  BY DEF Good, Tiled
<1>7. c \notin DOMAIN h.block
  BY <1>1, <1>4, <1>5, <1>6
<1>8. DOMAIN g.block = DOMAIN h.block \cup {c} /\ g.block[c] = rest
      /\ g.block[b] = [h.block[b] EXCEPT !.size = size]
      /\ \A a \in DOMAIN h.block : a # b => g.block[a] = h.block[a]
  BY <1>3, <1>4, <1>5, <1>7
<1> HIDE DEF blocks
<1>9. /\ g.block[c] \in Header /\ g.block[c].size = h.block[b].size - size /\ g.block[c].size > 0
      /\ g.block[c].next = NULL /\ g.block[c].size \in Nat
  BY <1>1, <1>4, <1>8 DEF Header
<1>10. /\ g.block[b] \in Header /\ g.block[b].size = size /\ g.block[b].next = h.block[b].next
       /\ g.block[b].used = h.block[b].used
  <2> DEFINE r == h.block[b]
  <2>1. r \in Header /\ size \in Nat
    BY <1>1, <1>4
  <2>2. /\ [r EXCEPT !.size = size] \in Header /\ [r EXCEPT !.size = size].size = size
        /\ [r EXCEPT !.size = size].next = r.next /\ [r EXCEPT !.size = size].used = r.used
    BY ONLY <2>1, SizeFields
  <2> QED BY <1>8, <2>2
<1> HIDE DEF rest
<1>11. Listed(g) = Listed(h)
  <2>1. \A a \in DOMAIN h.block : g.block[a].next = h.block[a].next
    BY <1>8, <1>10
  <2> QED BY <1>7, <1>8, <1>9, <2>1 DEF Listed
<1>12. PICK i \in DOMAIN Regions : Begin(i) <= b /\ Behind(h, b) <= Finish(i)
  BY <1>4 DEF Good, Tiled
<1>13. Begin(i) \in Nat /\ Finish(i) \in Nat /\ Finish(i) <= End
  BY Places
<1>14. c # End /\ c < End /\ First <= c /\ c \notin Links
  <2>1. c < End
    BY <1>1, <1>4, <1>5, <1>12, <1>13
  <2>2. c \notin Links
    <3> SUFFICES ASSUME c \in Links PROVE FALSE
      OBVIOUS
    <3>1. c < Begin(i) \/ c >= Finish(i)
      BY Places
    <3>2. Begin(i) <= b /\ b < c /\ c < Behind(h, b) /\ Behind(h, b) <= Finish(i) /\ Behind(h, b) \in Nat
      BY <1>1, <1>4, <1>5, <1>12
    <3> QED BY <1>4, <1>5, <1>13, <3>1, <3>2
  <2>3. First <= c
    BY <1>1, <1>4, <1>5, Places
  <2> QED BY <1>4, <1>5, <2>1, <2>2, <2>3
<1>15. /\ Behind(g, b) = c /\ Behind(g, c) = Behind(h, b)
       /\ \A a \in DOMAIN h.block : a # b => Behind(g, a) = Behind(h, a)
  BY <1>1, <1>4, <1>5, <1>8, <1>9, <1>10 DEF Behind
<1>16. Shape(g)
  <2>1. g.block[End] = h.block[End]
    BY <1>1, <1>4, <1>8
  <2>2. \A a \in Within(g) : IF a \in Links THEN a \in Listed(g) /\ g.block[a].size = 0 ELSE g.block[a].size > 0
    <3> SUFFICES ASSUME NEW a \in Within(g)
                 PROVE  IF a \in Links THEN a \in Listed(g) /\ g.block[a].size = 0 ELSE g.block[a].size > 0
      OBVIOUS
    <3>1. CASE a = c
      BY <1>9, <1>14, <3>1
    <3>2. CASE a = b
      BY <1>10, <3>2
    <3>3. CASE a # c /\ a # b
      <4>1. a \in Within(h) /\ g.block[a] = h.block[a]
        BY <1>4, <1>8, <3>3
      <4> QED BY <1>1, <1>11, <4>1
    <3> QED BY <3>1, <3>2, <3>3
  <2>3. \A a \in DOMAIN g.block : g.block[a] \in Header
    BY <1>1, <1>8, <1>9, <1>10
  <2>4. DOMAIN g.block \subseteq First .. End
    <3>1. c \in First .. End
      BY <1>4, <1>5, <1>14, Places
    <3> QED BY <1>8, <3>1 DEF Good, Shape
  <2> QED BY <1>1, <1>3, <1>8, <2>1, <2>2, <2>3, <2>4 DEF Good, Shape
<1>17. Tiled(g)
  <2>1. \A k \in DOMAIN Regions : Begin(k) \in DOMAIN g.block
    BY <1>8 DEF Good, Tiled
  <2>2. ASSUME NEW a \in DOMAIN g.block, NEW d \in DOMAIN g.block, a < d PROVE Behind(g, a) <= d
    <3>1. CASE a = c
      <4>1. d \in DOMAIN h.block /\ b < d
        BY <1>1, <1>4, <1>5, <1>8, <2>2, <3>1
      <4> QED BY <1>4, <1>6, <1>15, <3>1, <4>1
    <3>2. CASE d = c /\ a # b /\ a # c
      <4>1. a \in DOMAIN h.block /\ a < b
        <5>1. a \in DOMAIN h.block
          BY <1>8, <3>2
        <5>2. a > b => Behind(h, b) <= a
          BY <1>4, <1>6, <5>1
        <5> QED BY <1>1, <1>4, <1>5, <2>2, <3>2, <5>1, <5>2
      <4>2. Behind(h, a) <= b
        BY <1>4, <1>6, <4>1
      <4> QED BY <1>1, <1>4, <1>5, <1>15, <3>2, <4>1, <4>2
    <3>3. CASE a = b
      <4>1. d = c \/ (d \in DOMAIN h.block /\ Behind(h, b) <= d)
        <5>1. d \in DOMAIN h.block => Behind(h, b) <= d
          BY <1>4, <1>6, <2>2, <3>3
        <5> QED BY <1>8, <5>1
      <4>2. d \in Nat
        BY <1>1, <1>5, <4>1
      <4> QED BY <1>1, <1>4, <1>5, <1>15, <3>3, <4>1, <4>2
    <3>4. CASE a # b /\ a # c /\ d # c
      BY <1>6, <1>8, <1>15, <2>2, <3>4
    <3> QED BY <3>1, <3>2, <3>3, <3>4
  <2>3. ASSUME NEW a \in Within(g)
        PROVE  \E k \in DOMAIN Regions : Begin(k) <= a /\ Behind(g, a) <= Finish(k)
    <3>1. CASE a = c \/ a = b
      <4>1. Begin(i) <= a /\ Behind(g, a) <= Finish(i)
        BY <1>1, <1>4, <1>5, <1>12, <1>13, <1>15, <3>1
      <4> QED BY <4>1
    <3>2. CASE a # c /\ a # b
      BY <1>4, <1>8, <1>15, <3>2 DEF Good, Tiled
    <3> QED BY <3>1, <3>2
  <2>4. ASSUME NEW a \in Within(g) PROVE Behind(g, a) \in DOMAIN g.block \cup Links
    <3>1. \A d \in DOMAIN h.block : d # End => Behind(h, d) \in DOMAIN h.block \cup Links
      BY <1>4 DEF Good, Tiled
    <3> QED BY <1>4, <1>8, <1>15, <3>1
  <2> QED BY <2>1, <2>2, <2>3, <2>4 DEF Tiled
<1>18. Linked(g)
  <2>1. \A q \in Listed(h) : q \in DOMAIN h.block /\ q # b /\ q # XSTART
    BY <1>1, <1>4
  <2>2. \A q \in Listed(h) \cup {XSTART} : NextFree(g, q) = NextFree(h, q)
    BY <1>3, <1>8, <2>1 DEF NextFree
  <2>3. \A q \in Listed(h) : g.block[q].used = h.block[q].used /\ Behind(g, q) = Behind(h, q)
    BY <1>8, <1>15, <2>1
  <2> QED BY <1>11, <2>2, <2>3 DEF Good, Linked
<1> QED BY <1>3, <1>4, <1>5, <1>7, <1>8, <1>9, <1>10, <1>11, <1>14, <1>16, <1>17, <1>18 DEF Good

-----------------------------------------------------------------------------
(* What is free is counted, and its minimum.                               *)
Counted(h) == h.least \in 0 .. h.free /\ SumsTo(Weights(h), h.free)

(* A block of the list becomes what the caller has: the last step of       *)
(* pvPortMalloc.                                                           *)
LEMMA AllocateSound ==
  ASSUME Parameters, NEW h, NEW f, NEW s, Sound(h, f, s), NEW b \in Listed(h), NEW n \in Nat,
         NEW k, Good(k), AllAligned(k), b \in Within(k), b \notin Listed(k),
         \A a \in Within(h) \ Listed(h) : a \in Within(k) \ Listed(k) /\ k.block[a] = h.block[a],
         \A a \in Within(k) \ Listed(k) : a = b \/ a \in Within(h) \ Listed(h),
         k.block[b].size >= n + HEADER, k.free = h.free, k.least = h.least,
         NEW g, g = Allocate(k, b)
  PROVE  /\ Sound(g, f, s \cup {[at |-> b + HEADER, size |-> n]})
         /\ Counted(h) /\ SumsTo(Weights(k), k.free - k.block[b].size) => Counted(g)
<1> DEFINE left == k.free - k.block[b].size
           least == IF left < k.least THEN left ELSE k.least
           blocks == [a \in DOMAIN k.block |->
                        IF a = b THEN [k.block[a] EXCEPT !.used = TRUE] ELSE k.block[a]]
           now == [at |-> b + HEADER, size |-> n]
<1>1. k = [start |-> k.start, block |-> k.block, free |-> k.free, least |-> k.least]
  BY DEF Good, Shape
<1>2. g = [k EXCEPT !.free = left, !.least = least, !.block = blocks]
  BY DEF Allocate
<1>3. /\ g.start = k.start /\ g.block = blocks /\ g.free = left /\ g.least = least
      /\ g = [start |-> g.start, block |-> g.block, free |-> g.free, least |-> g.least]
  <2> HIDE DEF left, least, blocks
  <2>1. g = [start |-> k.start, block |-> blocks, free |-> left, least |-> least]
    BY <1>1, <1>2, RecordFields
  <2> QED BY <2>1
<1>4. /\ Good(g) /\ Listed(g) = Listed(k) /\ DOMAIN g.block = DOMAIN k.block
      /\ \A a \in DOMAIN k.block :
           /\ g.block[a].size = k.block[a].size /\ g.block[a].next = k.block[a].next
           /\ a # b => g.block[a] = k.block[a]
      /\ g.block[b].used
  <2>1. \A a \in DOMAIN k.block : k.block[a] \in Header
    BY DEF Good, Shape
  <2>2. PICK u \in BOOLEAN : u = TRUE
    OBVIOUS
  <2>3. DOMAIN blocks = DOMAIN k.block
        /\ \A a \in DOMAIN k.block :
             blocks[a] = IF a = b THEN [k.block[a] EXCEPT !.used = u] ELSE k.block[a]
    BY <2>2
  <2> HIDE DEF blocks
  <2>4. ASSUME NEW a \in DOMAIN k.block
        PROVE  /\ blocks[a] \in Header
               /\ blocks[a].size = k.block[a].size /\ blocks[a].next = k.block[a].next
               /\ a # b => blocks[a] = k.block[a]
               /\ a = b => blocks[a].used = u
    <3> DEFINE r == k.block[a]
    <3>1. blocks[a] = IF a = b THEN [r EXCEPT !.used = u] ELSE r
      BY <2>3
    <3>2. r \in Header /\ u \in BOOLEAN
      BY <2>1
    <3>3. [r EXCEPT !.used = u] \in Header /\ [r EXCEPT !.used = u].used = u
          /\ [r EXCEPT !.used = u].size = r.size /\ [r EXCEPT !.used = u].next = r.next
      BY ONLY <3>2, UsedFields
    <3> HIDE DEF r
    <3>4. /\ blocks[a] \in Header
          /\ blocks[a].size = r.size /\ blocks[a].next = r.next
          /\ a # b => blocks[a] = r
          /\ a = b => blocks[a].used = u
      BY <3>1, <3>2, <3>3
    <3> QED BY <3>4 DEF r
  <2>5. Good(g) /\ Listed(g) = Listed(k)
    BY <1>3, <2>3, <2>4, MarkGood
  <2>6. b \in DOMAIN k.block
    BY DEF Within
  <2> QED BY <1>3, <2>2, <2>3, <2>4, <2>5, <2>6
<1>5. Within(g) = Within(k) /\ \A a \in DOMAIN k.block : Behind(g, a) = Behind(k, a)
  BY <1>4 DEF Within, Behind
<1>6. AllAligned(g)
  BY <1>4 DEF AllAligned
<1> HIDE DEF blocks
<1>7. /\ b \in Nat /\ HEADER \in Nat /\ b \in DOMAIN k.block /\ k.block[b].size \in Nat
      /\ Within(k) \subseteq DOMAIN k.block /\ Within(h) \subseteq DOMAIN h.block
      /\ \A a \in DOMAIN h.block : a \in Nat
      /\ \A a \in DOMAIN k.block : a \in Nat
  BY GoodFacts, Places DEF Within, Sound
<1>8. \A a \in Within(h) \ Listed(h) :
        /\ a \in Within(g) \ Listed(g) /\ g.block[a].used = h.block[a].used
        /\ Behind(g, a) = Behind(h, a) /\ a # b
  BY <1>4, <1>5, <1>7 DEF Behind
<1>9. b \in Within(g) \ Listed(g) /\ g.block[b].used /\ b + HEADER + n <= Behind(g, b)
  <2>1. k.block[b].size >= n + HEADER
    OBVIOUS
  <2>2. Behind(g, b) = b + k.block[b].size
    BY <1>4, <1>7 DEF Behind
  <2>3. b + HEADER + n <= b + k.block[b].size
    BY <1>7, <2>1
  <2> QED BY <1>4, <1>5, <1>7, <2>2, <2>3
<1>10. now.at = b + HEADER /\ now.size = n /\ now.at - HEADER = b
  BY <1>7
<1>11. \A r \in s : /\ r.at \in Int /\ r.size \in Nat
                    /\ r.at - HEADER \in Within(h) \ Listed(h) /\ h.block[r.at - HEADER].used
                    /\ r.at + r.size <= Behind(h, r.at - HEADER)
                    /\ \A o \in s : o.at = r.at => o = r
  BY DEF Sound, Owned
<1>12. \A t \in Callers : f[t] # NULL =>
         /\ f[t] \in Within(h) \ Listed(h) /\ ~h.block[f[t]].used
         /\ \A u \in Callers : f[u] = f[t] => u = t
  BY DEF Sound, Owned
<1>13. \A a \in Within(h) \ Listed(h) :
         (\E t \in Callers : f[t] = a) \/ (\E r \in s : r.at = a + HEADER)
  BY DEF Sound, Owned
<1> HIDE DEF now
<1>14. Owned(g, f, s \cup {now})
  <2>1. ASSUME NEW r \in s \cup {now}
        PROVE  /\ r.at \in Int /\ r.size \in Nat
               /\ r.at - HEADER \in Within(g) \ Listed(g) /\ g.block[r.at - HEADER].used
               /\ r.at + r.size <= Behind(g, r.at - HEADER)
               /\ \A o \in s \cup {now} : o.at = r.at => o = r
    <3>1. CASE r = now
      <4>1. \A o \in s : o.at # now.at
        BY <1>7, <1>8, <1>10, <1>11
      <4> QED BY <1>7, <1>9, <1>10, <3>1, <4>1
    <3>2. CASE r \in s
      <4>1. r.at # now.at
        BY <1>7, <1>8, <1>10, <1>11, <3>2
      <4> QED BY <1>8, <1>11, <3>2, <4>1
    <3> QED BY <3>1, <3>2
  <2>2. \A t \in Callers : f[t] # NULL =>
          /\ f[t] \in Within(g) \ Listed(g) /\ ~g.block[f[t]].used
          /\ \A u \in Callers : f[u] = f[t] => u = t
    BY <1>8, <1>12
  <2>3. \A a \in Within(g) \ Listed(g) :
          (\E t \in Callers : f[t] = a) \/ (\E r \in s \cup {now} : r.at = a + HEADER)
    BY <1>4, <1>5, <1>10, <1>13
  <2> QED BY <2>1, <2>2, <2>3 DEF Owned
<1>15. ASSUME Counted(h), SumsTo(Weights(k), left) PROVE Counted(g)
  <2>1. SumsTo(Weights(g), g.free)
    <3>1. \A a \in Listed(k) : g.block[a].size = k.block[a].size
      BY <1>4 DEF Listed
    <3> QED BY <1>3, <1>4, <1>15, <3>1, SameWeights
  <2>2. left \in Nat
    <3> HIDE DEF left
    <3> QED BY <1>15, Places DEF SumsTo
  <2>3. k.least \in Nat
    BY <1>15 DEF Counted
  <2>4. least \in 0 .. left
    <3> HIDE DEF left
    <3> QED BY <2>2, <2>3
  <2> QED BY <1>3, <2>1, <2>4 DEF Counted
<1> QED BY <1>4, <1>6, <1>14, <1>15 DEF Sound, now, left

(* What a request is rounded up to holds it and a header, or is refused.   *)
LEMMA BlockSizeFacts ==
  ASSUME Parameters, NEW n \in Nat
  PROVE  /\ BlockSize(n) \in Nat
         /\ BlockSize(n) # 0 => BlockSize(n) >= n + HEADER /\ BlockSize(n) % ALIGN = 0
<1>1. n + HEADER \in Nat
  BY Places
<1>2. Aligned(n + HEADER) \in Nat /\ Aligned(n + HEADER) >= n + HEADER /\ Aligned(n + HEADER) % ALIGN = 0
  BY <1>1, AlignedUp
<1> QED BY <1>2 DEF BlockSize

(* pvPortMalloc finds a block: it leaves the list, the rest of it may come *)
(* back.                                                                   *)
LEMMA TakeSound ==
  ASSUME Parameters, NEW h, NEW f, NEW s, Sound(h, f, s), NEW n \in Nat,
         NEW size, size = BlockSize(n), ~Refuses(h, size),
         NEW b \in Listed(h), FirstFit(h, b, size),
         NEW p \in Listed(h) \cup {XSTART}, NextFree(h, p) = b,
         NEW taken, taken = Unlink(h, p, b), NEW cut, cut = Split(taken, b, size),
         NEW g, IF Splits(h, b, size)
                THEN \E q \in Listed(cut) \cup {XSTART} :
                       Precedes(cut, q, b + size) /\ g = Allocate(InsertBlock(cut, q, b + size), b)
                ELSE g = Allocate(taken, b)
  PROVE  /\ Sound(g, f, s \cup {[at |-> b + HEADER, size |-> n]})
         /\ Counted(h) => Counted(g)
<1>1. Good(h) /\ AllAligned(h)
  BY DEF Sound
<1>2. size \in Nat /\ size > 0 /\ size >= n + HEADER /\ size % ALIGN = 0
  <2>1. size # 0
    BY DEF Refuses
  <2> QED BY <2>1, BlockSizeFacts
<1>3. /\ b \in Within(h) /\ b \in DOMAIN h.block /\ b # End /\ b \in Nat /\ b < End /\ First <= b
      /\ h.block[b].size \in Nat /\ h.block[b].size >= size /\ b \notin Links
  <2>1. h.block[b].size >= size
    BY DEF FirstFit
  <2>2. b \in Within(h) /\ b \in DOMAIN h.block /\ b # End
    BY <1>1, GoodFacts DEF Within
  <2>3. b \in Nat /\ b < End /\ h.block[b].size \in Nat /\ First <= b
    BY <1>1, <2>2, GoodFacts
  <2>4. b \in Links => h.block[b].size = 0
    BY <1>1, <2>2, GoodFacts
  <2> QED BY <1>2, <2>1, <2>2, <2>3, <2>4
<1>4. /\ Good(taken) /\ Listed(taken) = Listed(h) \ {b} /\ DOMAIN taken.block = DOMAIN h.block
      /\ \A a \in DOMAIN h.block :
           /\ taken.block[a].size = h.block[a].size /\ taken.block[a].used = h.block[a].used
           /\ a \notin Listed(h) => taken.block[a] = h.block[a]
      /\ taken.free = h.free /\ taken.least = h.least
  BY <1>1, <1>3, UnlinkGood
<1>5. /\ Within(taken) = Within(h) /\ AllAligned(taken) /\ b \in Within(taken) /\ b \notin Listed(taken)
      /\ \A a \in Within(h) : a \in DOMAIN h.block
  BY <1>1, <1>3, <1>4 DEF Within, AllAligned
<1>6. ASSUME Counted(h) PROVE SumsTo(Weights(taken), h.free - h.block[b].size)
  <2> DEFINE w == Weights(h)
             z == h.block[b].size
  <2>1. w \in [Int -> Nat] /\ SumsTo(w, h.free) /\ w[b] = z /\ z \in Nat
    BY <1>1, <1>3, <1>6, WeightsTyped DEF Counted, Weights
  <2>2. Weights(taken) = [w EXCEPT ![b] = 0]
    <3>1. \A x \in Listed(taken) : taken.block[x].size = h.block[x].size
      BY <1>4 DEF Listed
    <3>2. Weights(taken) = [x \in Int |-> IF x \in Listed(taken) THEN taken.block[x].size ELSE 0]
      BY DEF Weights
    <3>3. w = [x \in Int |-> IF x \in Listed(h) THEN h.block[x].size ELSE 0]
      BY DEF Weights
    <3> HIDE DEF w
    <3> QED BY <1>3, <1>4, <3>1, <3>2, <3>3
  <2> DEFINE k == h.free
             d == k - z
             v == Weights(taken)
  <2> HIDE DEF w, z
  <2>3. k \in Int
    BY <2>1, SumTyped
  <2>4. SumsTo(w, k) /\ d = k - w[b] + 0 /\ 0 \in Nat /\ b \in Int /\ v = [w EXCEPT ![b] = 0]
    BY <1>3, <2>1, <2>2, <2>3
  <2> HIDE DEF k, d, v
  <2>5. w \in [Int -> Nat] /\ First <= b /\ b < End
    BY <1>3, <2>1
  <2>6. SumsTo(v, d)
    BY ONLY Parameters, <2>3, <2>4, <2>5, SumMoved
  <2> QED BY <2>6 DEF k, d, v, z
<1>7. CASE ~Splits(h, b, size)
  <2>1. g = Allocate(taken, b)
    BY <1>7
  <2>2. \A a \in Within(h) \ Listed(h) : a \in Within(taken) \ Listed(taken) /\ taken.block[a] = h.block[a]
    BY <1>4, <1>5
  <2>3. \A a \in Within(taken) \ Listed(taken) : a = b \/ a \in Within(h) \ Listed(h)
    BY <1>4, <1>5
  <2>4. taken.block[b].size = h.block[b].size /\ taken.block[b].size >= n + HEADER
    <3>1. taken.block[b].size = h.block[b].size
      BY <1>3, <1>4
    <3> QED BY <1>2, <1>3, <3>1, Places
  <2>5. /\ Sound(g, f, s \cup {[at |-> b + HEADER, size |-> n]})
        /\ Counted(h) /\ SumsTo(Weights(taken), taken.free - taken.block[b].size) => Counted(g)
    BY <1>4, <1>5, <2>1, <2>2, <2>3, <2>4, AllocateSound
  <2> QED BY <1>4, <1>6, <2>4, <2>5
<1>8. CASE Splits(h, b, size)
  <2> DEFINE c == b + size
  <2>1. PICK q \in Listed(cut) \cup {XSTART} :
          Precedes(cut, q, c) /\ g = Allocate(InsertBlock(cut, q, c), b)
    BY <1>8
  <2>2. size < h.block[b].size /\ size < taken.block[b].size /\ taken.block[b].size = h.block[b].size
    BY <1>2, <1>3, <1>4, <1>8, Places DEF Splits
  <2>3. /\ Good(cut) /\ Listed(cut) = Listed(taken) /\ DOMAIN cut.block = DOMAIN taken.block \cup {c}
        /\ c \in Within(cut) /\ c \notin Links /\ c \notin DOMAIN taken.block /\ c # b
        /\ cut.block[c].size = taken.block[b].size - size
        /\ cut.block[b].size = size
        /\ \A a \in DOMAIN taken.block : a # b => cut.block[a] = taken.block[a]
        /\ cut.free = taken.free /\ cut.least = taken.least
    BY <1>2, <1>3, <1>4, <1>5, <2>2, SplitGood
  <2>4. c \in Int /\ c \notin Listed(cut)
    <3>1. Listed(taken) \subseteq DOMAIN taken.block
      BY DEF Listed
    <3> QED BY <1>2, <1>3, <2>3, <3>1
  <2>5. c % ALIGN = 0
    <3>1. ALIGN \in Nat \ {0}
      BY DEF Parameters
    <3>2. b % ALIGN = 0
      BY <1>1, <1>3 DEF AllAligned
    <3> QED BY <1>2, <1>3, <3>1, <3>2, Multiples
  <2> DEFINE put == InsertBlock(cut, q, c)
  <2> HIDE DEF c
  <2>6. /\ Good(put) /\ DOMAIN put.block \subseteq DOMAIN cut.block
        /\ \A a \in Within(cut) \ Listed(cut) : a # c =>
             a \in Within(put) \ Listed(put) /\ put.block[a] = cut.block[a]
        /\ \A a \in Within(put) : a \in Listed(put) \/ (a \notin Listed(cut) /\ a # c)
        /\ put.free = cut.free /\ put.least = cut.least
        /\ \A m \in Int : SumsTo(Weights(cut), m) => SumsTo(Weights(put), m + cut.block[c].size)
    BY <2>1, <2>3, <2>4, InsertGood
  <2> HIDE DEF put
  <2>7. AllAligned(put)
    <3>1. AllAligned(cut)
      BY <1>5, <2>3, <2>5 DEF AllAligned
    <3> QED BY <2>6, <3>1 DEF AllAligned
  <2>8. /\ Within(cut) = Within(taken) \cup {c}
        /\ \A a \in Within(put) : a \in Within(cut)
    BY <2>3, <2>6 DEF Within
  <2>9. b \in Within(put) /\ b \notin Listed(put) /\ put.block[b].size = size
    <3>1. b \in Within(cut) \ Listed(cut) /\ b # c
      BY <1>5, <2>3, <2>8
    <3> QED BY <2>3, <2>6, <3>1
  <2>10. \A a \in Within(h) \ Listed(h) : a \in Within(put) \ Listed(put) /\ put.block[a] = h.block[a]
    <3> SUFFICES ASSUME NEW a \in Within(h) \ Listed(h)
                 PROVE  a \in Within(put) \ Listed(put) /\ put.block[a] = h.block[a]
      OBVIOUS
    <3>1. a \in DOMAIN h.block /\ a \in DOMAIN taken.block /\ a # b /\ a # c
      BY <1>4, <1>5, <2>3
    <3>2. a \in Within(cut) \ Listed(cut) /\ cut.block[a] = h.block[a]
      BY <1>4, <1>5, <2>3, <2>8, <3>1
    <3> QED BY <2>6, <3>1, <3>2
  <2>11. \A a \in Within(put) \ Listed(put) : a = b \/ a \in Within(h) \ Listed(h)
    BY <1>4, <1>5, <2>3, <2>6, <2>8
  <2>12. put.free = h.free /\ put.least = h.least /\ put.block[b].size >= n + HEADER
    BY <1>2, <1>4, <2>3, <2>6, <2>9
  <2>13. g = Allocate(put, b)
    BY <2>1 DEF put
  <2>14. /\ Sound(g, f, s \cup {[at |-> b + HEADER, size |-> n]})
         /\ Counted(h) /\ SumsTo(Weights(put), put.free - put.block[b].size) => Counted(g)
    BY <2>6, <2>7, <2>9, <2>10, <2>11, <2>12, <2>13, AllocateSound
  <2>15. ASSUME Counted(h) PROVE SumsTo(Weights(put), put.free - put.block[b].size)
    <3>1. Weights(cut) = Weights(taken)
      <4>1. \A a \in Listed(taken) : cut.block[a].size = taken.block[a].size
        BY <1>5, <2>3 DEF Listed
      <4> QED BY <2>3, <4>1, SameWeights
    <3> DEFINE m == h.free - h.block[b].size
    <3>2. h.free \in Int
      BY <2>15, Places DEF Counted, SumsTo
    <3>3. m \in Int /\ SumsTo(Weights(cut), m) /\ m + cut.block[c].size = h.free - size
      BY <1>2, <1>3, <1>6, <2>2, <2>3, <2>15, <3>1, <3>2
    <3> HIDE DEF m
    <3>4. SumsTo(Weights(put), m + cut.block[c].size)
      BY <2>6, <3>3
    <3> QED BY <2>9, <2>12, <3>3, <3>4
  <2> QED BY <2>14, <2>15
<1> QED BY <1>7, <1>8

-----------------------------------------------------------------------------
(* The heap before the first allocation.                                   *)

(* The headers that prvHeapInit and vPortDefineHeapRegions write, one by   *)
(* one.                                                                    *)
LEMMA StartFields ==
  ASSUME Parameters, NEW h, h = HeapInit
  PROVE  /\ h = [start |-> h.start, block |-> h.block, free |-> h.free, least |-> h.least]
         /\ h.start = First /\ h.free = Total[Len(Regions)] /\ h.least = h.free
         /\ \A i \in DOMAIN Regions :
              /\ Begin(i) \in DOMAIN h.block /\ Finish(i) \in DOMAIN h.block
              /\ h.block[Begin(i)] \in Header /\ h.block[Finish(i)] \in Header
              /\ h.block[Begin(i)].size = Finish(i) - Begin(i) /\ h.block[Begin(i)].next = Finish(i)
              /\ h.block[Begin(i)].used = FALSE /\ h.block[Finish(i)].used = FALSE
              /\ h.block[Finish(i)].size = 0
              /\ i = Len(Regions) => h.block[Finish(i)] = [size |-> 0, next |-> NULL, used |-> FALSE]
              /\ i # Len(Regions) => h.block[Finish(i)].next = Begin(i + 1)
         /\ \A a \in DOMAIN h.block : \E i \in DOMAIN Regions : a = Begin(i) \/ a = Finish(i)
<1> DEFINE I == DOMAIN Regions
           place(a) == CHOOSE i \in I : a \in {FirstOf(Regions[i]), EndOf(Regions[i])}
           follows(i) == IF i = Len(Regions) THEN NULL ELSE FirstOf(Regions[i + 1])
           header(a) ==
             LET i == place(a)
                 stop == EndOf(Regions[i])
             IN  [size |-> stop - a, next |-> IF a = stop THEN follows(i) ELSE stop, used |-> FALSE]
           places == UNION {{FirstOf(Regions[i]), EndOf(Regions[i])} : i \in I}
           blocks == [a \in places |-> header(a)]
           all == Total[Len(Regions)]
<1>1. h = [start |-> First, free |-> all, least |-> all, block |-> blocks]
  BY DEF HeapInit
<1>2. /\ h = [start |-> h.start, block |-> h.block, free |-> h.free, least |-> h.least]
      /\ h.start = First /\ h.free = all /\ h.least = h.free /\ h.block = blocks
  <2> HIDE DEF blocks, all
  <2> QED BY <1>1
<1>3. ASSUME NEW i \in I, NEW a \in {Begin(i), Finish(i)} PROVE a \in places /\ place(a) = i
  <2>1. a \in {FirstOf(Regions[i]), EndOf(Regions[i])}
    BY <1>3 DEF Begin, Finish
  <2>2. place(a) \in I /\ a \in {FirstOf(Regions[place(a)]), EndOf(Regions[place(a)])}
    BY <2>1
  <2> DEFINE j == place(a)
  <2>3. j \in I /\ a \in {Begin(j), Finish(j)}
    BY <2>2 DEF Begin, Finish
  <2>4. a \in places
    BY <2>1
  <2> HIDE DEF j
  <2>5. /\ Begin(i) \in Nat /\ Finish(i) \in Nat /\ Begin(i) <= Finish(i)
        /\ Begin(j) \in Nat /\ Finish(j) \in Nat /\ Begin(j) <= Finish(j)
    BY <2>3, Places
  <2>6. a \in Int /\ Begin(i) <= a /\ a <= Finish(i) /\ Begin(j) <= a /\ a <= Finish(j)
    BY <1>3, <2>3, <2>5
  <2>7. i = j
    BY <2>3, <2>6, SameRegion
  <2> QED BY <2>4, <2>7 DEF j
<1>4. \A a \in places : \E i \in I : a = Begin(i) \/ a = Finish(i)
  BY DEF Begin, Finish
<1>5. DOMAIN h.block = places /\ \A a \in places : h.block[a] = header(a)
  BY <1>2
<1> HIDE DEF place, places
<1>6. ASSUME NEW i \in I
      PROVE  /\ Begin(i) \in DOMAIN h.block /\ Finish(i) \in DOMAIN h.block
             /\ h.block[Begin(i)] \in Header /\ h.block[Finish(i)] \in Header
             /\ h.block[Begin(i)].size = Finish(i) - Begin(i) /\ h.block[Begin(i)].next = Finish(i)
             /\ h.block[Begin(i)].used = FALSE /\ h.block[Finish(i)].used = FALSE
             /\ h.block[Finish(i)].size = 0
             /\ i = Len(Regions) => h.block[Finish(i)] = [size |-> 0, next |-> NULL, used |-> FALSE]
             /\ i # Len(Regions) => h.block[Finish(i)].next = Begin(i + 1)
  <2>1. Begin(i) \in Nat /\ Finish(i) \in Nat /\ Begin(i) # Finish(i)
    BY Places
  <2>2. place(Begin(i)) = i /\ place(Finish(i)) = i /\ Begin(i) \in places /\ Finish(i) \in places
    BY <1>3
  <2>3. h.block[Begin(i)] = [size |-> Finish(i) - Begin(i), next |-> Finish(i), used |-> FALSE]
    BY <1>5, <2>1, <2>2 DEF Finish
  <2>4. h.block[Finish(i)] = [size |-> Finish(i) - Finish(i), used |-> FALSE,
                              next |-> IF i = Len(Regions) THEN NULL ELSE Begin(i + 1)]
    BY <1>5, <2>2 DEF Begin, Finish
  <2>5. Finish(i) - Finish(i) = 0
    BY <2>1
  <2>6. i # Len(Regions) => i + 1 \in I
    BY RegionFacts
  <2>7. Finish(i) - Begin(i) \in Nat /\ NULL \in Nat /\ (i # Len(Regions) => Begin(i + 1) \in Nat)
    BY <2>6, Places DEF NULL
  <2> DEFINE r == h.block[Begin(i)]
             q == h.block[Finish(i)]
             n == IF i = Len(Regions) THEN NULL ELSE Begin(i + 1)
             d == Finish(i) - Begin(i)
  <2>8. n \in Nat /\ d \in Nat /\ Finish(i) \in Nat
    BY <2>1, <2>7
  <2>9. r = [size |-> d, next |-> Finish(i), used |-> FALSE] /\ q = [size |-> 0, next |-> n, used |-> FALSE]
    BY <2>3, <2>4, <2>5
  <2> HIDE DEF r, q, n, d
  <2>10. /\ r \in Header /\ q \in Header /\ r.size = d /\ r.next = Finish(i)
         /\ r.used = FALSE /\ q.used = FALSE /\ q.size = 0 /\ q.next = n
    BY <2>8, <2>9 DEF Header
  <2>11. i = Len(Regions) => q = [size |-> 0, next |-> NULL, used |-> FALSE]
    BY <2>9 DEF n
  <2>12. i # Len(Regions) => q.next = Begin(i + 1)
    BY <2>10 DEF n
  <2> QED BY <1>5, <2>2, <2>10, <2>11, <2>12 DEF r, q, d
<1> QED BY <1>2, <1>4, <1>5, <1>6

(* They are a good list, with all memory in it.                            *)
LEMMA StartGood ==
  ASSUME Parameters, NEW h, h = HeapInit
  PROVE  /\ Good(h) /\ AllAligned(h) /\ Listed(h) = Within(h)
         /\ \A a \in DOMAIN h.block : \E i \in DOMAIN Regions : a = Begin(i) \/ a = Finish(i)
<1> DEFINE I == DOMAIN Regions
           N == Len(Regions)
<1>1. /\ h = [start |-> h.start, block |-> h.block, free |-> h.free, least |-> h.least]
      /\ h.start = First
      /\ \A i \in I :
           /\ Begin(i) \in DOMAIN h.block /\ Finish(i) \in DOMAIN h.block
           /\ h.block[Begin(i)] \in Header /\ h.block[Finish(i)] \in Header
           /\ h.block[Begin(i)].size = Finish(i) - Begin(i) /\ h.block[Begin(i)].next = Finish(i)
           /\ h.block[Begin(i)].used = FALSE /\ h.block[Finish(i)].used = FALSE
           /\ h.block[Finish(i)].size = 0
           /\ i = N => h.block[Finish(i)] = [size |-> 0, next |-> NULL, used |-> FALSE]
           /\ i # N => h.block[Finish(i)].next = Begin(i + 1)
      /\ \A a \in DOMAIN h.block : \E i \in I : a = Begin(i) \/ a = Finish(i)
  BY StartFields
<1>2. /\ I = 1 .. N /\ N \in Nat /\ N > 0 /\ N \in I /\ 1 \in I /\ NULL = 0 /\ XSTART = -1
      /\ First = Begin(1) /\ End = Finish(N) /\ Links = {Finish(i) : i \in 1 .. N - 1}
      /\ HEADER \in Nat /\ HEADER > 0
      /\ \A i \in I :
           /\ i \in Nat /\ 1 <= i /\ i <= N
           /\ Begin(i) \in Nat /\ Begin(i) > 0 /\ Finish(i) \in Nat /\ Begin(i) + 2 * HEADER <= Finish(i)
           /\ Begin(i) % ALIGN = 0 /\ Finish(i) % ALIGN = 0
           /\ First <= Begin(i) /\ Finish(i) <= End
      /\ \A i, j \in I : i < j => Finish(i) + HEADER <= Begin(j)
  BY RegionFacts, Places DEF NULL, XSTART
<1>3. \A i \in I : Begin(i) \notin Links /\ Begin(i) # End /\ (Finish(i) \in Links <=> i # N) /\ (Finish(i) = End => i = N)
  <2> SUFFICES ASSUME NEW i \in I
               PROVE  /\ Begin(i) \notin Links /\ Begin(i) # End
                      /\ Finish(i) \in Links <=> i # N
                      /\ Finish(i) = End => i = N
    OBVIOUS
  <2>1. Begin(i) < Finish(i) /\ Finish(i) <= End /\ End \in Nat
    BY <1>2
  <2>2. \A l \in Links : l < Begin(i) \/ l >= Finish(i)
    BY Places
  <2>3. i # N => Finish(i) \in Links
    BY <1>2
  <2>4. End \notin Links
    BY Places
  <2>5. i = N => Finish(i) = End
    BY <1>2
  <2>6. i = N \/ i # N
    OBVIOUS
  <2>7. Begin(i) \in Nat /\ Finish(i) \in Nat
    BY <1>2
  <2>8. Begin(i) \notin Links /\ Begin(i) # End
    BY <2>1, <2>2, <2>7
  <2>9. Finish(i) \in Links <=> i # N
    BY <2>3, <2>4, <2>5
  <2>10. Finish(i) = End => i = N
    BY <2>4, <2>9
  <2> QED BY <2>8, <2>9, <2>10
<1>4. \A i \in I : i # N => i + 1 \in I
  BY <1>2
<1>5. \A i \in I : Begin(i) \in Listed(h) /\ (i # N => Finish(i) \in Listed(h)) /\ End \notin Listed(h)
  <2> SUFFICES ASSUME NEW i \in I
               PROVE  Begin(i) \in Listed(h) /\ (i # N => Finish(i) \in Listed(h)) /\ End \notin Listed(h)
    OBVIOUS
  <2>1. /\ Begin(i) \in DOMAIN h.block /\ Finish(i) \in DOMAIN h.block
        /\ h.block[Begin(i)].next = Finish(i)
        /\ i # N => h.block[Finish(i)].next = Begin(i + 1)
    BY <1>1
  <2>4. Finish(i) > 0
    BY <1>2
  <2>2. h.block[End].next = NULL
    <3>1. h.block[Finish(N)] = [size |-> 0, next |-> NULL, used |-> FALSE]
      BY <1>1, <1>2
    <3> QED BY <1>2, <3>1
  <2>3. i # N => Begin(i + 1) # NULL
    BY <1>2, <1>4
  <2>5. NULL = 0
    BY <1>2
  <2> QED BY <2>1, <2>2, <2>3, <2>4, <2>5 DEF Listed
<1>6. \A a \in DOMAIN h.block : a # End => a \in Listed(h)
  BY <1>1, <1>2, <1>5
<1>7. Listed(h) = Within(h)
  BY <1>2, <1>5, <1>6 DEF Listed, Within
<1>8. AllAligned(h)
  <2>1. \A i \in I : Begin(i) % ALIGN = 0 /\ Finish(i) % ALIGN = 0
    BY <1>2
  <2>2. \A a \in DOMAIN h.block : \E i \in I : a = Begin(i) \/ a = Finish(i)
    BY <1>1
  <2> QED BY ONLY <2>1, <2>2 DEF AllAligned
<1>9. \A i \in I : /\ Behind(h, Begin(i)) = Finish(i) /\ Behind(h, Finish(i)) = Finish(i)
                   /\ NextFree(h, Begin(i)) = Finish(i)
                   /\ i # N => NextFree(h, Finish(i)) = Begin(i + 1)
  <2> SUFFICES ASSUME NEW i \in I
               PROVE  /\ Behind(h, Begin(i)) = Finish(i) /\ Behind(h, Finish(i)) = Finish(i)
                      /\ NextFree(h, Begin(i)) = Finish(i)
                      /\ i # N => NextFree(h, Finish(i)) = Begin(i + 1)
    OBVIOUS
  <2>1. /\ h.block[Begin(i)].size = Finish(i) - Begin(i) /\ h.block[Finish(i)].size = 0
        /\ h.block[Begin(i)].next = Finish(i)
        /\ i # N => h.block[Finish(i)].next = Begin(i + 1)
    BY <1>1
  <2>2. Begin(i) \in Nat /\ Finish(i) \in Nat /\ XSTART = -1
    BY <1>2
  <2>3. Begin(i) # XSTART /\ Finish(i) # XSTART
    BY <2>2
  <2> QED BY <2>1, <2>2, <2>3 DEF Behind, NextFree
<1>10. Shape(h)
  <2>1. End \in DOMAIN h.block /\ h.block[End] = [size |-> 0, next |-> NULL, used |-> FALSE]
    BY <1>1, <1>2
  <2>2. DOMAIN h.block \subseteq First .. End
    <3> SUFFICES ASSUME NEW a \in DOMAIN h.block PROVE a \in First .. End
      OBVIOUS
    <3>1. PICK i \in I : a = Begin(i) \/ a = Finish(i)
      BY <1>1
    <3> QED BY <1>2, <3>1
  <2>3. ASSUME NEW a \in DOMAIN h.block PROVE h.block[a] \in Header
    <3>1. PICK i \in I : a = Begin(i) \/ a = Finish(i)
      BY <1>1
    <3> QED BY <1>1, <3>1
  <2>4. ASSUME NEW a \in Within(h)
        PROVE  IF a \in Links THEN a \in Listed(h) /\ h.block[a].size = 0 ELSE h.block[a].size > 0
    <3>1. PICK i \in I : a = Begin(i) \/ a = Finish(i)
      BY <1>1 DEF Within
    <3>2. CASE a = Begin(i)
      <4>1. a \notin Links /\ h.block[a].size = Finish(i) - Begin(i)
        BY <1>1, <1>3, <3>2
      <4>2. Finish(i) - Begin(i) > 0
        BY <1>2
      <4> QED BY <4>1, <4>2
    <3>3. CASE a = Finish(i)
      <4>1. i # N
        BY <1>2, <3>3 DEF Within
      <4> QED BY <1>1, <1>3, <1>5, <3>3, <4>1
    <3> QED BY <3>1, <3>2, <3>3
  <2> QED BY <1>1, <2>1, <2>2, <2>3, <2>4 DEF Shape
<1>11. Tiled(h)
  <2>1. ASSUME NEW a \in DOMAIN h.block, NEW d \in DOMAIN h.block, a < d PROVE Behind(h, a) <= d
    <3>1. PICK i \in I : a = Begin(i) \/ a = Finish(i)
      BY <1>1
    <3>2. PICK j \in I : d = Begin(j) \/ d = Finish(j)
      BY <1>1
    <3>3. Behind(h, a) = Finish(i)
      BY <1>9, <3>1
    <3>4. i < j \/ j < i \/ i = j
      BY <1>2
    <3>5. Begin(i) <= a /\ a <= Finish(i) /\ Begin(j) <= d /\ d <= Finish(j)
      BY <1>2, <3>1, <3>2
    <3>6. CASE i < j
      BY <1>2, <3>2, <3>3, <3>5, <3>6
    <3>7. CASE j < i
      <4>1. Finish(j) + HEADER <= Begin(i)
        BY <1>2, <3>7
      <4> QED BY <1>2, <2>1, <3>1, <3>2, <3>5, <4>1
    <3>8. CASE i = j
      <4>1. a = Begin(i) /\ d = Finish(i)
        BY <1>2, <2>1, <3>1, <3>2, <3>8
      <4> QED BY <1>2, <3>3, <4>1
    <3> QED BY <3>4, <3>6, <3>7, <3>8
  <2>2. ASSUME NEW a \in Within(h)
        PROVE  /\ \E i \in I : Begin(i) <= a /\ Behind(h, a) <= Finish(i)
               /\ Behind(h, a) \in DOMAIN h.block \cup Links
    <3>1. PICK i \in I : a = Begin(i) \/ a = Finish(i)
      BY <1>1 DEF Within
    <3>2. Begin(i) <= a /\ Behind(h, a) = Finish(i) /\ Behind(h, a) <= Finish(i)
      BY <1>2, <1>9, <3>1
    <3> QED BY <1>1, <3>2
  <2> QED BY <1>1, <2>1, <2>2 DEF Tiled
<1>12. Linked(h)
  <2>1. \A b \in Listed(h) : \E j \in I : b = Begin(j) \/ b = Finish(j)
    BY <1>1 DEF Listed
  <2>2. ASSUME NEW q \in Listed(h) \cup {XSTART}
        PROVE  /\ q < NextFree(h, q) /\ NextFree(h, q) \in Listed(h) \cup {End}
               /\ \A b \in Listed(h) : b <= q \/ b >= NextFree(h, q)
    <3>1. CASE q = XSTART
      <4>1. NextFree(h, q) = First /\ First \in Listed(h)
        BY <1>1, <1>2, <1>5, <3>1 DEF NextFree
      <4>2. ASSUME NEW b \in Listed(h) PROVE b >= First
        <5>1. PICK j \in I : b = Begin(j) \/ b = Finish(j)
          BY <2>1
        <5>2. First <= Begin(j) /\ Begin(j) <= Finish(j) /\ First \in Nat /\ Begin(j) \in Nat /\ Finish(j) \in Nat
          BY <1>2, Places
        <5> QED BY <5>1, <5>2
      <4> QED BY <1>2, <3>1, <4>1, <4>2
    <3>2. ASSUME NEW i \in I, q = Begin(i)
          PROVE  /\ q < NextFree(h, q) /\ NextFree(h, q) \in Listed(h) \cup {End}
                 /\ \A b \in Listed(h) : b <= q \/ b >= NextFree(h, q)
      <4>1. NextFree(h, q) = Finish(i) /\ Finish(i) \in Listed(h) \cup {End}
        BY <1>2, <1>5, <1>9, <3>2
      <4>2. ASSUME NEW b \in Listed(h) PROVE b <= q \/ b >= Finish(i)
        <5>1. PICK j \in I : b = Begin(j) \/ b = Finish(j)
          BY <2>1
        <5>2. i < j \/ j < i \/ i = j
          BY <1>2
        <5> QED BY <1>2, <3>2, <5>1, <5>2
      <4> QED BY <1>2, <3>2, <4>1, <4>2
    <3>3. ASSUME NEW i \in I, q = Finish(i), i # N
          PROVE  /\ q < NextFree(h, q) /\ NextFree(h, q) \in Listed(h) \cup {End}
                 /\ \A b \in Listed(h) : b <= q \/ b >= NextFree(h, q)
      <4>1. NextFree(h, q) = Begin(i + 1) /\ Begin(i + 1) \in Listed(h) /\ i + 1 \in I
        BY <1>4, <1>5, <1>9, <3>3
      <4>2. q < Begin(i + 1)
        BY <1>2, <3>3, <4>1
      <4>3. ASSUME NEW b \in Listed(h) PROVE b <= q \/ b >= Begin(i + 1)
        <5>1. PICK j \in I : b = Begin(j) \/ b = Finish(j)
          BY <2>1
        <5>2. j <= i \/ j = i + 1 \/ i + 1 < j
          BY <1>2, <4>1
        <5>3. j < i \/ j = i \/ j = i + 1 \/ i + 1 < j
          BY <1>2, <5>2
        <5> QED BY <1>2, <3>3, <4>1, <5>1, <5>3
      <4> QED BY <4>1, <4>2, <4>3
    <3>4. q # XSTART => \E i \in I : q = Begin(i) \/ (q = Finish(i) /\ i # N)
      BY <1>2, <1>5, <2>1, <2>2
    <3> QED BY <3>1, <3>2, <3>3, <3>4
  <2>3. ASSUME NEW q \in Listed(h) PROVE ~h.block[q].used /\ Behind(h, q) \notin Listed(h) \ Links
    <3>1. PICK i \in I : q = Begin(i) \/ q = Finish(i)
      BY <2>1
    <3>2. Behind(h, q) = Finish(i) /\ ~h.block[q].used
      BY <1>1, <1>9, <3>1
    <3>3. Finish(i) \in Links \/ Finish(i) = End
      BY <1>2, <1>3
    <3> QED BY <1>2, <1>5, <3>2, <3>3
  <2> QED BY <2>2, <2>3 DEF Linked
<1> QED BY <1>1, <1>7, <1>8, <1>10, <1>11, <1>12 DEF Good

(* Among some numbers there is a least one.                                *)
LEMMA LeastOf ==
  ASSUME NEW S \in SUBSET Nat, S # {}
  PROVE  \E x \in S : \A y \in S : x <= y
<1>1. PICK x \in S : \A y \in S : ~(<<y, x>> \in OpToRel(<, Nat))
  BY NatLessThanWellFounded, WFMin
<1>2. \A y \in S : ~(y < x)
  BY <1>1 DEF OpToRel
<1> QED BY <1>2

(* What the regions hold, added up one by one.                             *)
LEMMA TotalSteps ==
  ASSUME Parameters
  PROVE  Total[0] = 0 /\ \A i \in DOMAIN Regions : Total[i] = Total[i - 1] + (Finish(i) - Begin(i))
<1> DEFINE N == Len(Regions)
           d(i) == Finish(i) - Begin(i)
           Adds(t, m) == t = [i \in 0 .. m |-> IF i = 0 THEN 0 ELSE t[i - 1] + d(i)]
           S == {m \in 0 .. N : ~\E t : Adds(t, m)}
<1>1. N \in Nat /\ DOMAIN Regions = 1 .. N
  BY RegionFacts
<1>2. S = {}
  <2> SUFFICES ASSUME S # {} PROVE FALSE
    OBVIOUS
  <2>1. PICK m \in S : \A y \in S : m <= y
    <3>1. S \in SUBSET Nat
      BY <1>1
    <3> HIDE DEF S
    <3> QED BY <3>1, LeastOf
  <2>2. CASE m = 0
    <3> DEFINE t == [i \in 0 .. 0 |-> 0]
    <3>1. t = [i \in 0 .. 0 |-> IF i = 0 THEN 0 ELSE t[i - 1] + d(i)]
      OBVIOUS
    <3>2. Adds(t, m)
      BY <2>2, <3>1
    <3> QED BY <3>2
  <2>3. CASE m # 0
    <3>1. m - 1 \in 0 .. N /\ m - 1 \notin S /\ m \in Nat
      BY <1>1, <2>1, <2>3
    <3>2. PICK t : t = [i \in 0 .. m - 1 |-> IF i = 0 THEN 0 ELSE t[i - 1] + d(i)]
      BY <3>1
    <3> DEFINE u == [i \in 0 .. m |-> IF i = m THEN t[m - 1] + d(m) ELSE t[i]]
    <3>3. \A i \in 0 .. m : u[i] = IF i = 0 THEN 0 ELSE u[i - 1] + d(i)
      <4> SUFFICES ASSUME NEW i \in 0 .. m PROVE u[i] = IF i = 0 THEN 0 ELSE u[i - 1] + d(i)
        OBVIOUS
      <4>1. \A j \in 0 .. m - 1 : t[j] = IF j = 0 THEN 0 ELSE t[j - 1] + d(j)
        BY <3>2
      <4>2. u[i] = (IF i = m THEN t[m - 1] + d(m) ELSE t[i])
            /\ (i # 0 => u[i - 1] = t[i - 1])
        BY <3>1
      <4> HIDE DEF u, d
      <4> QED BY <2>3, <3>1, <4>1, <4>2
    <3>4. u = [i \in 0 .. m |-> u[i]]
      OBVIOUS
    <3> HIDE DEF u, d
    <3>5. Adds(u, m)
      BY <3>3, <3>4
    <3> QED BY <3>5
  <2> QED BY <2>2, <2>3
<1>3. \E t : Adds(t, N)
  BY <1>1, <1>2
<1>4. Adds(Total, N)
  <2>1. Total = CHOOSE t : Adds(t, N)
    BY DEF Total, Begin, Finish
  <2> HIDE DEF Adds
  <2> QED BY <1>3, <2>1
<1> HIDE DEF d
<1>5. \A i \in 0 .. N : Total[i] = IF i = 0 THEN 0 ELSE Total[i - 1] + d(i)
  BY <1>4
<1> QED BY <1>1, <1>5 DEF d

(* It is what the list holds.                                              *)
LEMMA StartCounted ==
  ASSUME Parameters, NEW h, h = HeapInit
  PROVE  Counted(h)
<1> DEFINE N == Len(Regions)
           d(i) == Finish(i) - Begin(i)
           W(n) == [x \in Int |-> IF \E i \in 1 .. n : x = Begin(i) THEN h.block[x].size ELSE 0]
           S == {n \in 0 .. N : ~(Total[n] \in Nat /\ W(n) \in [Int -> Nat] /\ SumsTo(W(n), Total[n]))}
<1>1. N \in Nat /\ DOMAIN Regions = 1 .. N
  BY RegionFacts
<1>2. \A i \in 1 .. N :
        /\ Begin(i) \in Nat /\ First <= Begin(i) /\ Begin(i) < End /\ d(i) \in Nat
        /\ Begin(i) \in DOMAIN h.block /\ h.block[Begin(i)].size = d(i)
        /\ h.block[Finish(i)].size = 0
        /\ \A j \in 1 .. N : Begin(i) = Begin(j) => i = j
  <2> SUFFICES ASSUME NEW i \in 1 .. N
               PROVE  /\ Begin(i) \in Nat /\ First <= Begin(i) /\ Begin(i) < End /\ d(i) \in Nat
                      /\ Begin(i) \in DOMAIN h.block /\ h.block[Begin(i)].size = d(i)
                      /\ h.block[Finish(i)].size = 0
                      /\ \A j \in 1 .. N : Begin(i) = Begin(j) => i = j
    OBVIOUS
  <2>1. i \in DOMAIN Regions
    BY <1>1
  <2>2. /\ Begin(i) \in Nat /\ Finish(i) \in Nat /\ First <= Begin(i) /\ Finish(i) <= End
        /\ Begin(i) + 2 * HEADER <= Finish(i) /\ HEADER \in Nat /\ HEADER > 0 /\ End \in Nat
    BY <2>1, Places
  <2>3. \A j \in 1 .. N : Begin(i) = Begin(j) => i = j
    <3> SUFFICES ASSUME NEW j \in 1 .. N, Begin(i) = Begin(j) PROVE i = j
      OBVIOUS
    <3>1. j \in DOMAIN Regions /\ Begin(j) <= Finish(j)
      BY <1>1, Places
    <3>2. Begin(i) \in Int /\ Begin(i) <= Finish(i)
      BY <2>2
    <3> QED BY <2>1, <2>2, <3>1, <3>2, SameRegion
  <2>4. Begin(i) \in DOMAIN h.block /\ h.block[Begin(i)].size = d(i) /\ h.block[Finish(i)].size = 0
    BY <2>1, StartFields
  <2> QED BY <2>2, <2>3, <2>4
<1> HIDE DEF d
<1>3. S = {}
  <2> SUFFICES ASSUME S # {} PROVE FALSE
    OBVIOUS
  <2>1. PICK m \in S : \A y \in S : m <= y
    <3>1. S \in SUBSET Nat
      BY <1>1
    <3> HIDE DEF S
    <3> QED BY <3>1, LeastOf
  <2>2. CASE m = 0
    <3>1. W(m) = [x \in Int |-> 0]
      BY <2>2
    <3>2. Total[m] = 0
      BY <2>2, TotalSteps
    <3>3. SumsTo(W(m), 0)
      <4> DEFINE below == [x \in Int |-> 0]
      <4>1. First \in Int /\ End \in Int /\ below \in [Int -> Nat] /\ \A x \in Int : below[x] = 0 /\ W(m)[x] = 0
        BY <3>1, Places
      <4> HIDE DEF below, W
      <4>2. \A x \in Int : below[x + 1] = below[x] + W(m)[x]
        BY <4>1
      <4>3. \A x, y \in Int : x <= y => below[x] <= below[y]
        BY <4>1
      <4>4. below[First] = 0 /\ below[End] = 0
        BY <4>1
      <4> QED BY ONLY <4>1, <4>2, <4>3, <4>4 DEF SumsTo
    <3>4. W(m) \in [Int -> Nat]
      BY <3>1
    <3> HIDE DEF W
    <3> QED BY <2>1, <3>2, <3>3, <3>4
  <2>3. CASE m # 0
    <3> DEFINE k == m - 1
               w == W(k)
               v == W(m)
               p == Begin(m)
               n == Total[k]
               z == d(m)
    <3>1. k \in 0 .. N /\ m \in 1 .. N /\ m \in DOMAIN Regions /\ k \notin S /\ m \in Nat
          /\ \A i : i \in 1 .. m <=> i = m \/ i \in 1 .. k
      <4>1. m \in 0 .. N
        BY <2>1
      <4>2. k \in 0 .. N /\ m \in 1 .. N /\ m \in DOMAIN Regions /\ m \in Nat
        BY <1>1, <2>3, <4>1
      <4>3. k \notin S
        <5>1. ~(m <= k)
          BY <1>1, <4>1
        <5> HIDE DEF S, k
        <5> QED BY <2>1, <5>1
      <4>4. \A i : i \in 1 .. m <=> i = m \/ i \in 1 .. k
        BY <4>2
      <4> QED BY <4>2, <4>3, <4>4
    <3>2. n \in Nat /\ w \in [Int -> Nat] /\ SumsTo(w, n)
      BY <3>1
    <3>3. p \in Int /\ First <= p /\ p < End /\ z \in Nat /\ h.block[p].size = z
      BY <1>2, <3>1
    <3>4. \A i \in 1 .. k : Begin(i) # p
      <4> SUFFICES ASSUME NEW i \in 1 .. k, Begin(i) = Begin(m) PROVE FALSE
        OBVIOUS
      <4>1. i \in 1 .. N /\ i # m
        BY <1>1, <3>1
      <4> QED BY <1>2, <3>1, <4>1
    <3>5. w[p] = 0
      BY <3>3, <3>4
    <3>6. v = [w EXCEPT ![p] = z]
      <4>1. \A x \in Int : v[x] = IF x = p THEN z ELSE w[x]
        <5> SUFFICES ASSUME NEW x \in Int PROVE v[x] = IF x = p THEN z ELSE w[x]
          OBVIOUS
        <5>1. v[x] = IF \E i \in 1 .. m : x = Begin(i) THEN h.block[x].size ELSE 0
          OBVIOUS
        <5>2. w[x] = IF \E i \in 1 .. k : x = Begin(i) THEN h.block[x].size ELSE 0
          OBVIOUS
        <5>3. (\E i \in 1 .. m : x = Begin(i)) <=> x = p \/ (\E i \in 1 .. k : x = Begin(i))
          BY <3>1
        <5> HIDE DEF w, v, p, z
        <5> QED BY <3>3, <5>1, <5>2, <5>3
      <4>2. v = [x \in Int |-> v[x]]
        OBVIOUS
      <4> HIDE DEF v, z, p, w
      <4> QED BY <3>2, <3>3, <4>1, <4>2
    <3>7. Total[m] = n + z
      BY <3>1, TotalSteps DEF d
    <3> HIDE DEF w, v, p, n, z, k
    <3>8. n + z = n - w[p] + z /\ n \in Int
      BY <3>2, <3>3, <3>5
    <3>9. SumsTo(v, n + z)
      BY ONLY Parameters, <3>2, <3>3, <3>6, <3>8, SumMoved
    <3>10. v \in [Int -> Nat]
      BY <3>2, <3>3, <3>6
    <3>11. n + z \in Nat
      BY <3>2, <3>3
    <3> QED BY <2>1, <3>7, <3>9, <3>10, <3>11 DEF v
  <2> QED BY <2>2, <2>3
<1>4. Total[N] \in Nat /\ SumsTo(W(N), Total[N])
  BY <1>1, <1>3
<1>5. Weights(h) = W(N)
  <2>1. \A x : x \in Listed(h) =>
          (\E i \in 1 .. N : x = Begin(i)) \/ h.block[x].size = 0
    <3> SUFFICES ASSUME NEW x \in Listed(h)
                 PROVE  (\E i \in 1 .. N : x = Begin(i)) \/ h.block[x].size = 0
      OBVIOUS
    <3>1. PICK i \in 1 .. N : x = Begin(i) \/ x = Finish(i)
      BY <1>1, StartGood DEF Listed
    <3> QED BY <1>2, <3>1
  <2>2. \A i \in 1 .. N : Begin(i) \in Listed(h)
    <3> SUFFICES ASSUME NEW i \in 1 .. N PROVE Begin(i) \in Listed(h)
      OBVIOUS
    <3>1. Begin(i) \in Within(h)
      BY <1>2, Places DEF Within
    <3> QED BY <3>1, StartGood
  <2>3. \A x \in Int : Weights(h)[x] = W(N)[x]
    BY <2>1, <2>2 DEF Weights
  <2> QED BY <2>3 DEF Weights
<1>6. h.free = Total[N] /\ h.least = h.free
  BY StartFields
<1> HIDE DEF W, N
<1> QED BY <1>4, <1>5, <1>6 DEF Counted

-----------------------------------------------------------------------------
(* Before the first allocation there is nothing.                           *)
Fresh == heap = Untouched /\ regions = {} /\ \A t \in Callers : freeing[t] = NULL

(* The inductive invariant.                                                *)
HeapInv ==
  /\ freeing \in [Callers -> Nat]
  /\ Fresh \/ (heap.start # NULL /\ Sound(heap, freeing, regions) /\ Counted(heap))

(* A good list starts somewhere.                                           *)
LEMMA Started ==
  ASSUME Parameters, NEW h, Good(h)
  PROVE  h.start # NULL /\ h.start \in DOMAIN h.block
<1>1. h.start \in Listed(h) \cup {End}
  BY DEF Good, Linked, NextFree
<1>2. h.start \in DOMAIN h.block
  BY <1>1, GoodFacts DEF Listed
<1> QED BY <1>2, GoodFacts, Places DEF NULL

(* What pvPortMalloc works on is sound, also where it has to set the heap  *)
(* up.                                                                     *)
LEMMA ReadySound ==
  ASSUME Parameters, HeapInv
  PROVE  /\ Sound(Ready, freeing, regions) /\ Counted(Ready) /\ Ready.start # NULL
         /\ heap.start # NULL => Ready = heap
<1>1. CASE heap.start # NULL
  <2>1. Ready = heap
    BY <1>1 DEF Ready
  <2>2. ~Fresh
    BY <1>1 DEF Fresh, Untouched
  <2> QED BY <1>1, <2>1, <2>2 DEF HeapInv
<1>2. CASE heap.start = NULL
  <2> DEFINE h == HeapInit
  <2>1. Ready = h /\ Fresh
    BY <1>2 DEF Ready, HeapInv
  <2>2. Good(h) /\ AllAligned(h) /\ Listed(h) = Within(h) /\ Counted(h)
    BY StartGood, StartCounted
  <2>3. h.start # NULL
    BY <2>2, Started
  <2>4. Owned(h, freeing, regions)
    BY <2>1, <2>2 DEF Owned, Fresh
  <2> HIDE DEF h
  <2> QED BY <1>2, <2>1, <2>2, <2>3, <2>4 DEF Sound
<1> QED BY <1>1, <1>2

(* pvPortMalloc, whether it finds a block or not.                          *)
LEMMA MallocStep ==
  ASSUME Parameters, HeapInv, NEW t \in Callers, NEW n \in Nat, Malloc(t, n)
  PROVE  HeapInv'
<1> DEFINE h == Ready
           size == BlockSize(n)
<1>1. Sound(h, freeing, regions) /\ Counted(h) /\ h.start # NULL
  BY ReadySound
<1>2. freeing \in [Callers -> Nat]
  BY DEF HeapInv
<1>3. CASE MallocFails(t, n)
  BY <1>1, <1>2, <1>3 DEF MallocFails, HeapInv
<1>4. ASSUME NEW p \in Listed(h) \cup {XSTART}, NEW b \in Listed(h), MallocFrom(t, n, p, b)
      PROVE  HeapInv'
  <2> DEFINE taken == Unlink(h, p, b)
             cut == Split(taken, b, size)
             g == heap'
             now == regions \cup {[at |-> b + HEADER, size |-> n]}
  <2>1. /\ ~Refuses(h, size) /\ FirstFit(h, b, size) /\ NextFree(h, p) = b
        /\ IF Splits(h, b, size)
           THEN \E q \in Listed(cut) \cup {XSTART} :
                  Precedes(cut, q, b + size) /\ g = Allocate(InsertBlock(cut, q, b + size), b)
           ELSE g = Allocate(taken, b)
        /\ regions' = now /\ freeing' = freeing
    BY <1>4 DEF MallocFrom
  <2> HIDE DEF h
  <2>2. Sound(g, freeing, now) /\ (Counted(h) => Counted(g))
    <3> HIDE DEF g
    <3> QED BY <1>1, <2>1, TakeSound
  <2>3. heap'.start # NULL
    BY <2>2, Started DEF Sound
  <2>4. Sound(heap', freeing', regions') /\ Counted(heap')
    BY <1>1, <2>1, <2>2
  <2> QED BY <1>2, <2>1, <2>3, <2>4 DEF HeapInv
<1> QED BY <1>3, <1>4 DEF Malloc

(* vPortFree, in its two steps.                                            *)
LEMMA FreeStep ==
  ASSUME Parameters, HeapInv, NEW t \in Callers, Free(t)
  PROVE  HeapInv'
<1>1. PICK r \in regions :
        /\ heap.block[r.at - HEADER].used
        /\ heap' = [heap EXCEPT !.block = [a \in DOMAIN @ |->
                      IF a = r.at - HEADER THEN [@[a] EXCEPT !.used = FALSE] ELSE @[a]]]
        /\ freeing' = [freeing EXCEPT ![t] = r.at - HEADER]
        /\ regions' = regions \ {r}
  BY DEF Free
<1> DEFINE b == r.at - HEADER
           h == heap
           g == heap'
<1>2. ~Fresh /\ Sound(h, freeing, regions) /\ Counted(h) /\ freeing \in [Callers -> Nat] /\ freeing[t] = NULL
  BY <1>1 DEF HeapInv, Fresh, Free
<1>3. /\ \A o \in regions :
           /\ o.at \in Int /\ o.size \in Nat
           /\ o.at - HEADER \in Within(h) \ Listed(h) /\ h.block[o.at - HEADER].used
           /\ o.at + o.size <= Behind(h, o.at - HEADER)
           /\ \A q \in regions : q.at = o.at => q = o
      /\ \A u \in Callers : freeing[u] # NULL =>
           /\ freeing[u] \in Within(h) \ Listed(h) /\ ~h.block[freeing[u]].used
           /\ \A v \in Callers : freeing[v] = freeing[u] => v = u
      /\ \A a \in Within(h) \ Listed(h) :
           (\E u \in Callers : freeing[u] = a) \/ (\E o \in regions : o.at = a + HEADER)
  BY <1>2 DEF Sound, Owned
<1>4. /\ Good(h) /\ AllAligned(h) /\ b \in Within(h) /\ b \notin Listed(h) /\ b \in DOMAIN h.block
      /\ b \in Nat /\ b # NULL /\ r.at = b + HEADER /\ HEADER \in Nat
  <2>1. Good(h) /\ AllAligned(h) /\ b \in Within(h) /\ b \notin Listed(h) /\ b \in DOMAIN h.block
    BY <1>2, <1>3 DEF Sound, Within
  <2>2. b \in Nat /\ First <= b
    BY <2>1, GoodFacts
  <2>3. r.at \in Int /\ HEADER \in Nat /\ First > 0 /\ First \in Nat
    BY <1>3, Places
  <2> QED BY <2>1, <2>2, <2>3 DEF NULL
<1> DEFINE blocks == [a \in DOMAIN h.block |->
                        IF a = b THEN [h.block[a] EXCEPT !.used = FALSE] ELSE h.block[a]]
<1>5. g = [h EXCEPT !.block = blocks]
  BY <1>1
<1>6. /\ g.start = h.start /\ g.block = blocks /\ g.free = h.free /\ g.least = h.least
      /\ g = [start |-> g.start, block |-> g.block, free |-> g.free, least |-> g.least]
  <2>1. h = [start |-> h.start, block |-> h.block, free |-> h.free, least |-> h.least]
    BY <1>4 DEF Good, Shape
  <2> HIDE DEF g, h, blocks
  <2>2. g = [start |-> h.start, block |-> blocks, free |-> h.free, least |-> h.least]
    BY <1>5, <2>1, RecordFields
  <2> QED BY <2>2
<1>7. DOMAIN g.block = DOMAIN h.block
      /\ \A a \in DOMAIN h.block :
           /\ g.block[a] \in Header
           /\ g.block[a].size = h.block[a].size /\ g.block[a].next = h.block[a].next
           /\ a # b => g.block[a] = h.block[a]
           /\ a = b => ~g.block[a].used
  <2>1. \A a \in DOMAIN h.block : h.block[a] \in Header
    BY <1>4 DEF Good, Shape
  <2>2. PICK u \in BOOLEAN : u = FALSE
    OBVIOUS
  <2>3. DOMAIN blocks = DOMAIN h.block
        /\ \A a \in DOMAIN h.block :
             blocks[a] = IF a = b THEN [h.block[a] EXCEPT !.used = u] ELSE h.block[a]
    BY <2>2
  <2> HIDE DEF blocks, h, g
  <2>4. ASSUME NEW a \in DOMAIN h.block
        PROVE  /\ blocks[a] \in Header
               /\ blocks[a].size = h.block[a].size /\ blocks[a].next = h.block[a].next
               /\ a # b => blocks[a] = h.block[a]
               /\ a = b => blocks[a].used = u
    <3> DEFINE c == h.block[a]
    <3>1. blocks[a] = IF a = b THEN [c EXCEPT !.used = u] ELSE c
      BY <2>3
    <3>2. c \in Header /\ u \in BOOLEAN
      BY <2>1
    <3>3. [c EXCEPT !.used = u] \in Header /\ [c EXCEPT !.used = u].used = u
          /\ [c EXCEPT !.used = u].size = c.size /\ [c EXCEPT !.used = u].next = c.next
      BY ONLY <3>2, UsedFields
    <3> HIDE DEF c
    <3>4. /\ blocks[a] \in Header
          /\ blocks[a].size = c.size /\ blocks[a].next = c.next
          /\ a # b => blocks[a] = c
          /\ a = b => blocks[a].used = u
      BY <3>1, <3>2, <3>3
    <3> QED BY <3>4 DEF c
  <2> QED BY <1>6, <2>2, <2>3, <2>4
<1> HIDE DEF blocks, g, h, b
<1>8. Good(g) /\ Listed(g) = Listed(h)
  BY <1>4, <1>6, <1>7, MarkGood
<1>9. Within(g) = Within(h) /\ AllAligned(g) /\ (\A a \in DOMAIN h.block : Behind(g, a) = Behind(h, a))
      /\ \A a \in Within(h) : a \in DOMAIN h.block
  BY <1>4, <1>7 DEF Within, AllAligned, Behind
<1> DEFINE f == [freeing EXCEPT ![t] = b]
           s == regions \ {r}
<1>10. /\ f \in [Callers -> Nat] /\ f[t] = b /\ \A u \in Callers : u # t => f[u] = freeing[u]
  BY <1>2, <1>4
<1>11. \A u \in Callers : freeing[u] # b
  BY <1>1, <1>3, <1>4 DEF b, h
<1> HIDE DEF f
<1>12. Owned(g, f, s)
  <2>1. ASSUME NEW o \in s
        PROVE  /\ o.at \in Int /\ o.size \in Nat
               /\ o.at - HEADER \in Within(g) \ Listed(g) /\ g.block[o.at - HEADER].used
               /\ o.at + o.size <= Behind(g, o.at - HEADER)
               /\ \A q \in s : q.at = o.at => q = o
    <3>1. o \in regions /\ o # r /\ o.at # r.at /\ o.at \in Int
      BY <1>3
    <3>2. o.at - HEADER # b
      BY <1>4, <3>1
    <3>3. o.at - HEADER \in DOMAIN h.block
      BY <1>3, <1>9, <3>1
    <3>4. g.block[o.at - HEADER].used
      BY <1>3, <1>7, <3>1, <3>2, <3>3
    <3> QED BY <1>3, <1>8, <1>9, <3>1, <3>3, <3>4
  <2>2. ASSUME NEW u \in Callers, f[u] # NULL
        PROVE  /\ f[u] \in Within(g) \ Listed(g) /\ ~g.block[f[u]].used
               /\ \A v \in Callers : f[v] = f[u] => v = u
    <3>1. CASE u = t
      BY <1>4, <1>7, <1>8, <1>9, <1>10, <1>11, <3>1
    <3>2. CASE u # t
      <4>1. f[u] = freeing[u] /\ freeing[u] \in Within(h) \ Listed(h) /\ ~h.block[freeing[u]].used /\ freeing[u] # b
        BY <1>3, <1>10, <1>11, <2>2, <3>2
      <4>2. ~g.block[f[u]].used
        BY <1>7, <1>9, <4>1
      <4>3. \A v \in Callers : f[v] = f[u] => v = u
        BY <1>3, <1>10, <2>2, <3>2, <4>1
      <4> QED BY <1>8, <1>9, <4>1, <4>2, <4>3
    <3> QED BY <3>1, <3>2
  <2>3. ASSUME NEW a \in Within(g) \ Listed(g)
        PROVE  (\E u \in Callers : f[u] = a) \/ (\E o \in s : o.at = a + HEADER)
    <3>1. CASE a = b
      BY <1>10, <3>1
    <3>2. CASE a # b
      <4>1. a \in Within(h) \ Listed(h) /\ a \in Nat
        BY <1>4, <1>8, <1>9, GoodFacts
      <4>2. CASE \E u \in Callers : freeing[u] = a
        <5>1. PICK u \in Callers : freeing[u] = a
          BY <4>2
        <5>2. a # NULL
          BY <1>4, <1>9, <4>1, GoodFacts, Places DEF NULL
        <5>3. u # t
          BY <1>2, <5>1, <5>2
        <5> QED BY <1>10, <5>1, <5>3
      <4>3. CASE \E o \in regions : o.at = a + HEADER
        <5>1. PICK o \in regions : o.at = a + HEADER
          BY <4>3
        <5>2. o # r
          BY <1>4, <3>2, <4>1, <5>1
        <5> QED BY <5>1, <5>2
      <4> QED BY <1>3, <4>1, <4>2, <4>3
    <3> QED BY <3>1, <3>2
  <2> QED BY <2>1, <2>2, <2>3 DEF Owned
<1>13. Counted(g)
  <2>1. \A a \in Listed(h) : g.block[a].size = h.block[a].size
    BY <1>7 DEF Listed
  <2>2. Weights(g) = Weights(h)
    BY <1>8, <2>1, SameWeights
  <2> QED BY <1>2, <1>6, <2>2 DEF Counted
<1>14. g.start # NULL
  BY <1>8, Started
<1>15. Sound(g, f, s)
  BY <1>8, <1>9, <1>12 DEF Sound
<1> QED BY <1>1, <1>10, <1>13, <1>14, <1>15 DEF HeapInv, f, g, b

(* vPortFree with the scheduler suspended.                                 *)
LEMMA PutBackStep ==
  ASSUME Parameters, HeapInv, NEW t \in Callers, PutBack(t)
  PROVE  HeapInv'
<1> DEFINE h == heap
           b == freeing[t]
           z == heap.block[b].size
           back == [heap EXCEPT !.free = @ + heap.block[b].size]
           g == heap'
<1>1. b # NULL /\ freeing' = [freeing EXCEPT ![t] = NULL] /\ regions' = regions
  BY DEF PutBack
<1>2. PICK p \in Listed(h) \cup {XSTART} : Precedes(h, p, b) /\ g = InsertBlock(back, p, b)
  BY DEF PutBack
<1>3. ~Fresh /\ Sound(h, freeing, regions) /\ Counted(h) /\ freeing \in [Callers -> Nat]
  BY <1>1 DEF HeapInv, Fresh
<1>4. /\ \A o \in regions :
           /\ o.at \in Int /\ o.size \in Nat
           /\ o.at - HEADER \in Within(h) \ Listed(h) /\ h.block[o.at - HEADER].used
           /\ o.at + o.size <= Behind(h, o.at - HEADER)
           /\ \A q \in regions : q.at = o.at => q = o
      /\ \A u \in Callers : freeing[u] # NULL =>
           /\ freeing[u] \in Within(h) \ Listed(h) /\ ~h.block[freeing[u]].used
           /\ \A v \in Callers : freeing[v] = freeing[u] => v = u
      /\ \A a \in Within(h) \ Listed(h) :
           (\E u \in Callers : freeing[u] = a) \/ (\E o \in regions : o.at = a + HEADER)
  BY <1>3 DEF Sound, Owned
<1>5. /\ Good(h) /\ AllAligned(h) /\ b \in Within(h) /\ b \notin Listed(h) /\ b \in DOMAIN h.block
      /\ ~h.block[b].used /\ z \in Nat /\ h.free \in Nat
  <2>1. Good(h) /\ AllAligned(h) /\ b \in Within(h) /\ b \notin Listed(h) /\ b \in DOMAIN h.block
        /\ ~h.block[b].used
    BY <1>1, <1>3, <1>4 DEF Sound, Within
  <2>2. z \in Nat
    BY <2>1, GoodFacts
  <2>3. h.free \in Nat
    BY <1>3, SumTyped DEF Counted
  <2> QED BY <2>1, <2>2, <2>3
<1>6. b \notin Links
  BY <1>5, GoodFacts
<1>7. /\ back.start = h.start /\ back.block = h.block /\ back.free = h.free + z /\ back.least = h.least
      /\ back = [start |-> back.start, block |-> back.block, free |-> back.free, least |-> back.least]
  <2>1. h = [start |-> h.start, block |-> h.block, free |-> h.free, least |-> h.least]
    BY <1>5 DEF Good, Shape
  <2> DEFINE k == h.free + z
  <2>2. back = [h EXCEPT !.free = k]
    OBVIOUS
  <2> HIDE DEF back, h, k
  <2>3. back = [start |-> h.start, block |-> h.block, free |-> k, least |-> h.least]
    BY <2>1, <2>2, RecordFields
  <2> QED BY <2>3 DEF k, h
<1> HIDE DEF back, h, g, b
<1>8. /\ Listed(back) = Listed(h) /\ Within(back) = Within(h) /\ Weights(back) = Weights(h)
      /\ \A q : NextFree(back, q) = NextFree(h, q)
      /\ \A q : Behind(back, q) = Behind(h, q)
  BY <1>7 DEF Listed, Within, Weights, NextFree, Behind
<1>9. Good(back)
  <2>1. Shape(back)
    BY <1>5, <1>7, <1>8 DEF Good, Shape
  <2>2. Tiled(back)
    BY <1>5, <1>7, <1>8 DEF Good, Tiled
  <2>3. Linked(back)
    BY <1>5, <1>7, <1>8 DEF Good, Linked
  <2> QED BY <2>1, <2>2, <2>3 DEF Good
<1>10. Precedes(back, p, b) /\ b \in Within(back) /\ b \notin Listed(back) /\ p \in Listed(back) \cup {XSTART}
  BY <1>2, <1>5, <1>8 DEF Precedes
<1>11. /\ Good(g) /\ DOMAIN g.block \subseteq DOMAIN h.block
       /\ \A a \in Within(h) \ Listed(h) : a # b =>
            a \in Within(g) \ Listed(g) /\ g.block[a] = h.block[a]
       /\ \A a \in Within(g) : a \in Listed(g) \/ (a \notin Listed(h) /\ a # b)
       /\ g.free = h.free + z /\ g.least = h.least
       /\ \A n \in Int : SumsTo(Weights(h), n) => SumsTo(Weights(g), n + h.block[b].size)
  <2>1. /\ Good(g) /\ DOMAIN g.block \subseteq DOMAIN back.block
        /\ \A a \in Within(back) \ Listed(back) : a # b =>
             a \in Within(g) \ Listed(g) /\ g.block[a] = back.block[a]
        /\ \A a \in Within(g) : a \in Listed(g) \/ (a \notin Listed(back) /\ a # b)
        /\ g.free = back.free /\ g.least = back.least
        /\ \A n \in Int : SumsTo(Weights(back), n) => SumsTo(Weights(g), n + back.block[b].size)
    BY <1>2, <1>6, <1>9, <1>10, InsertGood
  <2> QED BY <1>7, <1>8, <2>1
<1>12. AllAligned(g) /\ \A a \in Within(g) : a \in Within(h)
  BY <1>5, <1>11 DEF AllAligned, Within
<1> DEFINE f == [freeing EXCEPT ![t] = NULL]
<1>13. f \in [Callers -> Nat] /\ f[t] = NULL /\ \A u \in Callers : u # t => f[u] = freeing[u]
  BY <1>3 DEF NULL
<1> HIDE DEF f
<1>14. Owned(g, f, regions)
  <2>1. ASSUME NEW o \in regions
        PROVE  /\ o.at \in Int /\ o.size \in Nat
               /\ o.at - HEADER \in Within(g) \ Listed(g) /\ g.block[o.at - HEADER].used
               /\ o.at + o.size <= Behind(g, o.at - HEADER)
               /\ \A q \in regions : q.at = o.at => q = o
    <3> DEFINE a == o.at - HEADER
    <3>1. /\ o.at \in Int /\ o.size \in Nat /\ a \in Within(h) \ Listed(h) /\ h.block[a].used
          /\ o.at + o.size <= Behind(h, a) /\ \A q \in regions : q.at = o.at => q = o
      BY <1>4
    <3>2. a # b
      BY <1>5, <3>1
    <3> HIDE DEF a
    <3>3. a \in Within(g) \ Listed(g) /\ g.block[a] = h.block[a]
      BY <1>11, <3>1, <3>2
    <3>4. Behind(g, a) = Behind(h, a)
      BY <3>3 DEF Behind
    <3> QED BY <3>1, <3>3, <3>4 DEF a
  <2>2. ASSUME NEW u \in Callers, f[u] # NULL
        PROVE  /\ f[u] \in Within(g) \ Listed(g) /\ ~g.block[f[u]].used
               /\ \A v \in Callers : f[v] = f[u] => v = u
    <3>1. u # t /\ f[u] = freeing[u]
      BY <1>13, <2>2
    <3>2. f[u] \in Within(h) \ Listed(h) /\ ~h.block[f[u]].used
          /\ \A v \in Callers : freeing[v] = freeing[u] => v = u
      BY <1>4, <2>2, <3>1
    <3>3. f[u] # b
      BY <3>1, <3>2 DEF b
    <3>4. \A v \in Callers : f[v] = f[u] => v = u
      BY <1>13, <2>2, <3>1, <3>2
    <3> QED BY <1>11, <3>2, <3>3, <3>4
  <2>3. ASSUME NEW a \in Within(g) \ Listed(g)
        PROVE  (\E u \in Callers : f[u] = a) \/ (\E o \in regions : o.at = a + HEADER)
    <3>1. a \in Within(h) \ Listed(h) /\ a # b
      BY <1>11, <1>12
    <3>2. \A u \in Callers : freeing[u] = a => f[u] = a
      BY <1>13, <3>1 DEF b
    <3> QED BY <1>4, <3>1, <3>2
  <2> QED BY <2>1, <2>2, <2>3 DEF Owned
<1>15. Counted(g)
  <2>1. h.free \in Int /\ SumsTo(Weights(h), h.free) /\ h.least \in 0 .. h.free
    BY <1>3, <1>5 DEF Counted
  <2>2. SumsTo(Weights(g), h.free + h.block[b].size)
    BY <1>11, <2>1
  <2>3. z = h.block[b].size
    BY DEF h
  <2> HIDE DEF z
  <2> QED BY <1>5, <1>11, <2>1, <2>2, <2>3 DEF Counted
<1>16. g.start # NULL
  BY <1>11, Started
<1>17. Sound(g, f, regions)
  BY <1>11, <1>12, <1>14 DEF Sound
<1> QED BY <1>1, <1>13, <1>15, <1>16, <1>17 DEF HeapInv, f, g

-----------------------------------------------------------------------------
(* What is counted are the bytes of the free blocks.                       *)
BytesOf(h) == {x \in First .. End : \E b \in Listed(h) : b <= x /\ x < Behind(h, b)}

(* A sum of the sizes of the listed blocks is the number of bytes in them: *)
(* counted upwards, address by address.                                    *)
LEMMA BytesCounted ==
  ASSUME Parameters, NEW h, Good(h), NEW n, SumsTo(Weights(h), n)
  PROVE  IsFiniteSet(BytesOf(h)) /\ n = Cardinality(BytesOf(h))
<1> DEFINE Up(x) == {y \in BytesOf(h) : y < x}
           Over(x, b) == b < x /\ x < Behind(h, b)
           w == Weights(h)
<1>1. PICK below \in [Int -> Nat] :
        /\ below[First] = 0 /\ below[End] = n
        /\ \A x \in Int : below[x + 1] = below[x] + w[x]
  BY DEF SumsTo
<1> DEFINE P(x) ==
             /\ IsFiniteSet(Up(x)) /\ Cardinality(Up(x)) \in Nat
             /\ \A b \in Listed(h) : Over(x, b) => Cardinality(Up(x)) + (Behind(h, b) - x) = below[x]
             /\ (\A b \in Listed(h) : ~Over(x, b)) => Cardinality(Up(x)) = below[x]
           S == {x \in First .. End : ~P(x)}
<1>2. First \in Nat /\ End \in Nat /\ First <= End
  <2>1. 1 \in DOMAIN Regions
    BY RegionFacts
  <2>2. /\ Begin(1) \in Nat /\ Finish(1) \in Nat /\ First <= Begin(1) /\ Finish(1) <= End
        /\ Begin(1) + 2 * HEADER <= Finish(1) /\ HEADER \in Nat
    BY <2>1, Places
  <2> QED BY <2>2, Places
<1>3. /\ \A b \in Listed(h) :
           /\ b \in Nat /\ First <= b /\ b < End /\ h.block[b].size \in Nat
           /\ Behind(h, b) = b + h.block[b].size /\ Behind(h, b) \in Nat /\ Behind(h, b) <= End
           /\ w[b] = h.block[b].size
      /\ \A b, c \in Listed(h) : b < c => Behind(h, b) <= c
      /\ \A x \in Int : x \notin Listed(h) => w[x] = 0
  <2>1. \A b \in Listed(h) : b \in DOMAIN h.block /\ b # End
    BY GoodFacts DEF Within
  <2>2. ASSUME NEW b \in Listed(h)
        PROVE  /\ b \in Nat /\ First <= b /\ b < End /\ h.block[b].size \in Nat
               /\ Behind(h, b) = b + h.block[b].size /\ Behind(h, b) \in Nat
    BY <2>1, GoodFacts DEF Behind
  <2>3. End \in DOMAIN h.block /\ \A b, c \in DOMAIN h.block : b < c => Behind(h, b) <= c
    BY GoodFacts DEF Good, Tiled
  <2>4. \A b \in Listed(h) : Behind(h, b) <= End
    BY <2>1, <2>2, <2>3
  <2>5. \A b, c \in Listed(h) : b < c => Behind(h, b) <= c
    BY <2>1, <2>3
  <2>6. \A b \in Listed(h) : w[b] = h.block[b].size
    <3>1. \A b \in Listed(h) : b \in Int
      BY <2>2
    <3> QED BY <3>1 DEF Weights
  <2>7. \A x \in Int : x \notin Listed(h) => w[x] = 0
    BY DEF Weights
  <2> QED BY <2>2, <2>4, <2>5, <2>6, <2>7
<1> HIDE DEF w
<1>4. \A x : x \in BytesOf(h) <=> x \in First .. End /\ \E b \in Listed(h) : b <= x /\ x < Behind(h, b)
  BY DEF BytesOf
<1>5. S = {}
  <2> SUFFICES ASSUME S # {} PROVE FALSE
    OBVIOUS
  <2>1. PICK m \in S : \A y \in S : m <= y
    <3>1. S \in SUBSET Nat
      BY <1>2
    <3> HIDE DEF S
    <3> QED BY <3>1, LeastOf
  <2>2. m \in First .. End /\ ~P(m)
    BY <2>1
  <2>3. CASE m = First
    <3>1. Up(m) = {}
      BY <1>2, <1>4, <2>3
    <3>2. \A b \in Listed(h) : ~Over(m, b)
      BY <1>2, <1>3, <2>3
    <3>3. IsFiniteSet({}) /\ Cardinality({}) = 0
      BY FS_EmptySet
    <3>4. below[m] = 0
      BY <1>1, <2>3
    <3>5. IsFiniteSet(Up(m)) /\ Cardinality(Up(m)) = 0
      BY <3>1, <3>3
    <3> HIDE DEF Up, Over
    <3> QED BY <2>2, <3>2, <3>4, <3>5
  <2>4. CASE m # First
    <3> DEFINE x == m - 1
               U == Up(x)
    <3>1. x \in Int /\ x \in Nat /\ First <= x /\ x < End /\ m = x + 1 /\ x \in First .. End
      BY <1>2, <2>2, <2>4
    <3>2. P(x)
      <4>1. x \notin S
        <5> HIDE DEF S
        <5> QED BY <1>2, <2>1, <2>2, <3>1
      <4> QED BY <3>1, <4>1
    <3>3. /\ IsFiniteSet(U) /\ Cardinality(U) \in Nat
          /\ \A b \in Listed(h) : b < x /\ x < Behind(h, b) => Cardinality(U) + (Behind(h, b) - x) = below[x]
          /\ (\A b \in Listed(h) : ~(b < x /\ x < Behind(h, b))) => Cardinality(U) = below[x]
      BY <3>2
    <3>4. below[m] = below[x] + w[x] /\ below[x] \in Nat
      BY <1>1, <3>1
    <3>5. x \in BytesOf(h) => Up(m) = U \cup {x}
      BY <1>2, <1>4, <3>1
    <3>6. x \notin BytesOf(h) => Up(m) = U
      BY <1>2, <1>4, <3>1
    <3>7. x \notin U
      BY <3>1
    <3> HIDE DEF x
    <3>8. x \in BytesOf(h) => IsFiniteSet(Up(m)) /\ Cardinality(Up(m)) = Cardinality(U) + 1
      <4> HIDE DEF U, Up
      <4> QED BY <3>3, <3>5, <3>7, FS_AddElement
    <3>9. x \notin BytesOf(h) => IsFiniteSet(Up(m)) /\ Cardinality(Up(m)) = Cardinality(U)
      BY <3>3, <3>6
    <3> DEFINE k == Cardinality(U)
               j == Cardinality(Up(m))
    <3>10. /\ k \in Nat /\ (x \in BytesOf(h) => j = k + 1) /\ (x \notin BytesOf(h) => j = k)
           /\ IsFiniteSet(Up(m)) /\ j \in Nat
      BY <3>3, <3>8, <3>9
    <3>11. /\ \A b \in Listed(h) : b < x /\ x < Behind(h, b) => k + (Behind(h, b) - x) = below[x]
           /\ (\A b \in Listed(h) : ~(b < x /\ x < Behind(h, b))) => k = below[x]
      BY <3>3
    <3>12. \A b \in Listed(h) : b < m /\ m < Behind(h, b) => j + (Behind(h, b) - m) = below[m]
      <4> HIDE DEF k, j, U, Up
      <4> SUFFICES ASSUME NEW b \in Listed(h), b < m, m < Behind(h, b)
                   PROVE  j + (Behind(h, b) - m) = below[m]
        OBVIOUS
      <4>1. b \in Nat /\ Behind(h, b) \in Nat /\ b <= x /\ x < Behind(h, b)
        BY <1>3, <3>1
      <4>2. j = k + 1
        BY <1>4, <3>1, <3>10, <4>1
      <4>3. CASE b = x
        <5>1. \A c \in Listed(h) : ~(c < x /\ x < Behind(h, c))
          BY <1>3, <4>3
        <5>2. k = below[x] /\ w[x] = h.block[x].size /\ Behind(h, b) = x + h.block[x].size /\ h.block[x].size \in Nat
          BY <1>3, <3>11, <4>3, <5>1
        <5> QED BY <3>1, <3>4, <3>10, <4>2, <5>2
      <4>4. CASE b # x
        <5>1. x \notin Listed(h)
          BY <1>3, <3>1, <4>1, <4>4
        <5>2. w[x] = 0 /\ k + (Behind(h, b) - x) = below[x]
          BY <1>3, <3>1, <3>11, <4>1, <4>4, <5>1
        <5> QED BY <3>1, <3>4, <3>10, <4>1, <4>2, <5>2
      <4> QED BY <4>3, <4>4
    <3>13. (\A b \in Listed(h) : ~(b < m /\ m < Behind(h, b))) => j = below[m]
      <4> HIDE DEF k, j, U, Up
      <4> SUFFICES ASSUME \A b \in Listed(h) : ~(b < m /\ m < Behind(h, b)) PROVE j = below[m]
        OBVIOUS
      <4>1. CASE x \in BytesOf(h)
        <5>1. PICK b \in Listed(h) : b <= x /\ x < Behind(h, b)
          BY <1>4, <4>1
        <5>2. b \in Nat /\ Behind(h, b) \in Nat /\ Behind(h, b) = x + 1
          BY <1>3, <3>1, <5>1
        <5>3. j = k + 1
          BY <3>10, <4>1
        <5>4. CASE b = x
          <6>1. \A c \in Listed(h) : ~(c < x /\ x < Behind(h, c))
            BY <1>3, <5>4
          <6>2. k = below[x] /\ w[x] = h.block[x].size /\ Behind(h, b) = x + h.block[x].size /\ h.block[x].size \in Nat
            BY <1>3, <3>11, <5>4, <6>1
          <6> QED BY <3>1, <3>4, <3>10, <5>2, <5>3, <6>2
        <5>5. CASE b # x
          <6>1. b < x /\ x \notin Listed(h)
            BY <1>3, <3>1, <5>1, <5>2, <5>5
          <6>2. w[x] = 0 /\ k + (Behind(h, b) - x) = below[x]
            BY <1>3, <3>1, <3>11, <5>1, <6>1
          <6> QED BY <3>1, <3>4, <3>10, <5>2, <5>3, <6>2
        <5> QED BY <5>4, <5>5
      <4>2. CASE x \notin BytesOf(h)
        <5>1. \A b \in Listed(h) : ~(b <= x /\ x < Behind(h, b))
          BY <1>4, <3>1, <4>2
        <5>2. \A b \in Listed(h) : ~(b < x /\ x < Behind(h, b))
          BY <1>3, <3>1, <5>1
        <5>3. k = below[x] /\ j = k
          BY <3>10, <3>11, <4>2, <5>2
        <5>4. w[x] = 0
          <6>1. CASE x \in Listed(h)
            <7>1. ~(x < Behind(h, x)) /\ Behind(h, x) = x + h.block[x].size /\ h.block[x].size \in Nat
                  /\ w[x] = h.block[x].size
              BY <1>3, <3>1, <5>1, <6>1
            <7> QED BY <3>1, <7>1
          <6> QED BY <1>3, <3>1, <6>1
        <5> QED BY <3>1, <3>4, <3>10, <5>3, <5>4
      <4> QED BY <4>1, <4>2
    <3>14. P(m)
      <4> HIDE DEF Up, BytesOf
      <4> QED BY <3>10, <3>12, <3>13
    <3> QED BY <2>2, <3>14
  <2> QED BY <2>3, <2>4
<1>6. P(End)
  <2>1. End \in First .. End
    BY <1>2
  <2> HIDE DEF P
  <2>2. End \notin S
    <3> HIDE DEF S
    <3> QED BY <1>5
  <2> QED BY <2>1, <2>2
<1>7. \A b \in Listed(h) : ~Over(End, b)
  BY <1>2, <1>3
<1>8. Up(End) = BytesOf(h)
  BY <1>2, <1>3, <1>4
<1>9. IsFiniteSet(Up(End)) /\ Cardinality(Up(End)) = below[End]
  BY <1>6, <1>7
<1> QED BY <1>1, <1>8, <1>9

-----------------------------------------------------------------------------
(* When a request is refused.                                              *)
LEMMA LargestFacts ==
  ASSUME Parameters, NEW h, Good(h)
  PROVE  /\ Largest(h) \in Nat /\ \A b \in Listed(h) : h.block[b].size <= Largest(h)
         /\ Largest(h) = 0 \/ \E b \in Listed(h) : h.block[b].size = Largest(h)
         /\ \A b \in Within(h) : h.block[b].size \in 0 .. End - First
<1> DEFINE S == {0} \cup {h.block[b].size : b \in Listed(h)}
           K == {k \in Nat : \E x \in S : k = End - x}
<1>1. ASSUME NEW b \in Within(h) PROVE h.block[b].size \in 0 .. End - First
  <2>1. b \in DOMAIN h.block /\ b # End
    BY DEF Within
  <2>2. b \in Nat /\ First <= b /\ b < End /\ h.block[b].size \in Nat /\ Behind(h, b) = b + h.block[b].size
    BY <2>1, GoodFacts DEF Behind
  <2>3. Behind(h, b) <= End
    BY <2>1, <2>2, GoodFacts DEF Good, Tiled
  <2> QED BY <2>2, <2>3, Places
<1>2. First \in Nat /\ End \in Nat
  BY Places
<1>3. \A x \in S : x \in Nat /\ x <= End
  <2>1. \A b \in Listed(h) : h.block[b].size \in 0 .. End - First
    BY <1>1, GoodFacts
  <2> QED BY <1>2, <2>1
<1>4. \E x \in S : \A y \in S : x >= y
  <2>1. K \in SUBSET Nat
    OBVIOUS
  <2>2. End \in K
    <3>1. 0 \in S /\ End = End - 0
      BY <1>2
    <3> HIDE DEF S
    <3> QED BY <1>2, <3>1
  <2>3. PICK k \in K : \A j \in K : k <= j
    <3> HIDE DEF K
    <3> QED BY <2>1, <2>2, LeastOf
  <2> HIDE DEF S
  <2>4. PICK x \in S : k = End - x
    OBVIOUS
  <2>5. ASSUME NEW y \in S PROVE x >= y
    <3>1. y \in Nat /\ y <= End /\ x \in Nat /\ x <= End
      BY <1>3
    <3>2. End - y \in K
      BY <1>2, <3>1
    <3>3. k <= End - y
      BY <2>3, <3>2
    <3> QED BY <1>2, <2>4, <3>1, <3>3
  <2> QED BY <2>5
<1>5. Largest(h) = CHOOSE x \in S : \A y \in S : x >= y
  BY DEF Largest, Max
<1>6. Largest(h) \in S /\ \A y \in S : Largest(h) >= y
  <2> HIDE DEF S
  <2> QED BY <1>4, <1>5
<1>7. \A b \in Listed(h) : h.block[b].size \in S
  OBVIOUS
<1> QED BY <1>1, <1>3, <1>6, <1>7

(* A stretch of memory in which nobody has anything lies in one block of   *)
(* the list: were there an end of a block in it, the next one would be in  *)
(* the list as well, and they would have been made one.                    *)
LEMMA RoomIsOneBlock ==
  ASSUME Parameters, NEW h, Good(h), NEW size \in Nat, size > 0,
         NEW i \in DOMAIN Regions, NEW a \in Int, Begin(i) <= a, a + size <= Finish(i),
         \A b \in Within(h) \ Listed(h) : Behind(h, b) <= a \/ b >= a + size
  PROVE  \E b \in Listed(h) : h.block[b].size >= size
<1> DEFINE K == {k \in Nat : \E c \in DOMAIN h.block : c <= a /\ k = a - c}
<1>1. /\ Begin(i) \in Nat /\ Finish(i) \in Nat /\ Finish(i) <= End /\ End \in Nat
      /\ Begin(i) \in DOMAIN h.block
  BY Places DEF Good, Tiled
<1>2. \A c \in DOMAIN h.block : c \in Nat /\ h.block[c].size \in Nat /\ Behind(h, c) \in Nat
                                /\ Behind(h, c) = c + h.block[c].size
  BY GoodFacts DEF Behind
<1>3. PICK c \in DOMAIN h.block : c <= a /\ \A d \in DOMAIN h.block : d <= a => d <= c
  <2>1. K \in SUBSET Nat
    OBVIOUS
  <2>2. a - Begin(i) \in K
    BY <1>1
  <2>3. PICK k \in K : \A j \in K : k <= j
    <3> HIDE DEF K
    <3> QED BY <2>1, <2>2, LeastOf
  <2>4. PICK c \in DOMAIN h.block : c <= a /\ k = a - c
    BY <2>3
  <2>5. ASSUME NEW d \in DOMAIN h.block, d <= a PROVE d <= c
    <3>1. d \in Nat /\ c \in Nat
      BY <1>2
    <3>2. a - d \in K
      BY <2>5, <3>1
    <3>3. k <= a - d
      BY <2>3, <3>2
    <3> QED BY <2>4, <3>1, <3>3
  <2> QED BY <2>4, <2>5
<1>4. /\ c \in Nat /\ Begin(i) <= c /\ c < Finish(i) /\ c # End /\ c \in Within(h)
  BY <1>1, <1>2, <1>3 DEF Within
<1>5. \A l \in Links : l < Begin(i) \/ l >= Finish(i)
  BY Places
<1>6. c \notin Links /\ h.block[c].size > 0
  <2>1. c \notin Links
    BY <1>1, <1>4, <1>5
  <2> QED BY <1>4, <2>1, GoodFacts
<1>7. Behind(h, c) \in DOMAIN h.block \/ Behind(h, c) \in Links
  BY <1>4 DEF Good, Tiled
<1>8. Behind(h, c) > a
  <2> SUFFICES ASSUME Behind(h, c) <= a PROVE FALSE
    BY <1>2
  <2>1. Behind(h, c) > c /\ Behind(h, c) \in Nat
    BY <1>2, <1>6
  <2>2. Behind(h, c) \notin DOMAIN h.block
    BY <1>3, <1>4, <2>1
  <2>3. Behind(h, c) \in Links
    BY <1>7, <2>2
  <2> QED BY <1>1, <1>4, <1>5, <2>1, <2>3
<1>9. c \in Listed(h)
  BY <1>2, <1>3, <1>4, <1>8
<1>10. Behind(h, c) >= a + size
  <2> SUFFICES ASSUME Behind(h, c) < a + size PROVE FALSE
    BY <1>2
  <2> DEFINE d == Behind(h, c)
  <2>1. d \in Nat /\ d > a /\ d < a + size /\ d > Begin(i) /\ d < Finish(i)
    BY <1>1, <1>2, <1>8
  <2>2. d \notin Links
    BY <1>1, <1>5, <2>1
  <2>3. d \in DOMAIN h.block /\ d # End
    BY <1>1, <1>7, <2>1, <2>2
  <2>4. d \notin Listed(h)
    BY <1>9, <2>2 DEF Good, Linked
  <2>5. d \in Within(h) /\ Behind(h, d) >= d /\ Behind(h, d) \in Nat
    BY <1>2, <2>3 DEF Within
  <2>6. Behind(h, d) <= a \/ d >= a + size
    BY <2>4, <2>5
  <2> QED BY <2>1, <2>5, <2>6
<1>11. h.block[c].size >= size
  BY <1>2, <1>3, <1>4, <1>10
<1> QED BY <1>9, <1>11

-----------------------------------------------------------------------------
(* What the inductive invariant says of the application.                   *)
LEMMA HeapInvTypeOK ==
  ASSUME Parameters, HeapInv
  PROVE  TypeOK
<1>1. NULL = 0 /\ Blocks = Within(heap)
  BY DEF NULL, Blocks, Within
<1>2. CASE Fresh
  <2>1. heap.start = NULL /\ heap.free = 0 /\ heap.least = 0 /\ DOMAIN heap.block = {}
    BY <1>2 DEF Fresh, Untouched
  <2>2. \A t \in Callers : freeing[t] = NULL
    BY <1>2 DEF Fresh
  <2> QED BY <1>1, <2>1, <2>2 DEF TypeOK, Within
<1>3. CASE ~Fresh
  <2>1. /\ heap.start # NULL /\ Good(heap) /\ AllAligned(heap) /\ Owned(heap, freeing, regions) /\ Counted(heap)
    BY <1>3 DEF HeapInv, Sound
  <2>2. heap.start \in DOMAIN heap.block
    BY <2>1, Started
  <2>3. {First, End} \subseteq DOMAIN heap.block
    <3>1. 1 \in DOMAIN Regions /\ First = Begin(1)
      BY RegionFacts
    <3> QED BY <2>1, <3>1, GoodFacts DEF Good, Tiled
  <2>4. Blocks \cap Links \subseteq Listed(heap)
    BY <1>1, <2>1, GoodFacts
  <2>5. ASSUME NEW b \in DOMAIN heap.block
        PROVE  b \in First .. End /\ b % ALIGN = 0 /\ heap.block[b].size \in 0 .. End - First
    <3>1. b \in First .. End
      BY <2>1 DEF Good, Shape
    <3>2. b % ALIGN = 0
      BY <2>1 DEF AllAligned
    <3>3. CASE b = End
      <4>1. heap.block[b].size = 0
        BY <2>1, <3>3 DEF Good, Shape
      <4>2. First <= End /\ First \in Nat /\ End \in Nat
        BY <2>1, <2>3, GoodFacts, Places
      <4> QED BY <3>1, <3>2, <4>1, <4>2
    <3>4. CASE b # End
      BY <2>1, <3>1, <3>2, <3>4, LargestFacts DEF Within
    <3> QED BY <3>3, <3>4
  <2>6. heap.least \in 0 .. heap.free
    BY <2>1 DEF Counted
  <2>7. \A t \in Callers : freeing[t] \in Blocks \cup {NULL}
    BY <1>1, <2>1 DEF Owned
  <2> QED BY <2>1, <2>2, <2>3, <2>4, <2>5, <2>6, <2>7 DEF TypeOK
<1> QED BY <1>2, <1>3

(* No two callers hold the same byte.                                      *)
LEMMA HeapInvIntact ==
  ASSUME Parameters, HeapInv
  PROVE  RegionsIntact
<1>1. Blocks = Within(heap) /\ \A b : After(b) = Behind(heap, b)
  BY DEF Blocks, Within, After, Behind
<1>2. CASE Fresh
  <2>1. Blocks = {} /\ regions = {}
    BY <1>2 DEF Fresh, Untouched, Blocks
  <2> QED BY <2>1 DEF RegionsIntact
<1>3. CASE ~Fresh
  <2>1. Good(heap) /\ Owned(heap, freeing, regions)
    BY <1>3 DEF HeapInv, Sound
  <2>2. \A b \in DOMAIN heap.block : b \in Nat /\ Behind(heap, b) \in Nat
    BY <2>1, GoodFacts
  <2>3. \A c, d \in DOMAIN heap.block : c < d => Behind(heap, c) <= d
    BY <2>1 DEF Good, Tiled
  <2>4. \A b \in Within(heap) : b \in DOMAIN heap.block
    BY DEF Within
  <2>5. ASSUME NEW r \in regions
        PROVE  LET b == r.at - HEADER
               IN  /\ b \in Blocks /\ heap.block[b].used /\ r.at + r.size <= After(b)
                   /\ \A c \in DOMAIN heap.block : c <= b \/ c >= After(b)
                   /\ \A c \in Blocks : c < b => After(c) <= b
                   /\ \A s \in regions : s.at = r.at => s = r
    <3> DEFINE b == r.at - HEADER
    <3>1. /\ b \in Within(heap) /\ heap.block[b].used /\ r.at + r.size <= Behind(heap, b)
          /\ \A s \in regions : s.at = r.at => s = r
      BY <2>1 DEF Owned
    <3> HIDE DEF b
    <3>2. b \in DOMAIN heap.block /\ b \in Nat
      BY <2>2, <2>4, <3>1
    <3>3. \A c \in DOMAIN heap.block : c <= b \/ c >= Behind(heap, b)
      BY <2>2, <2>3, <3>2
    <3>4. \A c \in Blocks : c < b => Behind(heap, c) <= b
      BY <1>1, <2>3, <2>4, <3>2
    <3> QED BY <1>1, <3>1, <3>3, <3>4 DEF b
  <2>6. \A b \in Within(heap) : \E i \in DOMAIN Regions : Begin(i) <= b /\ Behind(heap, b) <= Finish(i)
    BY <2>1 DEF Good, Tiled
  <2> QED BY <1>1, <2>5, <2>6 DEF RegionsIntact, Begin, Finish
<1> QED BY <1>2, <1>3

(* The list is in order.                                                   *)
LEMMA HeapInvInOrder ==
  ASSUME Parameters, HeapInv
  PROVE  ListInOrder
<1> SUFFICES ASSUME heap.start # NULL PROVE ListInOrder
  BY DEF ListInOrder
<1>1. Good(heap)
  BY DEF HeapInv, Fresh, Untouched, Sound
<1>2. \A b : After(b) = Behind(heap, b)
  BY DEF After, Behind
<1>3. XSTART \notin Listed(heap)
  BY <1>1, GoodFacts DEF Listed
<1> QED BY <1>1, <1>2, <1>3 DEF ListInOrder, Good, Linked

(* Nothing is lost.                                                        *)
LEMMA HeapInvNothingLost ==
  ASSUME Parameters, HeapInv
  PROVE  NothingLost
<1>1. /\ Blocks = Within(heap) /\ FreeBytes = BytesOf(heap)
      /\ \A b : After(b) = Behind(heap, b)
  BY DEF Blocks, Within, After, Behind, FreeBytes, BytesOf
<1>2. CASE Fresh
  <2>1. Blocks = {} /\ heap.free = 0 /\ Listed(heap) = {}
    BY <1>2 DEF Fresh, Untouched, Blocks, Listed
  <2>2. FreeBytes = {}
    BY <2>1 DEF FreeBytes
  <2>3. heap.free = Cardinality(FreeBytes)
    BY <2>1, <2>2, FS_EmptySet
  <2> QED BY <2>1, <2>3 DEF NothingLost, NoGaps
<1>3. CASE ~Fresh
  <2>1. Good(heap) /\ Owned(heap, freeing, regions) /\ Counted(heap)
    BY <1>3 DEF HeapInv, Sound
  <2>2. NoGaps
    BY <1>1, <2>1 DEF Good, Tiled, Owned, NoGaps
  <2>3. heap.free = Cardinality(FreeBytes)
    BY <1>1, <2>1, BytesCounted DEF Counted
  <2> QED BY <2>2, <2>3 DEF NothingLost
<1> QED BY <1>2, <1>3

(* A request is refused only where no room is: free memory in one piece is *)
(* one block, as free blocks that touch were merged.                       *)
LEMMA HeapInvRefuses ==
  ASSUME Parameters, HeapInv
  PROVE  RefusedOnlyWhenFull
<1> SUFFICES ASSUME heap.start # NULL, NEW n \in Sizes
             PROVE  LET size == BlockSize(n) IN
                    /\ Refuses(heap, size) = (size \notin 1 .. HeapStats(heap).largest)
                    /\ size \in 1 .. End - First /\ Room(size) => ~Refuses(heap, size)
  BY DEF RefusedOnlyWhenFull
<1>1. Good(heap) /\ Counted(heap)
  BY DEF HeapInv, Fresh, Untouched, Sound
<1> DEFINE size == BlockSize(n)
           top == Largest(heap)
<1>2. n \in Nat /\ TOP \in Nat /\ End < TOP /\ First \in Nat /\ End \in Nat
  BY Places DEF Parameters
<1>3. size \in Nat
  BY <1>2, BlockSizeFacts
<1>4. HeapStats(heap).largest = top
  BY DEF HeapStats
<1>5. /\ top \in Nat /\ \A b \in Listed(heap) : heap.block[b].size <= top
      /\ top = 0 \/ \E b \in Listed(heap) : heap.block[b].size = top
  BY <1>1, LargestFacts
<1>6. \A b \in Listed(heap) :
        /\ heap.block[b].size \in Nat /\ heap.block[b].size <= heap.free /\ heap.block[b].size < TOP
  <2> SUFFICES ASSUME NEW b \in Listed(heap)
               PROVE  /\ heap.block[b].size \in Nat /\ heap.block[b].size <= heap.free
                      /\ heap.block[b].size < TOP
    OBVIOUS
  <2>1. heap.free \in Int /\ SumsTo(Weights(heap), heap.free)
    BY <1>1, SumTyped DEF Counted
  <2>2. heap.block[b].size <= heap.free
    BY <1>1, <2>1, SumCovers
  <2>3. heap.block[b].size \in 0 .. End - First
    BY <1>1, GoodFacts, LargestFacts
  <2> QED BY <1>2, <2>2, <2>3
<1>7. heap.free \in Nat
  BY <1>1, SumTyped DEF Counted
<1>8. Refuses(heap, size) <=>
        size >= TOP \/ size = 0 \/ size > heap.free \/ \A b \in Listed(heap) : heap.block[b].size < size
  BY DEF Refuses
<1> HIDE DEF size, top
<1>9. ASSUME NEW b \in Listed(heap), heap.block[b].size >= size, size > 0 PROVE ~Refuses(heap, size)
  <2>1. heap.block[b].size \in Nat /\ heap.block[b].size <= heap.free /\ heap.block[b].size < TOP
    BY <1>6
  <2> QED BY <1>2, <1>3, <1>7, <1>8, <1>9, <2>1
<1>10. ASSUME size \in 1 .. top PROVE ~Refuses(heap, size)
  <2>1. PICK b \in Listed(heap) : heap.block[b].size = top
    BY <1>5, <1>10
  <2> QED BY <1>3, <1>5, <1>9, <1>10, <2>1
<1>11. ASSUME ~Refuses(heap, size) PROVE size \in 1 .. top
  <2>1. PICK b \in Listed(heap) : ~(heap.block[b].size < size)
    BY <1>8, <1>11
  <2>2. size # 0 /\ heap.block[b].size \in Nat /\ heap.block[b].size <= top
    BY <1>5, <1>6, <1>8, <1>11
  <2> QED BY <1>3, <1>5, <2>1, <2>2
<1>12. Refuses(heap, size) = (size \notin 1 .. top)
  <2>1. Refuses(heap, size) <=> size \notin 1 .. top
    BY <1>10, <1>11
  <2>2. Refuses(heap, size) \in BOOLEAN
    BY DEF Refuses
  <2> QED BY <2>1, <2>2
<1>13. ASSUME size \in 1 .. End - First, Room(size) PROVE ~Refuses(heap, size)
  <2>1. Blocks = Within(heap) /\ \A b : After(b) = Behind(heap, b)
    BY DEF Blocks, Within, After, Behind
  <2>0. PICK i \in DOMAIN Regions :
          \E a \in Begin(i) .. Finish(i) - size :
            \A b \in Within(heap) \ Listed(heap) : Behind(heap, b) <= a \/ b >= a + size
    BY <1>13, <2>1 DEF Room, Begin, Finish
  <2>2. PICK a \in Begin(i) .. Finish(i) - size :
          \A b \in Within(heap) \ Listed(heap) : Behind(heap, b) <= a \/ b >= a + size
    BY <2>0
  <2>3. Begin(i) \in Nat /\ Finish(i) \in Nat
    BY Places
  <2>4. a \in Int /\ Begin(i) <= a /\ a + size <= Finish(i) /\ size > 0
    BY <1>3, <1>13, <2>2, <2>3
  <2>5. \E b \in Listed(heap) : heap.block[b].size >= size
    BY <1>1, <1>3, <2>2, <2>4, RoomIsOneBlock
  <2> QED BY <1>9, <2>4, <2>5
<1> QED BY <1>4, <1>12, <1>13 DEF size

-----------------------------------------------------------------------------
(* What MemoryIsSound says of heap_4.c and heap_5.c.                       *)
HeapSound == TypeOK /\ RegionsIntact /\ ListInOrder /\ NothingLost /\ RefusedOnlyWhenFull

(* HeapInv is strong enough.                                               *)
LEMMA HeapInvSound ==
  ASSUME Parameters, HeapInv
  PROVE  HeapSound
BY HeapInvTypeOK, HeapInvIntact, HeapInvInOrder, HeapInvNothingLost, HeapInvRefuses DEF HeapSound

(* Nothing was set up yet.                                                 *)
LEMMA HeapInvStarts ==
  ASSUME Parameters, Init
  PROVE  HeapInv
<1>1. NULL \in Nat
  BY DEF NULL
<1> QED BY <1>1 DEF Init, HeapInv, Fresh

(* vPortDefineHeapRegions.                                                 *)
LEMMA DefineStep ==
  ASSUME Parameters, HeapInv, DefineHeapRegions
  PROVE  HeapInv'
<1>1. heap.start = NULL /\ heap' = Ready /\ freeing' = freeing /\ regions' = regions
  BY DEF DefineHeapRegions, Ready
<1> QED BY <1>1, ReadySound DEF HeapInv

(* Nothing happens.                                                        *)
LEMMA StutterStep ==
  ASSUME HeapInv, UNCHANGED vars
  PROVE  HeapInv'
BY DEF HeapInv, Fresh, vars

(* All calls.                                                              *)
LEMMA CallStep ==
  ASSUME Parameters, HeapInv, NEW t \in Callers,
         \/ \E n \in Sizes : Malloc(t, n) \/ \E count \in Counts : Calloc(t, count, n)
         \/ Free(t) \/ PutBack(t)
  PROVE  HeapInv'
<1>1. Sizes \subseteq Nat /\ Counts \subseteq Nat
  BY DEF Parameters
<1>2. ASSUME NEW n \in Sizes, Malloc(t, n) PROVE HeapInv'
  BY <1>1, <1>2, MallocStep
<1>3. ASSUME NEW n \in Sizes, NEW count \in Counts, Calloc(t, count, n) PROVE HeapInv'
  <2>1. count * n \in Nat
    BY <1>1
  <2>2. Malloc(t, count * n)
    BY <1>3 DEF Calloc
  <2> QED BY <2>1, <2>2, MallocStep
<1> QED BY <1>2, <1>3, FreeStep, PutBackStep

(* heap_4.c (and heap_5.c with memory that is set up by the first call):   *)
(* for all sizes and places of the memory, all alignments, requests and    *)
(* numbers of callers, whatever comes between the two steps of vPortFree.  *)
THEOREM HeapIsSound ==
  ASSUME Parameters
  PROVE  Spec => []HeapSound
<1>1. Init => HeapInv
  BY HeapInvStarts
<1>2. HeapInv /\ [Next]_vars => HeapInv'
  BY CallStep, StutterStep DEF Next
<1>3. HeapInv => HeapSound
  BY HeapInvSound
<1> QED BY <1>1, <1>2, <1>3, PTL DEF Spec

(* heap_5.c: the same for any number of regions that the application       *)
(* defines before it allocates.                                            *)
THEOREM RegionsAreSound ==
  ASSUME Parameters
  PROVE  Init /\ [][RegionsNext]_vars => []HeapSound
<1>1. Init => HeapInv
  BY HeapInvStarts
<1>2. HeapInv /\ [RegionsNext]_vars => HeapInv'
  <2> SUFFICES ASSUME HeapInv, [RegionsNext]_vars PROVE HeapInv'
    OBVIOUS
  <2>1. CASE DefineHeapRegions
    BY <2>1, DefineStep
  <2>2. CASE UNCHANGED vars
    BY <2>2, StutterStep
  <2>3. ASSUME NEW t \in Callers,
               \/ \E n \in Sizes : MallocInRegions(t, n) \/ \E count \in Counts : CallocInRegions(t, count, n)
               \/ FreeInRegions(t) \/ PutBackInRegions(t)
        PROVE  HeapInv'
    BY <2>3, CallStep DEF MallocInRegions, CallocInRegions, FreeInRegions, PutBackInRegions
  <2> QED BY <2>1, <2>2, <2>3 DEF RegionsNext
<1>3. HeapInv => HeapSound
  BY HeapInvSound
<1> QED BY <1>1, <1>2, <1>3, PTL

-----------------------------------------------------------------------------
(* The handles.  The address 0 of MpuWrappers is NOWHERE here.             *)
CONSTANTS SIZE, Objects, FIRST, NOWHERE, RESERVED, Callbacks, Wanted, BUSY
VARIABLES pool, object, doing, given, lost

P == INSTANCE MpuWrappers WITH NULL <- NOWHERE

(* A slot with no address is free, and free for everybody.                 *)
FreeIsFree ==
  \A i \in P!Slots : pool[i].handle = NOWHERE =>
    pool[i] = P!Empty /\ i \notin lost /\ ~P!Held(i) /\ \A o \in Objects : given[o] # i

(* A wrapper that will fill a slot or free it finds there what it, or the  *)
(* wrapper before it, left.                                                *)
HoldersHold ==
  \A t \in Objects : doing[t].op \in P!Holding =>
    /\ doing[t].slot \in P!Slots
    /\ doing[t].op \in {"create", "handle", "kind"} => pool[doing[t].slot].kind = P!NoKind
    /\ doing[t].op \in {"kind", "data"} => pool[doing[t].slot].handle = doing[t].on
    /\ doing[t].op = "data" => pool[doing[t].slot].kind = doing[t].what.kind
    /\ doing[t].op = "free" => pool[doing[t].slot].kind # "TIMER"
    /\ doing[t].op \notin P!Filling => doing[t].slot \notin lost
    /\ doing[t].op \notin {"free"} => doing[t].what \in P!Things
    /\ \A o \in Objects : given[o] = doing[t].slot => doing[t].op = "data" /\ doing[t].on = o

(* The new object lives, in the hands of one wrapper, which gives it one   *)
(* handle; unless it ended meanwhile.                                      *)
FillersFill ==
  \A t \in Objects : doing[t].op \in P!Filling =>
    /\ doing[t].on \in Objects
    /\ doing[t].slot \notin lost =>
         /\ object[doing[t].on] = doing[t].what
         /\ doing[t].op # "data" => given[doing[t].on] = P!None
         /\ doing[t].op = "data" => given[doing[t].on] = doing[t].slot
         /\ \A u \in Objects :
              P!Fills(u, doing[t].on) /\ doing[u].slot \notin lost => u = t

(* Only live tasks are in wrappers.                                        *)
TasksAct == \A t \in Objects : doing[t] # P!Nothing => object[t].kind = "TASK"

(* While a wrapper looks a handle up, unless it raced with a deletion, what *)
(* it found stays so.                                                      *)
UseOK(d) ==
  /\ d.op \in {"read", "fetch", "answer"} => d.slot \in P!Slots
  /\ d.op \in {"read", "fetch"} => d.what.kind \in P!Kinds
  /\ d.op = "read" /\ ~d.raced /\ P!BeingFreed(d.slot) => pool[d.slot].kind = P!NoKind
  /\ d.op = "fetch" /\ ~d.raced =>
       d.slot \in lost \/ \E o \in Objects : given[o] = d.slot /\ object[o].kind = d.what.kind
  /\ d.op = "kernel" /\ d.what.kind # P!NoKind /\ ~d.raced =>
       d.slot \in lost \/ (d.on \in Objects /\ object[d.on].kind = d.what.kind)
  /\ d.op = "lookup" => d.on \in Objects /\ d.what.kind \in P!Kinds \ {"TIMER"} /\ d.what.callback = NOWHERE
  /\ d.op = "lookup" /\ ~d.raced => object[d.on].kind = d.what.kind
  /\ d.op = "answer" => d.on \in Objects
  /\ d.op = "answer" /\ ~d.raced =>
       d.slot \in lost \/ (given[d.on] = d.slot /\ d.what.callback = object[d.on].callback)
UsersUse == \A t \in Objects : UseOK(doing[t])

(* No function returns a timer.                                            *)
ResultsNamed == \A t \in Objects : doing[t].result \in {P!NoKind, "TASK", "QUEUE"}

PInv ==
  /\ P!TypeOK /\ P!SlotsAccounted /\ P!HandlesNamed
  /\ FreeIsFree /\ HoldersHold /\ FillersFill /\ TasksAct /\ UsersUse /\ ResultsNamed

-----------------------------------------------------------------------------
(* The functions.                                                          *)

FunctionTyped(f) == f.kind \in P!Kinds \cup {P!NoKind} /\ f.result \in {P!NoKind, "TASK", "QUEUE"}

(* How the rows of the table of functions are made, they are functions.    *)
LEMMA RowsMade ==
  /\ \A name : FunctionTyped(P!Without(name)) /\ \A f \in P!OnSelf(name) : FunctionTyped(f) /\ FunctionTyped(P!Privileged(f))
  /\ \A name, kind : kind \in P!Kinds => FunctionTyped(P!On(kind, name)) /\ FunctionTyped(P!Privileged(P!On(kind, name)))
  /\ \A name, kind, result : kind \in P!Kinds \cup {P!NoKind} /\ result \in {"TASK", "QUEUE"} =>
       /\ FunctionTyped(P!Naming(result, P!On(kind, name)))
       /\ FunctionTyped(P!Privileged(P!Naming(result, P!On(kind, name))))
  /\ \A name : P!Without(name) = P!On(P!NoKind, name)
  /\ {"QUEUE", "TASK", "STREAM_BUFFER", "EVENT_GROUP", "TIMER"} \subseteq P!Kinds
<1> QED BY DEF FunctionTyped, P!On, P!Without, P!OnSelf, P!Privileged, P!Naming,
           P!Kinds, P!NoKind

(* No function returns a timer.                                            *)
LEMMA FunctionsTyped == \A f \in P!Functions : FunctionTyped(f)
<1>1. \A f \in UNION {P!TaskDelays, P!TaskSuspension} : FunctionTyped(f)
  BY RowsMade DEF P!TaskDelays, P!TaskSuspension
<1>2. \A f \in UNION {P!TaskFigures, P!TaskTags} : FunctionTyped(f)
  BY RowsMade DEF P!TaskFigures, P!TaskTags
<1>3. \A f \in UNION {P!TaskStorage, P!TaskTime} : FunctionTyped(f)
  BY RowsMade DEF P!TaskStorage, P!TaskTime
<1>4. \A f \in UNION {P!Notifying, P!NotifyWaiting, P!NotifyClearing} : FunctionTyped(f)
  BY RowsMade DEF P!Notifying, P!NotifyWaiting, P!NotifyClearing
<1>5. \A f \in P!PrivilegedTaskCalls : FunctionTyped(f)
  BY RowsMade DEF P!PrivilegedTaskCalls
<1>6. \A f \in P!PrivilegedTaskData : FunctionTyped(f)
  BY RowsMade DEF P!PrivilegedTaskData
<1>7. \A f \in P!TaskCallsFromISR : FunctionTyped(f)
  BY RowsMade DEF P!TaskCallsFromISR
<1>8. \A f \in UNION {P!QueueSending, P!QueueReceiving} : FunctionTyped(f)
  BY RowsMade DEF P!QueueSending, P!QueueReceiving
<1>9. \A f \in UNION {P!QueueMutexes, P!QueueSets, P!QueueRegistry} : FunctionTyped(f)
  BY RowsMade DEF P!QueueMutexes, P!QueueSets, P!QueueRegistry
<1>10. \A f \in P!PrivilegedQueueCalls : FunctionTyped(f)
  BY RowsMade DEF P!PrivilegedQueueCalls
<1>11. \A f \in P!QueueCallsFromISR : FunctionTyped(f)
  BY RowsMade DEF P!QueueCallsFromISR
<1>12. \A f \in P!QueueAnswersFromISR : FunctionTyped(f)
  BY RowsMade DEF P!QueueAnswersFromISR
<1>13. \A f \in UNION {P!TimerData, P!TimerCommands} : FunctionTyped(f)
  BY RowsMade DEF P!TimerData, P!TimerCommands
<1>14. \A f \in UNION {P!TimerModes, P!TimerTimes, P!PrivilegedTimerCalls} : FunctionTyped(f)
  BY RowsMade DEF P!TimerModes, P!TimerTimes, P!PrivilegedTimerCalls
<1>15. \A f \in UNION {P!EventGroupBits, P!EventGroupSync} : FunctionTyped(f)
  BY RowsMade DEF P!EventGroupBits, P!EventGroupSync
<1>16. \A f \in P!PrivilegedEventGroupCalls : FunctionTyped(f)
  BY RowsMade DEF P!PrivilegedEventGroupCalls
<1>17. \A f \in UNION {P!StreamBufferTransfers, P!StreamBufferState, P!StreamBufferLevels} : FunctionTyped(f)
  BY RowsMade DEF P!StreamBufferTransfers, P!StreamBufferState, P!StreamBufferLevels
<1>18. \A f \in UNION {P!PrivilegedStreamBufferCalls, P!StreamBufferCallsFromISR} : FunctionTyped(f)
  BY RowsMade DEF P!PrivilegedStreamBufferCalls, P!StreamBufferCallsFromISR
<1> QED
  BY <1>1, <1>2, <1>3, <1>4, <1>5, <1>6, <1>7, <1>8, <1>9, <1>10, <1>11, <1>12, <1>13, <1>14,
     <1>15, <1>16, <1>17, <1>18 DEF P!Functions

(* So all in the table are.                                                *)
LEMMA CallsTyped == \A f \in P!Calls : FunctionTyped(f)
BY FunctionsTyped DEF P!Calls, FunctionTyped

-----------------------------------------------------------------------------
(* Steps of a call change nothing but how far the call is.                 *)
LEMMA WrapperStep ==
  ASSUME PInv, NEW t \in Objects, NEW d \in P!Doing,
         UNCHANGED <<pool, object, given, lost>>, doing' = [doing EXCEPT ![t] = d],
         doing[t].op \notin P!Holding, d.op \notin P!Holding,
         d # P!Nothing => object[t].kind = "TASK", UseOK(d), d.result \in {P!NoKind, "TASK", "QUEUE"}
  PROVE  PInv'
<1>1. P!TypeOK'
  BY DEF PInv, P!TypeOK
<1>2. \A u \in Objects : doing'[u] = IF u = t THEN d ELSE doing[u]
  BY DEF PInv, P!TypeOK
<1>3. \A u, i : u \in Objects => (P!Holds(u, i)' <=> P!Holds(u, i))
  BY <1>2 DEF P!Holds
<1>4. \A u, o : u \in Objects => (P!Fills(u, o)' <=> P!Fills(u, o))
  BY <1>2 DEF P!Fills, P!Holding
<1>5. \A i : (P!Held(i)' <=> P!Held(i)) /\ (P!BeingFreed(i)' <=> P!BeingFreed(i))
  BY <1>2, <1>3 DEF P!Held, P!BeingFreed, P!Holding
<1>6. P!SlotsAccounted'
  BY <1>3, <1>5 DEF PInv, P!SlotsAccounted
<1>7. P!HandlesNamed'
  BY <1>3, <1>4 DEF PInv, P!HandlesNamed, P!Live
<1>8. FreeIsFree'
  BY <1>5 DEF PInv, FreeIsFree
<1>9. HoldersHold'
  BY <1>2 DEF PInv, HoldersHold
<1>10. FillersFill'
  BY <1>2, <1>4 DEF PInv, FillersFill, P!Holding, P!Fills
<1>11. TasksAct'
  BY <1>2 DEF PInv, TasksAct
<1>12. UsersUse'
  <2>1. ASSUME NEW u \in Objects PROVE UseOK(doing[u])'
    <3>1. UseOK(doing'[u])
      BY <1>2 DEF PInv, UsersUse
    <3> QED BY <1>5, <3>1 DEF UseOK
  <2> QED BY <2>1 DEF UsersUse
<1>13. ResultsNamed'
  BY <1>2 DEF PInv, ResultsNamed
<1> QED BY <1>1, <1>6, <1>7, <1>8, <1>9, <1>10, <1>11, <1>12, <1>13 DEF PInv

(* What is kept of a task in no wrapper.                                   *)
LEMMA NothingRests ==
  /\ P!Nothing \in P!Doing /\ UseOK(P!Nothing)
  /\ P!Nothing.op = "none" /\ P!Nothing.slot = P!None /\ P!Nothing.on = NOWHERE /\ P!Nothing.what = P!Dead
  /\ P!Nothing.result = P!NoKind /\ P!Nothing.raced = FALSE
BY DEF P!Nothing, P!Doing, P!Dead, P!Some, UseOK, P!None

(* The kind a wrapper looks for, as what it carries.                       *)
LEMMA SomeThing ==
  ASSUME NEW k \in P!Kinds \cup {P!NoKind}
  PROVE  /\ P!Some(k) \in [kind : P!Kinds \cup {P!NoKind}, privileged : BOOLEAN, callback : Callbacks \cup {NOWHERE}]
         /\ P!Some(k).kind = k /\ P!Some(k).callback = NOWHERE
BY DEF P!Some

(* A handle in the range of the pool is accepted, or none is looked up.    *)
LEMMA CheckStep ==
  ASSUME P!Parameters, PInv, NEW t \in Objects, P!Check(t)
  PROVE  PInv'
<1>1. doing[t] = P!Nothing /\ doing[t].op \notin P!Holding /\ object[t].kind = "TASK"
  BY NothingRests DEF P!Check, P!Idle, P!Holding, P!Filling
<1>2. PICK f \in P!Calls :
        LET call == [P!Nothing EXCEPT !.what = P!Some(f.kind), !.result = f.result] IN
        IF f.kind = P!NoKind THEN doing' = [doing EXCEPT ![t] = [call EXCEPT !.op = "kernel", !.on = t]]
        ELSE \E external \in P!INDEX_OFFSET .. SIZE + P!INDEX_OFFSET - 1 :
               doing' = [doing EXCEPT ![t] =
                 [call EXCEPT !.op = "read", !.slot = external - P!INDEX_OFFSET,
                              !.raced = P!BeingFreed(external - P!INDEX_OFFSET)]]
  BY DEF P!Check
<1> DEFINE call == [P!Nothing EXCEPT !.what = P!Some(f.kind), !.result = f.result]
<1>3. /\ f.kind \in P!Kinds \cup {P!NoKind} /\ f.result \in {P!NoKind, "TASK", "QUEUE"}
      /\ f.result \in P!Kinds \cup {P!NoKind}
  BY CallsTyped DEF FunctionTyped, P!Kinds
<1>4. /\ call \in P!Doing /\ call.op = "none" /\ call.what = P!Some(f.kind) /\ call.result = f.result
      /\ call.raced = FALSE
  BY <1>3, NothingRests, SomeThing DEF P!Doing
<1>5. CASE f.kind = P!NoKind
  <2> DEFINE d == [call EXCEPT !.op = "kernel", !.on = t]
  <2>1. doing' = [doing EXCEPT ![t] = d]
    BY <1>2, <1>5
  <2> HIDE DEF call
  <2>2. /\ d \in P!Doing /\ d.op = "kernel" /\ d.what = P!Some(f.kind) /\ d.result = f.result
    BY <1>4 DEF P!Doing, P!Using
  <2> HIDE DEF d
  <2>3. UseOK(d) /\ d.op \notin P!Holding
    BY <1>3, <1>5, <2>2, SomeThing DEF UseOK, P!Holding, P!Filling
  <2> QED BY <1>1, <1>3, <2>1, <2>2, <2>3, WrapperStep DEF P!Check
<1>6. CASE f.kind # P!NoKind
  <2>1. PICK external \in P!INDEX_OFFSET .. SIZE + P!INDEX_OFFSET - 1 :
          doing' = [doing EXCEPT ![t] =
            [call EXCEPT !.op = "read", !.slot = external - P!INDEX_OFFSET,
                         !.raced = P!BeingFreed(external - P!INDEX_OFFSET)]]
    BY <1>2, <1>6
  <2> DEFINE i == external - P!INDEX_OFFSET
             raced == P!BeingFreed(i)
             d == [call EXCEPT !.op = "read", !.slot = i, !.raced = raced]
  <2>2. i \in P!Slots /\ raced \in BOOLEAN
    BY DEF P!Parameters, P!Slots, P!INDEX_OFFSET, P!BeingFreed
  <2>3. doing' = [doing EXCEPT ![t] = d]
    BY <2>1
  <2>4. raced <=> P!BeingFreed(i)
    OBVIOUS
  <2> HIDE DEF call, i, raced
  <2>5. /\ d \in P!Doing /\ d.op = "read" /\ d.slot = i /\ d.what = P!Some(f.kind) /\ d.result = f.result
        /\ d.raced = raced
    BY <1>4, <2>2 DEF P!Doing, P!Using
  <2> HIDE DEF d
  <2>6. UseOK(d) /\ d.op \notin P!Holding
    BY <1>3, <1>6, <2>2, <2>4, <2>5, SomeThing DEF UseOK, P!Holding, P!Filling
  <2> QED BY <1>1, <1>3, <2>3, <2>5, <2>6, WrapperStep DEF P!Check
<1> QED BY <1>5, <1>6

\* What a slot that names an object of some kind is to a reader.
(* A slot with a kind that nobody is freeing is a live object of that      *)
(* kind, or is lost.                                                       *)
LEMMA NamedSlot ==
  ASSUME PInv, NEW i \in P!Slots, pool[i].kind # P!NoKind, ~P!BeingFreed(i)
  PROVE  i \in lost \/ \E o \in Objects : given[o] = i /\ object[o].kind = pool[i].kind
<1>1. pool[i] # P!Empty
  BY DEF P!Empty
<1>2. CASE P!Held(i)
  <2>1. PICK t \in Objects : P!Holds(t, i)
    BY <1>2 DEF P!Held
  <2>2. doing[t].op = "data"
    BY <2>1 DEF P!Holds, P!BeingFreed, P!Holding, P!Filling, PInv, HoldersHold
  <2> QED BY <2>1, <2>2 DEF P!Holds, P!Holding, P!Filling, PInv, HoldersHold,
             FillersFill
<1>3. CASE \E o \in Objects : given[o] = i
  BY <1>3 DEF PInv, P!HandlesNamed, P!Slots, P!None
<1> QED BY <1>1, <1>2, <1>3 DEF PInv, P!SlotsAccounted

(* The kind in the slot is compared with the one asked for.                *)
LEMMA ReadKindStep ==
  ASSUME PInv, NEW t \in Objects, P!ReadKind(t)
  PROVE  PInv'
<1> DEFINE d == [doing[t] EXCEPT !.op = "fetch"]
<1>1. /\ doing[t] \in P!Doing /\ doing[t].op = "read" /\ doing[t].op \notin P!Holding
      /\ object[t].kind = "TASK"
  BY NothingRests DEF P!ReadKind, PInv, P!TypeOK, P!Holding, P!Filling, TasksAct
<1>2. CASE pool[doing[t].slot].kind = doing[t].what.kind
  <2>1. doing' = [doing EXCEPT ![t] = d]
    BY <1>2 DEF P!ReadKind
  <2>2. /\ d \in P!Doing /\ d.op = "fetch" /\ d.op \notin P!Holding
        /\ d.slot = doing[t].slot /\ d.what = doing[t].what /\ d.raced = doing[t].raced
        /\ d.result = doing[t].result
    BY <1>1 DEF P!Doing, P!Using, P!Holding, P!Filling
  <2>3. doing[t].slot \in P!Slots /\ doing[t].what.kind \in P!Kinds
    BY <1>1 DEF PInv, UsersUse, UseOK
  <2>4. ASSUME ~d.raced PROVE ~P!BeingFreed(d.slot) /\ pool[d.slot].kind # P!NoKind
    BY <1>1, <1>2, <2>2, <2>3, <2>4 DEF PInv, UsersUse, UseOK, P!Kinds, P!NoKind
  <2> HIDE DEF d
  <2>5. UseOK(d)
    BY <1>2, <2>2, <2>3, <2>4, NamedSlot DEF UseOK
  <2> QED BY <1>1, <2>1, <2>2, <2>5, WrapperStep DEF P!ReadKind, PInv, ResultsNamed
<1>3. CASE pool[doing[t].slot].kind # doing[t].what.kind
  BY <1>1, <1>3, NothingRests, WrapperStep DEF P!ReadKind, P!Holding, P!Filling
<1> QED BY <1>2, <1>3

(* The address is fetched.                                                 *)
LEMMA ReadHandleStep ==
  ASSUME PInv, NEW t \in Objects, P!ReadHandle(t)
  PROVE  PInv'
<1> DEFINE h == pool[doing[t].slot].handle
           d == [doing[t] EXCEPT !.op = "kernel", !.on = h]
<1>1. /\ doing[t] \in P!Doing /\ doing[t].op = "fetch" /\ doing[t].op \notin P!Holding
      /\ object[t].kind = "TASK"
  BY NothingRests DEF P!ReadHandle, PInv, P!TypeOK, P!Holding, P!Filling, TasksAct
<1>2. /\ doing[t].slot \in P!Slots /\ doing[t].what.kind \in P!Kinds
      /\ h \in Objects \cup {NOWHERE, RESERVED}
  BY <1>1 DEF PInv, UsersUse, UseOK, P!TypeOK
<1>3. CASE h # NOWHERE
  <2>1. doing' = [doing EXCEPT ![t] = d]
    BY <1>3 DEF P!ReadHandle
  <2> HIDE DEF h
  <2>2. /\ d \in P!Doing /\ d.op = "kernel" /\ d.op \notin P!Holding /\ d.on = h
        /\ d.slot = doing[t].slot /\ d.what = doing[t].what /\ d.raced = doing[t].raced
        /\ d.result = doing[t].result
    BY <1>1, <1>2 DEF P!Doing, P!Using, P!Holding, P!Filling
  <2> USE DEF h
  <2> HIDE DEF d
  <2>3. ASSUME ~d.raced PROVE d.slot \in lost \/ (d.on \in Objects /\ object[d.on].kind = d.what.kind)
    BY <1>1, <1>2, <2>2, <2>3 DEF PInv, UsersUse, UseOK, P!HandlesNamed, P!Slots, P!None
  <2>4. UseOK(d)
    BY <2>2, <2>3 DEF UseOK
  <2> QED BY <1>1, <2>1, <2>2, <2>4, WrapperStep DEF P!ReadHandle, PInv, ResultsNamed
<1>4. CASE h = NOWHERE
  BY <1>1, <1>4, NothingRests, WrapperStep DEF P!ReadHandle, P!Holding, P!Filling
<1> QED BY <1>3, <1>4

(* The kernel's function has run.                                          *)
LEMMA KernelReturnsStep ==
  ASSUME PInv, NEW t \in Objects, P!KernelReturns(t)
  PROVE  PInv'
<1>1. /\ doing[t] \in P!Doing /\ doing[t].op = "kernel" /\ doing[t].op \notin P!Holding
      /\ object[t].kind = "TASK"
  BY NothingRests DEF P!KernelReturns, PInv, P!TypeOK, P!Holding, P!Filling, TasksAct
<1>2. CASE doing' = [doing EXCEPT ![t] = P!Nothing]
  BY <1>1, <1>2, NothingRests, WrapperStep DEF P!KernelReturns, P!Holding, P!Filling
<1>3. CASE doing' # [doing EXCEPT ![t] = P!Nothing]
  <2>1. PICK o \in Objects :
          /\ doing[t].result # P!NoKind /\ object[o].kind = doing[t].result
          /\ doing' = [doing EXCEPT ![t] =
               [P!Nothing EXCEPT !.op = "lookup", !.on = o, !.what = P!Some(doing[t].result)]]
    BY <1>3 DEF P!KernelReturns
  <2> DEFINE d == [P!Nothing EXCEPT !.op = "lookup", !.on = o, !.what = P!Some(doing[t].result)]
  <2>2. doing' = [doing EXCEPT ![t] = d]
    BY <2>1
  <2>3. doing[t].result \in P!Kinds \ {"TIMER"}
    BY <1>1, <2>1 DEF PInv, ResultsNamed, P!Kinds
  <2>4. /\ d \in P!Doing /\ d.op = "lookup" /\ d.on = o /\ d.what = P!Some(doing[t].result)
        /\ d.result = P!NoKind
    BY <2>3, NothingRests, SomeThing DEF P!Doing, P!Using
  <2> HIDE DEF d
  <2>5. UseOK(d) /\ d.op \notin P!Holding
    BY <2>1, <2>3, <2>4, SomeThing DEF UseOK, P!NoKind, P!Holding, P!Filling
  <2> QED BY <1>1, <2>2, <2>4, <2>5, WrapperStep DEF P!KernelReturns
<1> QED BY <1>2, <1>3

(* The handle of an object is searched for.                                *)
LEMMA LookUpStep ==
  ASSUME PInv, NEW t \in Objects, P!LookUp(t)
  PROVE  PInv'
<1>1. /\ doing[t] \in P!Doing /\ doing[t].op = "lookup" /\ doing[t].op \notin P!Holding
      /\ object[t].kind = "TASK"
  BY NothingRests DEF P!LookUp, PInv, P!TypeOK, P!Holding, P!Filling, TasksAct
<1>2. /\ doing[t].on \in Objects /\ doing[t].what.kind \in P!Kinds \ {"TIMER"}
      /\ doing[t].what.callback = NOWHERE
      /\ ~doing[t].raced => object[doing[t].on].kind = doing[t].what.kind
  BY <1>1 DEF PInv, UsersUse, UseOK
<1>3. CASE doing' = [doing EXCEPT ![t] = P!Nothing]
  BY <1>1, <1>3, NothingRests, WrapperStep DEF P!LookUp, P!Holding, P!Filling
<1>4. CASE doing' # [doing EXCEPT ![t] = P!Nothing]
  <2>1. PICK i \in P!Slots :
          /\ P!FirstMatch(i, doing[t].on, doing[t].what.kind)
          /\ doing' = [doing EXCEPT ![t].op = "answer", ![t].slot = i, ![t].raced = @ \/ P!BeingFreed(i)]
    BY <1>4 DEF P!LookUp
  <2> DEFINE d == [doing[t] EXCEPT !.op = "answer", !.slot = i, !.raced = @ \/ P!BeingFreed(i)]
  <2>2. doing' = [doing EXCEPT ![t] = d]
    BY <2>1, <1>1 DEF PInv, P!TypeOK, P!Doing
  <2>3. /\ d \in P!Doing /\ d.op = "answer" /\ d.op \notin P!Holding /\ d.slot = i
        /\ d.on = doing[t].on /\ d.what = doing[t].what /\ d.result = doing[t].result
        /\ ~d.raced => ~doing[t].raced /\ ~P!BeingFreed(i)
    BY <1>1 DEF P!Doing, P!Using, P!Holding, P!Filling, P!BeingFreed
  <2> HIDE DEF d
  <2>4. ASSUME ~d.raced, i \notin lost
        PROVE  given[d.on] = i /\ d.what.callback = object[d.on].callback
    <3>1. pool[i].handle = d.on /\ pool[i].kind = d.what.kind
      BY <2>1, <2>3 DEF P!FirstMatch
    <3>2. PICK o \in Objects : given[o] = i /\ object[o].kind = pool[i].kind
      BY <1>2, <2>3, <2>4, <3>1, NamedSlot DEF P!Kinds, P!NoKind
    <3>3. o = d.on
      BY <3>1, <3>2 DEF PInv, P!HandlesNamed, P!Slots, P!None
    <3>4. object[o] \in P!Things \cup {P!Dead}
      BY DEF PInv, P!TypeOK
    <3> QED BY <1>2, <2>3, <3>1, <3>2, <3>3, <3>4 DEF P!Things, P!Dead, P!Some
  <2>5. UseOK(d)
    BY <1>2, <2>3, <2>4 DEF UseOK
  <2> QED BY <1>1, <2>2, <2>3, <2>5, WrapperStep DEF P!LookUp, PInv, ResultsNamed
<1> QED BY <1>3, <1>4

(* A timer ends its period: its handle and callback are looked up.         *)
LEMMA FireStep ==
  ASSUME P!Parameters, PInv, NEW o \in Objects, P!Fire(o)
  PROVE  PInv'
<1>1. /\ FIRST \in Objects /\ doing[FIRST] = P!Nothing /\ doing[FIRST].op \notin P!Holding
      /\ object[FIRST].kind = "TASK"
  BY NothingRests DEF P!Parameters, P!Fire, P!Idle, P!Holding, P!Filling
<1>2. PICK i \in P!Slots :
        /\ P!FirstMatch(i, o, "TIMER")
        /\ doing' = [doing EXCEPT ![FIRST] =
             [P!Nothing EXCEPT !.op = "answer", !.slot = i, !.on = o,
                          !.what = [P!Some("TIMER") EXCEPT !.callback = pool[i].data]]]
  BY DEF P!Fire
<1> DEFINE what == [P!Some("TIMER") EXCEPT !.callback = pool[i].data]
           d == [P!Nothing EXCEPT !.op = "answer", !.slot = i, !.on = o, !.what = what]
<1>3. doing' = [doing EXCEPT ![FIRST] = d]
  BY <1>2
<1>4. /\ d \in P!Doing /\ d.op = "answer" /\ d.slot = i /\ d.on = o /\ d.what.callback = pool[i].data
      /\ d.result = P!NoKind
  <2>1. pool[i].data \in Callbacks \cup {NOWHERE}
    BY DEF PInv, P!TypeOK
  <2>2. /\ what \in [kind : P!Kinds \cup {P!NoKind}, privileged : BOOLEAN, callback : Callbacks \cup {NOWHERE}]
        /\ what.callback = pool[i].data
    BY <2>1 DEF P!Some, P!Kinds
  <2> HIDE DEF what
  <2> QED BY <2>2, NothingRests DEF P!Doing, P!Using
<1> HIDE DEF d
<1>5. ASSUME i \notin lost PROVE given[o] = i /\ pool[i].data = object[o].callback
  <2>1. pool[i].handle = o /\ pool[i].kind = "TIMER"
    BY <1>2 DEF P!FirstMatch
  <2>2. ~P!BeingFreed(i)
    BY <2>1, <1>5 DEF P!BeingFreed, P!Holding, PInv, HoldersHold
  <2>3. PICK p \in Objects : given[p] = i /\ object[p].kind = pool[i].kind
    BY <1>5, <2>1, <2>2, NamedSlot DEF P!NoKind
  <2>4. p = o /\ given[o] # P!None
    BY <2>1, <2>3 DEF PInv, P!HandlesNamed, P!Slots, P!None
  <2>5. ~P!Held(i)
    BY <2>3, <2>4 DEF P!Fire
  <2> QED BY <2>3, <2>4, <2>5 DEF PInv, P!HandlesNamed, P!Held
<1>6. UseOK(d) /\ d.op \notin P!Holding
  BY <1>4, <1>5 DEF UseOK, P!Holding, P!Filling
<1> QED BY <1>1, <1>3, <1>4, <1>6, WrapperStep DEF P!Fire

(* A wrapper returns.                                                      *)
LEMMA ReturnStep ==
  ASSUME PInv, NEW t \in Objects, P!Return(t)
  PROVE  PInv'
BY NothingRests, WrapperStep DEF P!Return, P!Holding, P!Filling

-----------------------------------------------------------------------------
(* Creating.                                                               *)

\* A kind that a thing can have is not the one of free slots and dead objects.
(* What the application creates is not dead.                               *)
LEMMA ThingsLive ==
  \A x \in P!Things : /\ x.kind \in P!Kinds /\ x.kind # P!NoKind
                 /\ x \in [kind : P!Kinds \cup {P!NoKind}, privileged : BOOLEAN, callback : Callbacks \cup {NOWHERE}]
BY DEF P!Things, P!Kinds, P!NoKind

(* A free slot is marked.                                                  *)
LEMMA ReserveStep ==
  ASSUME P!Parameters, PInv, NEW t \in Objects, P!Reserve(t)
  PROVE  PInv'
<1>1. doing[t] = P!Nothing /\ doing[t].op \notin P!Holding /\ object[t].kind = "TASK"
  BY NothingRests DEF P!Reserve, P!MayManage, P!Idle, P!Holding, P!Filling
<1>2. PICK i \in P!Slots, x \in Wanted :
        /\ P!Lowest(i)
        /\ pool' = [pool EXCEPT ![i].handle = RESERVED]
        /\ doing' = [doing EXCEPT ![t] = [P!Nothing EXCEPT !.op = "create", !.slot = i, !.what = x]]
  BY DEF P!Reserve
<1> DEFINE d == [P!Nothing EXCEPT !.op = "create", !.slot = i, !.what = x]
<1>3. x \in P!Things
  BY DEF P!Parameters
<1>4. d \in P!Doing /\ d.op = "create" /\ d.slot = i /\ d.what = x /\ d.result = P!NoKind
  BY <1>3, ThingsLive, NothingRests DEF P!Doing, P!Holding
<1>5. doing' = [doing EXCEPT ![t] = d]
  BY <1>2
<1> HIDE DEF d
<1>6. /\ pool[i] = P!Empty /\ i \notin lost /\ ~P!Held(i) /\ \A o \in Objects : given[o] # i
      /\ pool[i].handle = NOWHERE
  BY <1>2 DEF P!Lowest, PInv, FreeIsFree
<1>7. \A u \in Objects : doing'[u] = IF u = t THEN d ELSE doing[u]
  BY <1>5 DEF PInv, P!TypeOK
<1>8. \A j \in P!Slots :
        /\ pool'[j].kind = pool[j].kind /\ pool'[j].data = pool[j].data
        /\ pool'[j].handle = IF j = i THEN RESERVED ELSE pool[j].handle
        /\ j # i => pool'[j] = pool[j]
  BY <1>2 DEF PInv, P!TypeOK
<1>9. UNCHANGED <<object, given, lost>>
  BY DEF P!Reserve
<1>10. \A u, j : u \in Objects => (P!Holds(u, j)' <=> P!Holds(u, j) \/ (u = t /\ j = i))
  BY <1>1, <1>4, <1>7 DEF P!Holds, P!Holding
<1>11. \A u, o : u \in Objects => (P!Fills(u, o)' <=> P!Fills(u, o))
  BY <1>1, <1>4, <1>7 DEF P!Fills, P!Filling, P!Holding
<1>12. \A j : (P!Held(j)' <=> P!Held(j) \/ j = i) /\ (P!BeingFreed(j)' <=> P!BeingFreed(j))
  BY <1>1, <1>4, <1>7, <1>10 DEF P!Held, P!BeingFreed, P!Holding
<1>13. P!TypeOK'
  BY <1>2, <1>4, <1>5, <1>9 DEF PInv, P!TypeOK
<1>14. P!SlotsAccounted'
  BY <1>6, <1>8, <1>9, <1>10, <1>12 DEF PInv, P!SlotsAccounted, P!Held
<1>15. P!HandlesNamed'
  <2>1. ASSUME NEW o \in Objects, given[o] # P!None PROVE given[o] \in P!Slots \ {i}
    BY <1>6, <2>1 DEF PInv, P!TypeOK
  <2> QED BY <1>8, <1>9, <1>10, <1>11, <2>1 DEF PInv, P!HandlesNamed, P!Live
<1>16. FreeIsFree'
  BY <1>8, <1>9, <1>12 DEF PInv, FreeIsFree, P!Parameters
<1>17. HoldersHold'
  <2>1. ASSUME NEW u \in Objects, u # t, doing[u].op \in P!Holding PROVE doing[u].slot \in P!Slots \ {i}
    BY <1>6, <2>1 DEF PInv, HoldersHold, P!Held, P!Holds
  <2>2. pool'[i].kind = P!NoKind
    BY <1>6, <1>8 DEF P!Empty
  <2> QED BY <1>3, <1>4, <1>6, <1>7, <1>8, <1>9, <2>1, <2>2 DEF PInv, HoldersHold, P!Filling
<1>18. FillersFill'
  BY <1>4, <1>7, <1>9, <1>11 DEF PInv, FillersFill, P!Filling, P!Fills
<1>19. TasksAct'
  BY <1>1, <1>7, <1>9 DEF PInv, TasksAct
<1>20. UsersUse'
  <2>1. ASSUME NEW u \in Objects, u # t PROVE UseOK(doing[u])'
    BY <1>7, <1>8, <1>9, <1>12, <2>1 DEF PInv, UsersUse, UseOK
  <2>2. UseOK(doing[t])'
    BY <1>4, <1>7 DEF UseOK
  <2> QED BY <2>1, <2>2 DEF UsersUse
<1>21. ResultsNamed'
  BY <1>4, <1>7 DEF PInv, ResultsNamed
<1> QED BY <1>13, <1>14, <1>15, <1>16, <1>17, <1>18, <1>19, <1>20, <1>21 DEF PInv

(* xTaskCreate leaves the slot reserved: nobody frees it.                  *)
LEMMA LoseSlotStep ==
  ASSUME P!Parameters, PInv, NEW t \in Objects, P!LoseSlot(t)
  PROVE  PInv'
<1>1. PICK i \in P!Slots :
        P!Lowest(i) /\ pool' = [pool EXCEPT ![i].handle = RESERVED] /\ lost' = lost \cup {i}
  BY DEF P!LoseSlot
<1>2. pool[i] = P!Empty /\ i \notin lost /\ ~P!Held(i) /\ \A o \in Objects : given[o] # i
  BY <1>1 DEF P!Lowest, PInv, FreeIsFree
<1>3. \A j \in P!Slots :
        /\ pool'[j].kind = pool[j].kind /\ pool'[j].data = pool[j].data
        /\ pool'[j].handle = IF j = i THEN RESERVED ELSE pool[j].handle
        /\ j # i => pool'[j] = pool[j]
  BY <1>1 DEF PInv, P!TypeOK
<1>4. UNCHANGED <<object, doing, given>>
  BY DEF P!LoseSlot
<1>5. \A j : (P!Held(j)' <=> P!Held(j)) /\ (P!BeingFreed(j)' <=> P!BeingFreed(j))
  BY <1>4 DEF P!Held, P!Holds, P!BeingFreed
<1>6. \A u, j : (P!Holds(u, j)' <=> P!Holds(u, j)) /\ (P!Fills(u, j)' <=> P!Fills(u, j))
  BY <1>4 DEF P!Holds, P!Fills
<1>7. P!TypeOK'
  BY <1>1, <1>4 DEF PInv, P!TypeOK
<1>8. P!SlotsAccounted'
  BY <1>1, <1>3, <1>4, <1>5, <1>6 DEF PInv, P!SlotsAccounted
<1>9. P!HandlesNamed'
  <2>1. ASSUME NEW o \in Objects, given[o] # P!None PROVE given[o] \in P!Slots \ {i}
    BY <1>2, <2>1 DEF PInv, P!TypeOK
  <2> QED BY <1>1, <1>3, <1>4, <1>6, <2>1 DEF PInv, P!HandlesNamed, P!Live
<1>10. FreeIsFree'
  BY <1>1, <1>3, <1>4, <1>5 DEF PInv, FreeIsFree, P!Parameters
<1>11. \A u \in Objects : doing[u].op \in P!Holding => doing[u].slot \in P!Slots \ {i}
  BY <1>2 DEF PInv, HoldersHold, P!Held, P!Holds
<1>12. HoldersHold'
  BY <1>1, <1>3, <1>4, <1>11 DEF PInv, HoldersHold
<1>13. FillersFill'
  BY <1>1, <1>4, <1>6 DEF PInv, FillersFill
<1>14. TasksAct'
  BY <1>4 DEF PInv, TasksAct
<1>15. UsersUse'
  BY <1>1, <1>3, <1>4, <1>5 DEF PInv, UsersUse, UseOK
<1>16. ResultsNamed'
  BY <1>4 DEF PInv, ResultsNamed
<1> QED BY <1>7, <1>8, <1>9, <1>10, <1>12, <1>13, <1>14, <1>15, <1>16 DEF PInv

(* The kernel creates the object.                                          *)
LEMMA KernelCreateStep ==
  ASSUME PInv, NEW t \in Objects, P!KernelCreate(t)
  PROVE  PInv'
<1>1. PICK o \in Objects :
        /\ ~P!Live(o)
        /\ object' = [object EXCEPT ![o] = doing[t].what]
        /\ doing' = [doing EXCEPT ![t].op = "handle", ![t].on = o]
  BY DEF P!KernelCreate
<1> DEFINE d == [doing[t] EXCEPT !.op = "handle", !.on = o]
<1>2. doing[t] \in P!Doing /\ doing[t].op = "create" /\ doing[t].what \in P!Things
  BY DEF P!KernelCreate, PInv, P!TypeOK, HoldersHold, P!Holding
<1>3. doing' = [doing EXCEPT ![t] = d]
  BY <1>1 DEF PInv, P!TypeOK
<1>4. /\ d \in P!Doing /\ d.op = "handle" /\ d.on = o /\ d.slot = doing[t].slot
      /\ d.what = doing[t].what /\ d.result = doing[t].result
  BY <1>2 DEF P!Doing, P!Holding, P!Filling
<1> HIDE DEF d
<1>5. \A u \in Objects : doing'[u] = IF u = t THEN d ELSE doing[u]
  BY <1>3 DEF PInv, P!TypeOK
<1>6. \A p \in Objects : object'[p] = IF p = o THEN doing[t].what ELSE object[p]
  BY <1>1 DEF PInv, P!TypeOK
<1>7. UNCHANGED <<pool, given, lost>>
  BY DEF P!KernelCreate
<1>8. object[o].kind = P!NoKind
  BY <1>1 DEF P!Live
<1>9. given[o] = P!None
  BY <1>1 DEF PInv, P!HandlesNamed
<1>10. \A u, j : u \in Objects => (P!Holds(u, j)' <=> P!Holds(u, j))
  BY <1>2, <1>4, <1>5 DEF P!Holds, P!Holding, P!Filling
<1>11. \A u, p : u \in Objects => (P!Fills(u, p)' <=> P!Fills(u, p) \/ (u = t /\ p = o))
  BY <1>2, <1>4, <1>5 DEF P!Fills, P!Filling
<1>12. \A j : (P!Held(j)' <=> P!Held(j)) /\ (P!BeingFreed(j)' <=> P!BeingFreed(j))
  BY <1>2, <1>4, <1>5, <1>10 DEF P!Held, P!BeingFreed
<1>13. P!TypeOK'
  BY <1>1, <1>2, <1>3, <1>4, <1>7 DEF PInv, P!TypeOK
<1>14. P!SlotsAccounted'
  BY <1>7, <1>10, <1>12 DEF PInv, P!SlotsAccounted
<1>15. P!HandlesNamed'
  BY <1>6, <1>7, <1>9, <1>10, <1>11 DEF PInv, P!HandlesNamed, P!Live
<1>16. FreeIsFree'
  BY <1>7, <1>12 DEF PInv, FreeIsFree
<1>17. HoldersHold'
  BY <1>2, <1>4, <1>5, <1>7 DEF PInv, HoldersHold, P!Holding, P!Filling
<1>18. FillersFill'
  <2>1. ASSUME NEW u \in Objects, doing[u].op \in P!Filling, doing[u].slot \notin lost PROVE doing[u].on # o
    <3>1. object[doing[u].on] = doing[u].what
      BY <2>1 DEF PInv, FillersFill
    <3>2. doing[u].what \in P!Things
      BY <2>1 DEF PInv, HoldersHold, P!Holding, P!Filling
    <3> QED BY <1>8, <3>1, <3>2, ThingsLive
  <2>2. doing[t].slot \notin lost
    BY <1>2 DEF PInv, HoldersHold, P!Holding, P!Filling
  <2>3. ASSUME NEW u \in Objects, u # t, doing[u].op \in P!Filling, doing[u].slot \notin lost
        PROVE  /\ object'[doing[u].on] = doing[u].what
               /\ \A v \in Objects : P!Fills(v, doing[u].on)' /\ doing'[v].slot \notin lost => v = u
    <3>1. doing[u].on # o
      BY <2>1, <2>3
    <3>2. \A v \in Objects : P!Fills(v, doing[u].on)' => v # t /\ P!Fills(v, doing[u].on)
      BY <1>2, <1>5, <1>11, <2>3, <3>1 DEF P!Fills, P!Filling
    <3> QED BY <1>5, <1>6, <2>3, <3>1, <3>2 DEF PInv, FillersFill
  <2>4. ASSUME NEW v \in Objects, P!Fills(v, o)', doing'[v].slot \notin lost PROVE v = t
    BY <1>5, <1>11, <2>1, <2>4 DEF P!Fills
  <2>5. ASSUME NEW u \in Objects, u # t, doing[u].op \in P!Filling
        PROVE  doing[u].on \in Objects /\ doing[u].slot \notin lost =>
                 /\ doing[u].op # "data" => given[doing[u].on] = P!None
                 /\ doing[u].op = "data" => given[doing[u].on] = doing[u].slot
    BY <2>5 DEF PInv, FillersFill
  <2>6. \A u \in Objects : doing[u].op \in P!Filling => doing[u].on \in Objects
    BY DEF PInv, FillersFill
  <2> QED BY <1>4, <1>5, <1>6, <1>7, <1>9, <2>2, <2>3, <2>4, <2>5, <2>6 DEF FillersFill
<1>19. TasksAct'
  BY <1>2, <1>5, <1>6, <1>8, NothingRests DEF PInv, TasksAct, P!NoKind
<1>20. UsersUse'
  <2>1. ASSUME NEW u \in Objects, u # t PROVE UseOK(doing[u])'
    <3>1. doing'[u] = doing[u] /\ UseOK(doing[u])
      BY <1>5, <2>1 DEF PInv, UsersUse
    <3>2. \A p \in Objects : object[p].kind \in P!Kinds => object'[p] = object[p]
      BY <1>6, <1>8 DEF P!Kinds, P!NoKind
    <3>3. doing[u].what.kind \in P!Kinds \cup {P!NoKind}
      BY DEF PInv, P!TypeOK, P!Doing
    <3>4. doing[u].slot \in P!Slots => \A p \in Objects : given[p] = doing[u].slot => p # o
      BY <1>9 DEF P!Slots, P!None
    <3> QED BY <1>6, <1>7, <1>12, <3>1, <3>2, <3>3, <3>4 DEF UseOK
  <2>2. UseOK(doing[t])'
    BY <1>4, <1>5 DEF UseOK
  <2> QED BY <2>1, <2>2 DEF UsersUse
<1>21. ResultsNamed'
  BY <1>4, <1>5 DEF PInv, ResultsNamed
<1> QED BY <1>13, <1>14, <1>15, <1>16, <1>17, <1>18, <1>19, <1>20, <1>21 DEF PInv

(* Or does not, and the slot will be freed.                                *)
LEMMA KernelRefusesStep ==
  ASSUME PInv, NEW t \in Objects, P!KernelRefuses(t)
  PROVE  PInv'
<1> DEFINE d == [doing[t] EXCEPT !.op = "free"]
<1>1. /\ doing[t] \in P!Doing /\ doing[t].op = "create" /\ doing[t].slot \in P!Slots
      /\ pool[doing[t].slot].kind = P!NoKind /\ doing[t].slot \notin lost
  BY DEF P!KernelRefuses, PInv, P!TypeOK, HoldersHold, P!Holding, P!Filling
<1>2. doing' = [doing EXCEPT ![t] = d] /\ UNCHANGED <<pool, object, given, lost>>
  BY DEF P!KernelRefuses
<1>3. d \in P!Doing /\ d.op = "free" /\ d.slot = doing[t].slot /\ d.result = doing[t].result
  BY <1>1 DEF P!Doing, P!Holding, P!Filling
<1> HIDE DEF d
<1>4. \A u \in Objects : doing'[u] = IF u = t THEN d ELSE doing[u]
  BY <1>2 DEF PInv, P!TypeOK
<1>5. \A u, j : u \in Objects => (P!Holds(u, j)' <=> P!Holds(u, j)) /\ (P!Fills(u, j)' <=> P!Fills(u, j))
  BY <1>1, <1>3, <1>4 DEF P!Holds, P!Fills, P!Holding, P!Filling
<1>6. \A j : (P!Held(j)' <=> P!Held(j)) /\ (P!BeingFreed(j)' <=> P!BeingFreed(j) \/ j = doing[t].slot)
  BY <1>1, <1>3, <1>4, <1>5 DEF P!Held, P!BeingFreed
<1>7. P!TypeOK'
  BY <1>2, <1>3 DEF PInv, P!TypeOK
<1>8. P!SlotsAccounted'
  BY <1>2, <1>5, <1>6 DEF PInv, P!SlotsAccounted
<1>9. P!HandlesNamed'
  BY <1>2, <1>5 DEF PInv, P!HandlesNamed, P!Live
<1>10. FreeIsFree'
  BY <1>2, <1>6 DEF PInv, FreeIsFree
<1>11. HoldersHold'
  BY <1>1, <1>2, <1>3, <1>4 DEF PInv, HoldersHold, P!Holding, P!Filling, P!NoKind
<1>12. FillersFill'
  BY <1>2, <1>3, <1>4, <1>5 DEF PInv, FillersFill, P!Filling, P!Fills
<1>13. TasksAct'
  BY <1>1, <1>2, <1>4, NothingRests DEF PInv, TasksAct
<1>14. UsersUse'
  <2>1. ASSUME NEW u \in Objects, u # t PROVE UseOK(doing[u])'
    BY <1>1, <1>2, <1>4, <1>6, <2>1 DEF PInv, UsersUse, UseOK
  <2>2. UseOK(doing[t])'
    BY <1>3, <1>4 DEF UseOK
  <2> QED BY <2>1, <2>2 DEF UsersUse
<1>15. ResultsNamed'
  BY <1>3, <1>4 DEF PInv, ResultsNamed
<1> QED BY <1>7, <1>8, <1>9, <1>10, <1>11, <1>12, <1>13, <1>14, <1>15 DEF PInv

\* What the wrapper changes in its slot leaves the other slots alone, which other wrappers hold.
(* The slot a wrapper holds is its own.                                    *)
LEMMA OwnSlot ==
  ASSUME PInv, NEW t \in Objects, doing[t].op \in P!Holding
  PROVE  /\ doing[t].slot \in P!Slots /\ P!Held(doing[t].slot)
         /\ \A u \in Objects : doing[u].op \in P!Holding =>
              doing[u].slot \in P!Slots /\ (u # t => doing[u].slot # doing[t].slot)
BY DEF PInv, HoldersHold, P!SlotsAccounted, P!Held, P!Holds

(* The address goes into the slot.                                         *)
LEMMA StoreHandleStep ==
  ASSUME P!Parameters, PInv, NEW t \in Objects, P!StoreHandle(t)
  PROVE  PInv'
<1> DEFINE i == doing[t].slot
           o == doing[t].on
           d == [doing[t] EXCEPT !.op = "kind"]
<1>1. doing[t] \in P!Doing /\ doing[t].op = "handle" /\ doing[t].op \in P!Holding
  BY DEF P!StoreHandle, PInv, P!TypeOK, P!Holding, P!Filling
<1>2. o \in Objects /\ o # NOWHERE
  BY <1>1 DEF PInv, FillersFill, P!Filling, P!Parameters
<1>3. d \in P!Doing /\ d.op = "kind" /\ d.slot = i /\ d.on = o /\ d.what = doing[t].what /\ d.result = doing[t].result
  BY <1>1 DEF P!Doing, P!Holding, P!Filling
<1>4. doing' = [doing EXCEPT ![t] = d] /\ pool' = [pool EXCEPT ![i].handle = o]
      /\ UNCHANGED <<object, given, lost>>
  BY DEF P!StoreHandle
<1> HIDE DEF d
<1>5. i \in P!Slots /\ P!Held(i)
      /\ \A u \in Objects : doing[u].op \in P!Holding => doing[u].slot \in P!Slots /\ (u # t => doing[u].slot # i)
  BY <1>1, OwnSlot
<1>6. \A p \in Objects : given[p] # i
  BY <1>1 DEF PInv, HoldersHold
<1>7. \A u \in Objects : doing'[u] = IF u = t THEN d ELSE doing[u]
  BY <1>4 DEF PInv, P!TypeOK
<1>8. \A j \in P!Slots :
        /\ pool'[j].kind = pool[j].kind /\ pool'[j].data = pool[j].data
        /\ pool'[j].handle = IF j = i THEN o ELSE pool[j].handle
        /\ j # i => pool'[j] = pool[j]
  BY <1>4 DEF PInv, P!TypeOK
<1>9. \A u, j : u \in Objects => (P!Holds(u, j)' <=> P!Holds(u, j)) /\ (P!Fills(u, j)' <=> P!Fills(u, j))
  BY <1>1, <1>3, <1>7 DEF P!Holds, P!Fills, P!Holding, P!Filling
<1>10. \A j : (P!Held(j)' <=> P!Held(j)) /\ (P!BeingFreed(j)' <=> P!BeingFreed(j))
  BY <1>1, <1>3, <1>7, <1>9 DEF P!Held, P!BeingFreed
<1>11. P!TypeOK'
  BY <1>2, <1>3, <1>4 DEF PInv, P!TypeOK
<1> HIDE DEF i, o
<1>12. P!SlotsAccounted'
  BY <1>4, <1>5, <1>8, <1>9, <1>10 DEF PInv, P!SlotsAccounted
<1>13. P!HandlesNamed'
  <2>1. ASSUME NEW p \in Objects, given[p] # P!None PROVE given[p] \in P!Slots \ {i}
    BY <1>6, <2>1 DEF PInv, P!TypeOK
  <2> QED BY <1>4, <1>8, <1>9, <2>1 DEF PInv, P!HandlesNamed, P!Live
<1>14. FreeIsFree'
  BY <1>2, <1>4, <1>8, <1>10 DEF PInv, FreeIsFree
<1>15. HoldersHold'
  <2>1. pool[i].kind = P!NoKind /\ doing[t].what \in P!Things
    BY <1>1 DEF i, PInv, HoldersHold, P!Holding, P!Filling
  <2> QED BY <1>3, <1>4, <1>5, <1>6, <1>7, <1>8, <2>1 DEF PInv, HoldersHold, P!Filling
<1>16. FillersFill'
  <2>1. ASSUME NEW u \in Objects
        PROVE  /\ doing'[u].on = doing[u].on /\ doing'[u].slot = doing[u].slot /\ doing'[u].what = doing[u].what
               /\ (doing'[u].op \in P!Filling <=> doing[u].op \in P!Filling)
               /\ (doing'[u].op = "data" <=> doing[u].op = "data")
    BY <1>1, <1>3, <1>7 DEF i, o, P!Filling
  <2> QED BY <1>4, <1>9, <2>1 DEF PInv, FillersFill, P!Fills
<1>17. TasksAct'
  BY <1>1, <1>4, <1>7, NothingRests DEF PInv, TasksAct
<1>18. UsersUse'
  <2>1. ASSUME NEW u \in Objects, u # t PROVE UseOK(doing[u])'
    BY <1>4, <1>7, <1>8, <1>10, <2>1 DEF PInv, UsersUse, UseOK
  <2>2. UseOK(doing[t])'
    BY <1>3, <1>7 DEF UseOK
  <2> QED BY <2>1, <2>2 DEF UsersUse
<1>19. ResultsNamed'
  BY <1>3, <1>7 DEF PInv, ResultsNamed
<1> QED BY <1>11, <1>12, <1>13, <1>14, <1>15, <1>16, <1>17, <1>18, <1>19 DEF PInv

(* Then its kind.                                                          *)
LEMMA StoreKindStep ==
  ASSUME P!Parameters, PInv, NEW t \in Objects, P!StoreKind(t)
  PROVE  PInv'
<1> DEFINE i == doing[t].slot
           o == doing[t].on
           d == [doing[t] EXCEPT !.op = "data"]
<1>1. /\ doing[t] \in P!Doing /\ doing[t].op = "kind" /\ doing[t].op \in P!Holding /\ doing[t].op \in P!Filling
      /\ doing[t].what \in P!Things
  BY DEF P!StoreKind, PInv, P!TypeOK, HoldersHold, P!Holding, P!Filling
<1>2. o \in Objects /\ o # NOWHERE /\ pool[i].handle = o
  BY <1>1 DEF PInv, HoldersHold, FillersFill, P!Filling, P!Parameters
<1>3. d \in P!Doing /\ d.op = "data" /\ d.slot = i /\ d.on = o /\ d.what = doing[t].what /\ d.result = doing[t].result
  BY <1>1 DEF P!Doing, P!Holding, P!Filling
<1>4. /\ doing' = [doing EXCEPT ![t] = d] /\ pool' = [pool EXCEPT ![i].kind = doing[t].what.kind]
      /\ given' = IF i \in lost THEN given ELSE [given EXCEPT ![o] = i]
      /\ UNCHANGED <<object, lost>>
  BY DEF P!StoreKind
<1> HIDE DEF d
<1>5. i \in P!Slots /\ P!Held(i)
      /\ \A u \in Objects : doing[u].op \in P!Holding => doing[u].slot \in P!Slots /\ (u # t => doing[u].slot # i)
  BY <1>1, OwnSlot
<1>6. \A p \in Objects : given[p] # i
  BY <1>1 DEF PInv, HoldersHold
<1>7. \A u \in Objects : doing'[u] = IF u = t THEN d ELSE doing[u]
  BY <1>4 DEF PInv, P!TypeOK
<1>8. \A j \in P!Slots :
        /\ pool'[j].handle = pool[j].handle /\ pool'[j].data = pool[j].data
        /\ pool'[j].kind = IF j = i THEN doing[t].what.kind ELSE pool[j].kind
        /\ j # i => pool'[j] = pool[j]
  BY <1>4 DEF PInv, P!TypeOK
<1>9. \A u, j : u \in Objects => (P!Holds(u, j)' <=> P!Holds(u, j)) /\ (P!Fills(u, j)' <=> P!Fills(u, j))
  BY <1>1, <1>3, <1>7 DEF P!Holds, P!Fills, P!Holding, P!Filling
<1>10. \A j : (P!Held(j)' <=> P!Held(j)) /\ (P!BeingFreed(j)' <=> P!BeingFreed(j))
  BY <1>1, <1>3, <1>7, <1>9 DEF P!Held, P!BeingFreed
<1>11. i \notin lost =>
         /\ object[o] = doing[t].what /\ given[o] = P!None
         /\ \A u \in Objects : P!Fills(u, o) /\ doing[u].slot \notin lost => u = t
  BY <1>1 DEF PInv, FillersFill
<1>12. P!TypeOK'
  <2>1. doing[t].what.kind \in P!Kinds \cup {P!NoKind}
    BY <1>1 DEF P!Doing
  <2> QED BY <1>2, <1>3, <1>4, <1>5, <2>1 DEF PInv, P!TypeOK
<1>13. P!Fills(t, o) /\ P!Holds(t, i)
  BY <1>1 DEF P!Fills, P!Holds
<1> HIDE DEF i, o
<1>14. \A p \in Objects :
         given'[p] = IF p = o /\ i \notin lost THEN i ELSE given[p]
  BY <1>4 DEF PInv, P!TypeOK
<1>15. P!SlotsAccounted'
  <2>1. ASSUME NEW j \in P!Slots, pool'[j] # P!Empty
        PROVE  P!Held(j) \/ j \in lost \/ \E p \in Objects : given'[p] = j
    <3>1. CASE j = i
      BY <1>5, <3>1
    <3>2. CASE j # i
      <4>1. P!Held(j) \/ j \in lost \/ \E p \in Objects : given[p] = j
        BY <1>8, <2>1, <3>2 DEF PInv, P!SlotsAccounted
      <4>2. ASSUME NEW p \in Objects, given[p] = j PROVE given'[p] = j
        BY <1>11, <1>14, <4>2 DEF P!Slots, P!None
      <4> QED BY <4>1, <4>2
    <3> QED BY <3>1, <3>2
  <2>2. ASSUME NEW j \in P!Slots, NEW p \in Objects, NEW q \in Objects, given'[p] = j, given'[q] = j PROVE p = q
    BY <1>6, <1>14, <2>2 DEF PInv, P!SlotsAccounted
  <2>3. \A j \in P!Slots : \A u, v \in Objects : P!Holds(u, j)' /\ P!Holds(v, j)' => u = v
    BY <1>9 DEF PInv, P!SlotsAccounted
  <2> QED BY <1>4, <1>10, <2>1, <2>2, <2>3 DEF P!SlotsAccounted
<1>16. P!HandlesNamed'
  <2>1. ASSUME NEW p \in Objects, given[p] # P!None PROVE given[p] \in P!Slots \ {i}
    BY <1>6, <2>1 DEF PInv, P!TypeOK
  <2>2. CASE i \in lost
    BY <1>4, <1>8, <1>9, <2>1, <2>2 DEF PInv, P!HandlesNamed, P!Live
  <2>3. CASE i \notin lost
    <3>1. ASSUME NEW p \in Objects, p # o, given'[p] # P!None
          PROVE  /\ P!Live(p) /\ given'[p] \notin lost
                 /\ pool'[given'[p]].handle = p /\ pool'[given'[p]].kind = object[p].kind
                 /\ pool'[given'[p]].data = object[p].callback \/ \E u \in Objects : P!Holds(u, given'[p]) /\ P!Fills(u, p)
      <4>1. given'[p] = given[p]
        BY <1>14, <3>1
      <4> QED BY <1>8, <2>1, <3>1, <4>1 DEF PInv, P!HandlesNamed
    <3>2. P!Live(o) /\ pool'[i].handle = o /\ pool'[i].kind = object[o].kind
      BY <1>1, <1>2, <1>5, <1>8, <1>11, <2>3, ThingsLive DEF P!Live, i
    <3>3. given'[o] = i
      BY <1>2, <1>14, <2>3
    <3>4. \A p : P!Live(p)' <=> P!Live(p)
      BY <1>4 DEF P!Live
    <3> QED BY <1>4, <1>9, <1>13, <2>3, <3>1, <3>2, <3>3, <3>4 DEF P!HandlesNamed
  <2> QED BY <2>2, <2>3
<1>17. FreeIsFree'
  <2>1. ASSUME NEW j \in P!Slots, pool'[j].handle = NOWHERE
        PROVE  pool'[j] = P!Empty /\ j \notin lost /\ ~P!Held(j) /\ \A p \in Objects : given'[p] # j
    <3>1. j # i /\ pool[j].handle = NOWHERE /\ pool'[j] = pool[j]
      BY <1>2, <1>8, <2>1 DEF i
    <3> QED BY <1>14, <3>1 DEF PInv, FreeIsFree
  <2> QED BY <1>4, <1>10, <2>1 DEF FreeIsFree
<1>18. HoldersHold'
  <2>1. ASSUME NEW u \in Objects, u # t, doing[u].op \in P!Holding
        PROVE  \A p \in Objects : given'[p] = doing[u].slot => given[p] = doing[u].slot
    BY <1>5, <1>14, <2>1
  <2>2. ASSUME NEW p \in Objects, given'[p] = i PROVE p = o
    BY <1>6, <1>14, <2>2
  <2>3. pool'[i].handle = o /\ pool'[i].kind = doing[t].what.kind
    BY <1>2, <1>5, <1>8 DEF i
  <2>4. ASSUME NEW u \in Objects, u # t, doing[u].op \in P!Holding
        PROVE  pool'[doing[u].slot] = pool[doing[u].slot] /\ doing[u].slot \in P!Slots
    BY <1>5, <1>8, <2>4
  <2> QED BY <1>1, <1>3, <1>4, <1>5, <1>7, <2>1, <2>2, <2>3, <2>4 DEF PInv, HoldersHold,
             P!Filling
<1>19. FillersFill'
  <2>1. ASSUME NEW u \in Objects, u # t, doing[u].op \in P!Filling
        PROVE  /\ doing[u].on \in Objects
               /\ doing[u].slot \notin lost => given'[doing[u].on] = given[doing[u].on]
    <3>1. doing[u].on \in Objects
      BY <2>1 DEF PInv, FillersFill
    <3>2. i \notin lost /\ doing[u].slot \notin lost => doing[u].on # o
      BY <1>11, <2>1 DEF P!Fills
    <3> QED BY <1>14, <3>1, <3>2
  <2>2. ASSUME NEW u \in Objects
        PROVE  /\ doing'[u].on = doing[u].on /\ doing'[u].slot = doing[u].slot /\ doing'[u].what = doing[u].what
               /\ (doing'[u].op \in P!Filling <=> doing[u].op \in P!Filling)
    BY <1>1, <1>3, <1>7 DEF i, o, P!Filling
  <2>3. i \notin lost => given'[o] = i
    BY <1>2, <1>14
  <2>4. \A u, v \in Objects : P!Fills(v, doing[u].on)' <=> P!Fills(v, doing[u].on)
    BY <1>9, <2>2
  <2>5. \A u \in Objects : doing'[u].op # doing[u].op => u = t
    BY <1>7
  <2>6. doing'[t].op = "data" /\ doing[t].op \in P!Filling /\ doing[t].slot = i /\ doing[t].on = o
    BY <1>1, <1>3, <1>7 DEF i, o
  <2> QED BY <1>4, <2>1, <2>2, <2>3, <2>4, <2>5, <2>6 DEF PInv, FillersFill
<1>20. TasksAct'
  BY <1>1, <1>4, <1>7, NothingRests DEF PInv, TasksAct
<1>21. UsersUse'
  <2>1. ASSUME NEW u \in Objects, u # t PROVE UseOK(doing[u])'
    <3>1. doing'[u] = doing[u] /\ UseOK(doing[u])
      BY <1>7, <2>1 DEF PInv, UsersUse
    <3>2. ~P!BeingFreed(i)
      BY <1>1, <1>5 DEF P!BeingFreed, P!Holding, i
    <3>3. doing[u].slot \in P!Slots /\ doing[u].slot # i => pool'[doing[u].slot].kind = pool[doing[u].slot].kind
      BY <1>8
    <3>4. doing[u].slot \in P!Slots => \A p \in Objects : given[p] = doing[u].slot => given'[p] = doing[u].slot
      BY <1>11, <1>14 DEF P!Slots, P!None
    <3> QED BY <1>4, <1>10, <3>1, <3>2, <3>3, <3>4 DEF UseOK
  <2>2. UseOK(doing[t])'
    BY <1>3, <1>7 DEF UseOK
  <2> QED BY <2>1, <2>2 DEF UsersUse
<1>22. ResultsNamed'
  BY <1>3, <1>7 DEF PInv, ResultsNamed
<1> QED BY <1>12, <1>15, <1>16, <1>17, <1>18, <1>19, <1>20, <1>21, <1>22 DEF PInv

(* And a timer's callback.                                                 *)
LEMMA StoreDataStep ==
  ASSUME P!Parameters, PInv, NEW t \in Objects, P!StoreData(t)
  PROVE  PInv'
<1> DEFINE i == doing[t].slot
           o == doing[t].on
<1>1. /\ doing[t] \in P!Doing /\ doing[t].op = "data" /\ doing[t].op \in P!Holding /\ doing[t].op \in P!Filling
  BY DEF P!StoreData, PInv, P!TypeOK, P!Holding, P!Filling
<1>2. o \in Objects /\ o # NOWHERE /\ pool[i].handle = o
  BY <1>1 DEF PInv, HoldersHold, FillersFill, P!Parameters
<1>3. /\ doing' = [doing EXCEPT ![t] = P!Nothing] /\ pool' = [pool EXCEPT ![i].data = doing[t].what.callback]
      /\ UNCHANGED <<object, given, lost>>
  BY DEF P!StoreData
<1>4. i \in P!Slots /\ P!Held(i)
      /\ \A u \in Objects : doing[u].op \in P!Holding => doing[u].slot \in P!Slots /\ (u # t => doing[u].slot # i)
  BY <1>1, OwnSlot
<1>5. i \notin lost => object[o] = doing[t].what /\ given[o] = i
  BY <1>1 DEF PInv, FillersFill
<1>6. \A p \in Objects : given[p] = i => p = o
  BY <1>1 DEF PInv, HoldersHold
<1>7. \A u \in Objects : doing'[u] = IF u = t THEN P!Nothing ELSE doing[u]
  BY <1>3 DEF PInv, P!TypeOK
<1>8. \A j \in P!Slots :
        /\ pool'[j].kind = pool[j].kind /\ pool'[j].handle = pool[j].handle
        /\ pool'[j].data = IF j = i THEN doing[t].what.callback ELSE pool[j].data
        /\ j # i => pool'[j] = pool[j]
  BY <1>3 DEF PInv, P!TypeOK
<1>9. \A u, j : u \in Objects =>
        /\ (P!Holds(u, j)' <=> P!Holds(u, j) /\ u # t)
        /\ (P!Fills(u, j)' <=> P!Fills(u, j) /\ u # t)
  BY <1>7, NothingRests DEF P!Holds, P!Fills, P!Holding, P!Filling
<1>10. \A j : j # i => (P!Held(j)' <=> P!Held(j))
  BY <1>9 DEF P!Held, P!Holds
<1>11. \A j : P!BeingFreed(j)' <=> P!BeingFreed(j)
  BY <1>1, <1>7, NothingRests DEF P!BeingFreed
<1>12. P!TypeOK'
  <2>1. doing[t].what.callback \in Callbacks \cup {NOWHERE}
    BY <1>1 DEF P!Doing
  <2> QED BY <1>3, <1>4, <2>1, NothingRests DEF PInv, P!TypeOK
<1> HIDE DEF i, o
<1>13. P!SlotsAccounted'
  <2>1. ASSUME NEW j \in P!Slots, pool'[j] # P!Empty
        PROVE  P!Held(j)' \/ j \in lost \/ \E p \in Objects : given[p] = j
    <3>1. CASE j = i
      BY <1>2, <1>5, <3>1
    <3>2. CASE j # i
      BY <1>8, <1>10, <2>1, <3>2 DEF PInv, P!SlotsAccounted
    <3> QED BY <3>1, <3>2
  <2> QED BY <1>3, <1>9, <2>1 DEF PInv, P!SlotsAccounted
<1>14. P!HandlesNamed'
  <2>1. ASSUME NEW p \in Objects, given[p] # P!None
        PROVE  /\ P!Live(p) /\ given[p] \notin lost
               /\ pool'[given[p]].handle = p /\ pool'[given[p]].kind = object[p].kind
               /\ \/ pool'[given[p]].data = object[p].callback
                  \/ \E u \in Objects \ {t} : P!Holds(u, given[p]) /\ P!Fills(u, p)
    <3>1. /\ given[p] \in P!Slots /\ P!Live(p) /\ given[p] \notin lost
          /\ pool[given[p]].handle = p /\ pool[given[p]].kind = object[p].kind
          /\ pool[given[p]].data = object[p].callback \/ \E u \in Objects : P!Holds(u, given[p]) /\ P!Fills(u, p)
      BY <2>1 DEF PInv, P!HandlesNamed, P!TypeOK
    <3>2. CASE given[p] = i
      <4>1. p = o /\ object[o] = doing[t].what
        BY <1>5, <1>6, <2>1, <3>1, <3>2
      <4> QED BY <1>8, <3>1, <3>2, <4>1
    <3>3. CASE given[p] # i
      <4>1. \A u \in Objects : P!Holds(u, given[p]) => u # t
        BY <3>3 DEF P!Holds, i
      <4> QED BY <1>8, <1>9, <3>1, <3>3, <4>1
    <3> QED BY <3>2, <3>3
  <2> QED BY <1>3, <1>9, <2>1 DEF P!HandlesNamed, P!Live
<1>15. FreeIsFree'
  <2>1. ASSUME NEW j \in P!Slots, pool'[j].handle = NOWHERE
        PROVE  pool'[j] = P!Empty /\ j \notin lost /\ ~P!Held(j)' /\ \A p \in Objects : given[p] # j
    <3>1. j # i /\ pool[j].handle = NOWHERE /\ pool'[j] = pool[j]
      BY <1>2, <1>8, <2>1 DEF i
    <3> QED BY <1>10, <3>1 DEF PInv, FreeIsFree
  <2> QED BY <1>3, <2>1 DEF FreeIsFree
<1>16. HoldersHold'
  BY <1>3, <1>4, <1>7, <1>8, NothingRests DEF PInv, HoldersHold, P!Holding, P!Filling
<1>17. FillersFill'
  <2>1. ASSUME NEW u \in Objects, doing'[u].op \in P!Filling PROVE u # t /\ doing'[u] = doing[u]
    BY <1>7, <2>1, NothingRests DEF P!Filling
  <2>2. \A u, v \in Objects : u # t /\ P!Fills(v, doing[u].on)' => v # t /\ P!Fills(v, doing[u].on)
    BY <1>7, <1>9
  <2> QED BY <1>3, <1>7, <2>1, <2>2 DEF PInv, FillersFill, P!Fills
<1>18. TasksAct'
  BY <1>3, <1>7 DEF PInv, TasksAct
<1>19. UsersUse'
  <2>1. ASSUME NEW u \in Objects, u # t PROVE UseOK(doing[u])'
    BY <1>3, <1>7, <1>8, <1>11, <2>1 DEF PInv, UsersUse, UseOK
  <2>2. UseOK(doing[t])'
    BY <1>7, NothingRests DEF UseOK
  <2> QED BY <2>1, <2>2 DEF UsersUse
<1>20. ResultsNamed'
  BY <1>7, NothingRests DEF PInv, ResultsNamed
<1> QED BY <1>12, <1>13, <1>14, <1>15, <1>16, <1>17, <1>18, <1>19, <1>20 DEF PInv

-----------------------------------------------------------------------------
(* Deleting.                                                               *)

(* The slot of what was deleted is freed.                                  *)
LEMMA SetFreeStep ==
  ASSUME PInv, NEW t \in Objects, P!SetFree(t)
  PROVE  PInv'
<1> DEFINE i == doing[t].slot
<1>1. doing[t].op = "free" /\ doing[t].op \in P!Holding /\ doing[t].op \notin P!Filling
  BY DEF P!SetFree, P!Holding, P!Filling
<1>2. /\ doing' = [doing EXCEPT ![t] = P!Nothing] /\ pool' = [pool EXCEPT ![i] = P!Empty]
      /\ UNCHANGED <<object, given, lost>>
  BY DEF P!SetFree
<1>3. i \in P!Slots /\ i \notin lost /\ \A p \in Objects : given[p] # i
  BY <1>1 DEF PInv, HoldersHold
<1>4. \A u \in Objects : doing[u].op \in P!Holding => doing[u].slot \in P!Slots /\ (u # t => doing[u].slot # i)
  BY <1>1, OwnSlot
<1>5. \A u \in Objects : doing'[u] = IF u = t THEN P!Nothing ELSE doing[u]
  BY <1>2 DEF PInv, P!TypeOK
<1>6. \A j \in P!Slots : pool'[j] = IF j = i THEN P!Empty ELSE pool[j]
  BY <1>2 DEF PInv, P!TypeOK
<1>7. \A u, j : u \in Objects =>
        /\ (P!Holds(u, j)' <=> P!Holds(u, j) /\ u # t)
        /\ (P!Fills(u, j)' <=> P!Fills(u, j))
  BY <1>1, <1>5, NothingRests DEF P!Holds, P!Fills, P!Holding, P!Filling
<1>8. \A j : P!Held(j)' <=> P!Held(j) /\ j # i
  BY <1>4, <1>7 DEF P!Held, P!Holds
<1>9. \A j : P!BeingFreed(j)' => P!BeingFreed(j)
  BY <1>5, NothingRests DEF P!BeingFreed
<1>10. P!TypeOK'
  BY <1>2, <1>3, NothingRests DEF PInv, P!TypeOK, P!Empty
<1>11. P!Empty.kind = P!NoKind
  BY DEF P!Empty
<1> HIDE DEF i
<1>12. P!SlotsAccounted'
  BY <1>2, <1>6, <1>7, <1>8 DEF PInv, P!SlotsAccounted
<1>13. P!HandlesNamed'
  <2>1. ASSUME NEW p \in Objects, given[p] # P!None
        PROVE  /\ given[p] \in P!Slots \ {i}
               /\ \A u \in Objects : P!Holds(u, given[p]) => u # t
    <3>1. given[p] \in P!Slots \ {i}
      BY <1>3, <2>1 DEF PInv, P!TypeOK
    <3> QED BY <3>1 DEF P!Holds, i
  <2> QED BY <1>2, <1>6, <1>7, <2>1 DEF PInv, P!HandlesNamed, P!Live
<1>14. FreeIsFree'
  BY <1>2, <1>3, <1>6, <1>8 DEF PInv, FreeIsFree
<1>15. HoldersHold'
  BY <1>2, <1>4, <1>5, <1>6, NothingRests DEF PInv, HoldersHold, P!Holding, P!Filling
<1>16. FillersFill'
  <2>1. ASSUME NEW u \in Objects, doing'[u].op \in P!Filling PROVE u # t /\ doing'[u] = doing[u]
    BY <1>5, <2>1, NothingRests DEF P!Filling
  <2>2. \A u, v \in Objects : u # t /\ P!Fills(v, doing[u].on)' => v # t /\ P!Fills(v, doing[u].on)
    BY <1>1, <1>5, <1>7 DEF P!Fills
  <2> QED BY <1>2, <1>5, <2>1, <2>2 DEF PInv, FillersFill, P!Fills
<1>17. TasksAct'
  BY <1>2, <1>5 DEF PInv, TasksAct
<1>18. UsersUse'
  <2>1. ASSUME NEW u \in Objects, u # t PROVE UseOK(doing[u])'
    BY <1>2, <1>5, <1>6, <1>9, <1>11, <2>1 DEF PInv, UsersUse, UseOK
  <2>2. UseOK(doing[t])'
    BY <1>5, NothingRests DEF UseOK
  <2> QED BY <2>1, <2>2 DEF UsersUse
<1>19. ResultsNamed'
  BY <1>5, NothingRests DEF PInv, ResultsNamed
<1> QED BY <1>10, <1>12, <1>13, <1>14, <1>15, <1>16, <1>17, <1>18, <1>19 DEF PInv

\* An object ends.  If a task t deletes it by its handle, it frees the slot next.
(* An object ends: all steps in which one does.                            *)
LEMMA EndStep ==
  ASSUME P!Parameters, PInv, NEW o \in Objects, P!Live(o),
         NEW kept \in SUBSET P!Slots, NEW t \in Objects,
         \A i \in kept : given[o] = i /\ ~P!Held(i) /\ pool[i].kind # "TIMER",
         kept # {} => t # o /\ doing[t] = P!Nothing /\ object[t].kind = "TASK",
         NEW d \in P!Doing, kept # {} => d.op = "free" /\ kept = {d.slot} /\ d.result = P!NoKind,
         object' = [object EXCEPT ![o] = P!Dead],
         given' = P!GivenAfter(o, kept), lost' = lost \cup P!Left(o, kept), UNCHANGED pool,
         doing' = IF kept = {} THEN P!After(o) ELSE [P!After(o) EXCEPT ![t] = d]
  PROVE  PInv'
<1> DEFINE L == P!Left(o, kept)
           Freeing(u) == kept # {} /\ u = t
<1>1. /\ \A p \in Objects : object'[p] = IF p = o THEN P!Dead ELSE object[p]
      /\ \A p \in Objects : given'[p] = IF p = o \/ given[p] \in L THEN P!None ELSE given[p]
      /\ lost' = lost \cup L /\ pool' = pool /\ L \subseteq P!Slots /\ L \cap kept = {}
  BY DEF PInv, P!TypeOK, P!GivenAfter, P!Left
<1>2. ASSUME NEW u \in Objects
      PROVE  doing'[u] = IF Freeing(u) THEN d
                         ELSE IF u = o THEN P!Nothing
                         ELSE IF P!About(u, o) THEN [doing[u] EXCEPT !.raced = TRUE] ELSE doing[u]
  BY DEF P!After
<1>3. ASSUME NEW u \in Objects, u # o, ~Freeing(u)
      PROVE  /\ doing'[u].op = doing[u].op /\ doing'[u].slot = doing[u].slot /\ doing'[u].on = doing[u].on
             /\ doing'[u].what = doing[u].what /\ doing'[u].result = doing[u].result
             /\ doing'[u] \in P!Doing
             /\ ~doing'[u].raced => ~doing[u].raced /\ ~P!About(u, o)
             /\ doing[u] = P!Nothing => doing'[u] = P!Nothing
  <2>1. doing[u] \in P!Doing
    BY DEF PInv, P!TypeOK
  <2>2. CASE P!About(u, o)
    <3>1. doing'[u] = [doing[u] EXCEPT !.raced = TRUE]
      BY <1>2, <1>3, <2>2
    <3>2. doing[u].op # "none"
      BY <2>2 DEF P!About, P!Using
    <3> DEFINE e == [doing[u] EXCEPT !.raced = TRUE]
    <3>3. /\ e.op = doing[u].op /\ e.slot = doing[u].slot /\ e.on = doing[u].on
          /\ e.what = doing[u].what /\ e.result = doing[u].result /\ e.raced = TRUE
      BY <2>1 DEF P!Doing
    <3>4. e \in P!Doing
      BY <2>1 DEF P!Doing
    <3> HIDE DEF e
    <3> QED BY <3>1, <3>2, <3>3, <3>4, NothingRests DEF e
  <2>3. CASE ~P!About(u, o)
    BY <1>2, <1>3, <2>1, <2>3
  <2> QED BY <2>2, <2>3
<1>4. ASSUME NEW u \in Objects, Freeing(u)
      PROVE  /\ doing'[u] = d /\ d.op = "free" /\ d.slot \in kept /\ kept = {d.slot} /\ d.result = P!NoKind
             /\ u # o /\ doing[u].op = "none" /\ object[u].kind = "TASK"
  BY <1>2, <1>4, NothingRests
<1>5. kept # {} => kept = {d.slot} /\ given[o] = d.slot /\ d.slot \in P!Slots /\ ~P!Held(d.slot)
  OBVIOUS
<1>6. /\ \A u \in Objects : u = o => ~Freeing(u)
      /\ doing'[o] = P!Nothing
  BY <1>2
<1>7. \A j \in P!Slots :
        j \in L <=> /\ j \notin kept
                   /\ \/ pool[j].handle = o /\ ~P!Held(j)
                      \/ P!Holds(o, j)
                      \/ \E u \in Objects : P!Holds(u, j) /\ P!Fills(u, o)
  BY DEF P!Left
<1> HIDE DEF L
<1>8. \A u, j : u \in Objects =>
        (P!Holds(u, j)' <=> IF Freeing(u) THEN j = d.slot ELSE P!Holds(u, j) /\ u # o)
  <2>1. ASSUME NEW u \in Objects, Freeing(u), NEW j PROVE P!Holds(u, j)' <=> j = d.slot
    BY <1>4, <2>1 DEF P!Holds, P!Holding
  <2>2. ASSUME NEW u \in Objects, ~Freeing(u), u # o, NEW j PROVE P!Holds(u, j)' <=> P!Holds(u, j)
    BY <1>3, <2>2 DEF P!Holds
  <2>3. \A j : ~P!Holds(o, j)'
    BY <1>6, NothingRests DEF P!Holds, P!Holding, P!Filling
  <2> QED BY <1>6, <2>1, <2>2, <2>3
<1>9. \A u, p : u \in Objects =>
        /\ P!Fills(u, p)' <=> P!Fills(u, p) /\ u # o
        /\ Freeing(u) => ~P!Fills(u, p) /\ \A j : ~P!Holds(u, j)
  <2>1. ASSUME NEW u \in Objects, Freeing(u), NEW p PROVE ~P!Fills(u, p)' /\ ~P!Fills(u, p) /\ \A j : ~P!Holds(u, j)
    BY <1>4, <2>1 DEF P!Fills, P!Holds, P!Filling, P!Holding
  <2>2. ASSUME NEW u \in Objects, ~Freeing(u), u # o, NEW p PROVE P!Fills(u, p)' <=> P!Fills(u, p)
    BY <1>3, <2>2 DEF P!Fills
  <2>3. \A p : ~P!Fills(o, p)'
    BY <1>6, NothingRests DEF P!Fills, P!Filling
  <2> QED BY <1>6, <2>1, <2>2, <2>3
<1>10. P!TypeOK'
  <2>1. P!Dead \in P!Things \cup {P!Dead} /\ P!None \in P!Slots \cup {P!None}
    OBVIOUS
  <2>2. object' \in [Objects -> P!Things \cup {P!Dead}] /\ given' \in [Objects -> P!Slots \cup {P!None}]
    BY <1>1, <2>1 DEF PInv, P!TypeOK, P!GivenAfter
  <2>3. \A u \in Objects : doing'[u] \in P!Doing
    BY <1>2, <1>3, NothingRests
  <2>4. doing' = [u \in Objects |-> doing'[u]]
    BY DEF P!After
  <2>5. doing' \in [Objects -> P!Doing]
    BY <2>3, <2>4
  <2> QED BY <1>1, <2>2, <2>5 DEF PInv, P!TypeOK
<1>11. \A p \in Objects : given[p] # P!None =>
         /\ given[p] \in P!Slots /\ given[p] \notin lost
         /\ pool[given[p]].handle = p /\ pool[given[p]].kind = object[p].kind
  BY DEF PInv, P!TypeOK, P!HandlesNamed
<1>12. \A u \in Objects : doing[u].op \in P!Holding => doing[u].slot \in P!Slots
  BY DEF PInv, HoldersHold
<1>13. P!SlotsAccounted'
  <2>1. ASSUME NEW j \in P!Slots, pool[j] # P!Empty
        PROVE  \/ \E u \in Objects : P!Holds(u, j)'
               \/ j \in lost'
               \/ \E p \in Objects : given'[p] = j
    <3>1. CASE j \in L
      BY <1>1, <3>1
    <3>2. CASE j \in kept
      <4>1. Freeing(t) /\ j = d.slot
        BY <1>5, <3>2
      <4> QED BY <1>8, <4>1
    <3>3. CASE j \notin L /\ j \notin kept
      <4>1. ASSUME NEW u \in Objects, P!Holds(u, j) PROVE P!Holds(u, j)'
        BY <1>7, <1>8, <1>9, <3>3, <4>1
      <4>2. ASSUME NEW p \in Objects, given[p] = j PROVE given'[p] = j
        <5>1. CASE p # o
          BY <1>1, <3>3, <4>2, <5>1
        <5>2. CASE p = o
          <6>1. pool[j].handle = o
            BY <1>11, <4>2, <5>2 DEF P!Slots, P!None
          <6>2. PICK u \in Objects : P!Holds(u, j)
            BY <1>7, <3>3, <6>1 DEF P!Held
          <6>3. P!Fills(u, o)
            BY <4>2, <5>2, <6>2 DEF P!Holds, P!Fills, P!Filling, PInv, HoldersHold
          <6> QED BY <1>7, <3>3, <6>2, <6>3
        <5> QED BY <5>1, <5>2
      <4>3. P!Held(j) \/ j \in lost \/ \E p \in Objects : given[p] = j
        BY <2>1 DEF PInv, P!SlotsAccounted
      <4> QED BY <1>1, <4>1, <4>2, <4>3 DEF P!Held
    <3> QED BY <3>1, <3>2, <3>3
  <2>2. ASSUME NEW j \in P!Slots, NEW u \in Objects, NEW v \in Objects, P!Holds(u, j)', P!Holds(v, j)' PROVE u = v
    BY <1>5, <1>8, <2>2 DEF PInv, P!SlotsAccounted, P!Held
  <2>3. ASSUME NEW j \in P!Slots, NEW p \in Objects, NEW q \in Objects, given'[p] = j, given'[q] = j PROVE p = q
    <3>1. given[p] = j /\ given[q] = j
      BY <1>1, <2>3 DEF P!Slots, P!None
    <3> QED BY <3>1 DEF PInv, P!SlotsAccounted
  <2> QED BY <1>1, <2>1, <2>2, <2>3 DEF P!SlotsAccounted, P!Held
<1>14. P!HandlesNamed'
  <2>1. ASSUME NEW p \in Objects, given'[p] # P!None
        PROVE  /\ p # o /\ given'[p] = given[p] /\ given[p] \notin L /\ given[p] \notin kept /\ given[p] \in P!Slots
    <3>1. p # o /\ given'[p] = given[p] /\ given[p] \notin L /\ given[p] # P!None
      BY <1>1, <2>1
    <3>2. given[p] \in P!Slots
      BY <1>11, <3>1
    <3>3. given[p] \notin kept
      BY <3>1, <3>2 DEF PInv, P!SlotsAccounted
    <3> QED BY <3>1, <3>2, <3>3
  <2>2. ASSUME NEW p \in Objects, given'[p] # P!None,
               NEW u \in Objects, P!Holds(u, given[p]), P!Fills(u, p)
        PROVE  P!Holds(u, given[p])' /\ P!Fills(u, p)'
    <3>1. u # o /\ ~Freeing(u)
      BY <1>7, <1>9, <2>1, <2>2
    <3> QED BY <1>8, <1>9, <2>1, <2>2, <3>1
  <2>3. ASSUME NEW p \in Objects, given'[p] # P!None
        PROVE  /\ object'[p].kind # P!NoKind /\ given'[p] \notin lost'
               /\ pool'[given'[p]].handle = p /\ pool'[given'[p]].kind = object'[p].kind
               /\ \/ pool'[given'[p]].data = object'[p].callback
                  \/ \E u \in Objects : P!Holds(u, given[p])' /\ P!Fills(u, p)'
    <3>1. /\ given[p] # P!None /\ p # o /\ given'[p] = given[p] /\ given[p] \notin L
          /\ object'[p] = object[p] /\ pool' = pool
      BY <1>1, <2>1, <2>3
    <3>2. /\ object[p].kind # P!NoKind /\ given[p] \notin lost
          /\ pool[given[p]].handle = p /\ pool[given[p]].kind = object[p].kind
          /\ pool[given[p]].data = object[p].callback \/ \E u \in Objects : P!Holds(u, given[p]) /\ P!Fills(u, p)
      BY <3>1 DEF PInv, P!HandlesNamed, P!Live
    <3> QED BY <1>1, <2>2, <2>3, <3>1, <3>2
  <2> QED BY <2>3 DEF P!HandlesNamed, P!Live
<1>15. FreeIsFree'
  <2>1. ASSUME NEW j \in P!Slots, pool[j].handle = NOWHERE
        PROVE  /\ pool[j] = P!Empty /\ j \notin lost'
               /\ (\A u \in Objects : ~P!Holds(u, j)') /\ \A p \in Objects : given'[p] # j
    <3>1. /\ pool[j] = P!Empty /\ j \notin lost /\ ~P!Held(j) /\ \A p \in Objects : given[p] # j
      BY <2>1 DEF PInv, FreeIsFree
    <3>2. j \notin L
      <4>1. o # NOWHERE
        BY DEF P!Parameters
      <4> QED BY <1>7, <2>1, <3>1, <4>1 DEF P!Held
    <3>3. \A u \in Objects : ~P!Holds(u, j)'
      <4>1. kept # {} => d.slot # j
        BY <1>5, <3>1
      <4> QED BY <1>8, <3>1, <4>1 DEF P!Held
    <3> QED BY <1>1, <3>1, <3>2, <3>3 DEF P!Slots, P!None
  <2> QED BY <1>1, <2>1 DEF FreeIsFree, P!Held
<1>16. HoldersHold'
  <2>1. ASSUME NEW u \in Objects, ~Freeing(u), doing'[u].op \in P!Holding
        PROVE  /\ u # o /\ doing[u].op \in P!Holding /\ doing[u].slot \in P!Slots
               /\ doing[u].op \notin P!Filling => doing[u].slot \notin lost'
               /\ \A p \in Objects : given'[p] = doing[u].slot => given[p] = doing[u].slot
    <3>1. u # o
      BY <1>6, <2>1, NothingRests DEF P!Holding, P!Filling
    <3>2. doing[u].op \in P!Holding /\ doing[u].slot \in P!Slots /\ P!Holds(u, doing[u].slot)
      BY <1>3, <1>12, <2>1, <3>1 DEF P!Holds
    <3>3. doing[u].op \notin P!Filling => doing[u].slot \notin lost
      BY <3>2 DEF PInv, HoldersHold
    <3>4. doing[u].op \notin P!Filling => doing[u].slot \notin L
      <4>1. \A v \in Objects : P!Holds(v, doing[u].slot) => v = u
        BY <3>2 DEF PInv, P!SlotsAccounted
      <4> QED BY <1>7, <3>1, <3>2, <4>1 DEF P!Held, P!Fills
    <3> QED BY <1>1, <3>1, <3>2, <3>3, <3>4 DEF P!Slots, P!None
  <2>2. ASSUME NEW u \in Objects, Freeing(u)
        PROVE  /\ doing'[u].op = "free" /\ doing'[u].slot \in P!Slots
               /\ pool'[doing'[u].slot].kind # "TIMER" /\ doing'[u].slot \notin lost'
               /\ \A p \in Objects : given'[p] # doing'[u].slot
    <3>1. doing'[u].op = "free" /\ doing'[u].slot = d.slot /\ d.slot \in P!Slots /\ d.slot \in kept /\ given[o] = d.slot
      BY <1>4, <1>5, <2>2
    <3>2. pool[d.slot].kind # "TIMER" /\ d.slot \notin lost /\ d.slot \notin L
      BY <1>1, <1>11, <3>1 DEF P!Slots, P!None
    <3>3. \A p \in Objects : given'[p] # d.slot
      BY <1>1, <3>1 DEF PInv, P!SlotsAccounted, P!Slots, P!None
    <3> QED BY <1>1, <3>1, <3>2, <3>3
  <2>3. ASSUME NEW u \in Objects, ~Freeing(u), doing'[u].op \in P!Holding
        PROVE  /\ doing'[u].op = doing[u].op /\ doing'[u].slot = doing[u].slot
               /\ doing'[u].on = doing[u].on /\ doing'[u].what = doing[u].what
    BY <1>3, <2>1, <2>3
  <2>4. ASSUME NEW u \in Objects, ~Freeing(u), doing'[u].op \in P!Holding
        PROVE  /\ doing'[u].slot \in P!Slots
               /\ doing'[u].op \in {"create", "handle", "kind"} => pool'[doing'[u].slot].kind = P!NoKind
               /\ doing'[u].op \in {"kind", "data"} => pool'[doing'[u].slot].handle = doing'[u].on
               /\ doing'[u].op = "data" => pool'[doing'[u].slot].kind = doing'[u].what.kind
               /\ doing'[u].op = "free" => pool'[doing'[u].slot].kind # "TIMER"
               /\ doing'[u].op \notin P!Filling => doing'[u].slot \notin lost'
               /\ doing'[u].op \notin {"free"} => doing'[u].what \in P!Things
               /\ \A p \in Objects : given'[p] = doing'[u].slot => doing'[u].op = "data" /\ doing'[u].on = p
    BY <1>1, <2>1, <2>3, <2>4 DEF PInv, HoldersHold
  <2> QED BY <2>2, <2>4 DEF HoldersHold, P!Filling
<1>17. FillersFill'
  <2>1. ASSUME NEW u \in Objects, doing'[u].op \in P!Filling
        PROVE  /\ u # o /\ ~Freeing(u) /\ doing'[u].op = doing[u].op /\ doing'[u].slot = doing[u].slot
               /\ doing'[u].on = doing[u].on /\ doing'[u].what = doing[u].what
               /\ doing[u].slot \in P!Slots /\ P!Holds(u, doing[u].slot)
    <3>1. u # o /\ ~Freeing(u)
      BY <1>4, <1>6, <2>1, NothingRests DEF P!Filling
    <3>2. doing[u].op \in P!Filling
      BY <1>3, <2>1, <3>1
    <3> QED BY <1>3, <1>12, <3>1, <3>2 DEF P!Holds, P!Holding
  <2>2. ASSUME NEW u \in Objects, doing'[u].op \in P!Filling, doing'[u].slot \notin lost'
        PROVE  /\ doing[u].slot \notin lost /\ doing[u].slot \notin L /\ doing[u].on # o
    <3>1. doing[u].slot \notin lost /\ doing[u].slot \notin L /\ doing[u].slot \notin kept
      BY <1>1, <1>5, <2>1, <2>2 DEF P!Held
    <3>2. ~P!Fills(u, o)
      BY <1>7, <2>1, <2>2, <3>1
    <3> QED BY <2>1, <2>2, <3>1, <3>2 DEF P!Fills
  <2>3. ASSUME NEW u \in Objects, doing'[u].op \in P!Filling
        PROVE  /\ doing[u].op \in P!Filling /\ doing[u].on \in Objects
               /\ doing[u].slot \notin lost =>
                    /\ object[doing[u].on] = doing[u].what
                    /\ doing[u].op # "data" => given[doing[u].on] = P!None
                    /\ doing[u].op = "data" => given[doing[u].on] = doing[u].slot
                    /\ \A v \in Objects :
                         P!Fills(v, doing[u].on) /\ doing[v].slot \notin lost => v = u
    BY <2>1, <2>3 DEF PInv, FillersFill
  <2>4. ASSUME NEW u \in Objects, doing'[u].op \in P!Filling, doing'[u].slot \notin lost'
        PROVE  /\ object'[doing'[u].on] = doing'[u].what
               /\ doing'[u].op # "data" => given'[doing'[u].on] = P!None
               /\ doing'[u].op = "data" => given'[doing'[u].on] = doing'[u].slot
    BY <1>1, <2>1, <2>2, <2>3, <2>4
  <2>5. ASSUME NEW u \in Objects, doing'[u].op \in P!Filling, doing'[u].slot \notin lost',
               NEW v \in Objects, P!Fills(v, doing[u].on)', doing'[v].slot \notin lost'
        PROVE  v = u
    <3>1. P!Fills(v, doing[u].on) /\ doing'[v].op \in P!Filling
      BY <1>9, <2>1, <2>5 DEF P!Fills
    <3>2. doing[v].slot \notin lost
      BY <2>2, <2>5, <3>1
    <3> QED BY <2>2, <2>3, <2>5, <3>1, <3>2
  <2>6. \A u \in Objects : doing'[u].op \in P!Filling => doing'[u].on \in Objects
    BY <2>1, <2>3
  <2> QED BY <2>4, <2>5, <2>6 DEF FillersFill
<1>18. TasksAct'
  <2>1. ASSUME NEW u \in Objects, doing'[u] # P!Nothing PROVE object'[u].kind = "TASK"
    <3>1. u # o
      BY <1>6, <2>1
    <3>2. object[u].kind = "TASK"
      BY <1>3, <1>4, <2>1, <3>1 DEF PInv, TasksAct
    <3> QED BY <1>1, <3>1, <3>2
  <2> QED BY <2>1 DEF TasksAct
<1>19. UsersUse'
  <2>1. ASSUME NEW u \in Objects, Freeing(u) PROVE UseOK(doing[u])'
    BY <1>4, <2>1 DEF UseOK
  <2>2. UseOK(doing[o])'
    BY <1>6, NothingRests DEF UseOK
  <2>3. ASSUME NEW u \in Objects, ~Freeing(u), u # o PROVE UseOK(doing[u])'
    <3> DEFINE e == doing[u]
               f == doing'[u]
    <3>1. /\ f.op = e.op /\ f.slot = e.slot /\ f.on = e.on /\ f.what = e.what
          /\ ~f.raced => ~e.raced /\ ~P!About(u, o)
      BY <1>3, <2>3
    <3>2. UseOK(e)
      BY DEF PInv, UsersUse
    <3>3. ~f.raced /\ f.op \in P!Using =>
            e.on # o /\ \A i \in P!Slots : e.slot = i => pool[i].handle # o
      BY <3>1 DEF P!About
    <3>4. \A p \in Objects : p # o => object'[p] = object[p]
      BY <1>1
    <3>5. \A p \in Objects, j \in P!Slots : given[p] = j /\ p # o => given'[p] = j \/ j \in lost'
      BY <1>1
    <3>6. \A p \in Objects, j \in P!Slots : given[p] = j /\ pool[j].handle # o => p # o
      BY <1>11 DEF P!Slots, P!None
    <3>7. ASSUME NEW j, P!BeingFreed(j)' PROVE P!BeingFreed(j) \/ (j \in P!Slots /\ pool[j].handle = o)
      <4>1. PICK v \in Objects : doing'[v].op = "free" /\ doing'[v].slot = j
        BY <3>7 DEF P!BeingFreed
      <4>2. CASE Freeing(v)
        BY <1>4, <1>5, <1>11, <4>1, <4>2 DEF P!Slots, P!None
      <4>3. CASE ~Freeing(v)
        BY <1>3, <1>6, <4>1, <4>3, NothingRests DEF P!BeingFreed
      <4> QED BY <4>2, <4>3
    <3>8. lost \subseteq lost' /\ pool' = pool
      BY <1>1
    <3>9. f.op \in {"read", "fetch", "answer"} => f.slot \in P!Slots
      BY <3>1, <3>2 DEF UseOK
    <3>10. /\ f.op \in {"read", "fetch"} => f.what.kind \in P!Kinds
           /\ f.op = "lookup" => f.on \in Objects /\ f.what.kind \in P!Kinds \ {"TIMER"} /\ f.what.callback = NOWHERE
           /\ f.op = "answer" => f.on \in Objects
      BY <3>1, <3>2 DEF UseOK
    <3>11. f.op = "read" /\ ~f.raced =>
             /\ f.slot \in P!Slots /\ pool[f.slot].handle # o
             /\ P!BeingFreed(f.slot) => pool[f.slot].kind = P!NoKind
      BY <3>1, <3>2, <3>3, <3>9 DEF UseOK, P!Using
    <3>12. f.op = "fetch" /\ ~f.raced =>
             f.slot \in lost' \/ \E p \in Objects : given'[p] = f.slot /\ object'[p].kind = f.what.kind
      <4> SUFFICES ASSUME f.op = "fetch", ~f.raced, f.slot \notin lost'
                   PROVE  \E p \in Objects : given'[p] = f.slot /\ object'[p].kind = f.what.kind
        OBVIOUS
      <4>1. f.slot \in P!Slots /\ pool[f.slot].handle # o /\ ~e.raced /\ e.op = "fetch" /\ f.slot \notin lost
        BY <3>1, <3>3, <3>8, <3>9 DEF P!Using
      <4>2. PICK p \in Objects : given[p] = f.slot /\ object[p].kind = f.what.kind
        BY <3>1, <3>2, <4>1 DEF UseOK
      <4> QED BY <3>4, <3>5, <3>6, <4>1, <4>2
    <3>13. f.op = "kernel" /\ f.what.kind # P!NoKind /\ ~f.raced =>
             f.slot \in lost' \/ (f.on \in Objects /\ object'[f.on].kind = f.what.kind)
      BY <3>1, <3>2, <3>3, <3>4, <3>8 DEF UseOK, P!Using
    <3>14. f.op = "lookup" /\ ~f.raced => object'[f.on].kind = f.what.kind
      BY <3>1, <3>2, <3>3, <3>4 DEF UseOK, P!Using
    <3>15. f.op = "answer" /\ ~f.raced =>
             f.slot \in lost' \/ (given'[f.on] = f.slot /\ f.what.callback = object'[f.on].callback)
      BY <3>1, <3>2, <3>3, <3>4, <3>5, <3>8, <3>9, <3>10 DEF UseOK, P!Using
    <3>16. f.op = "read" /\ ~f.raced /\ P!BeingFreed(doing[u].slot)' => pool'[f.slot].kind = P!NoKind
      <4>1. P!BeingFreed(doing[u].slot)' => P!BeingFreed(f.slot) \/ (f.slot \in P!Slots /\ pool[f.slot].handle = o)
        BY <3>7 DEF P!BeingFreed
      <4> HIDE DEF f
      <4> QED BY <3>8, <3>11, <4>1
    <3>17. /\ doing'[u].op \in {"read", "fetch", "answer"} => doing'[u].slot \in P!Slots
           /\ doing'[u].op \in {"read", "fetch"} => doing'[u].what.kind \in P!Kinds
           /\ doing'[u].op = "fetch" /\ ~doing'[u].raced =>
                doing'[u].slot \in lost' \/ \E p \in Objects : given'[p] = doing'[u].slot /\ object'[p].kind = doing'[u].what.kind
           /\ doing'[u].op = "kernel" /\ doing'[u].what.kind # P!NoKind /\ ~doing'[u].raced =>
                doing'[u].slot \in lost' \/ (doing'[u].on \in Objects /\ object'[doing'[u].on].kind = doing'[u].what.kind)
      BY <3>9, <3>10, <3>12, <3>13
    <3>18. /\ doing'[u].op = "lookup" =>
                doing'[u].on \in Objects /\ doing'[u].what.kind \in P!Kinds \ {"TIMER"} /\ doing'[u].what.callback = NOWHERE
           /\ doing'[u].op = "lookup" /\ ~doing'[u].raced => object'[doing'[u].on].kind = doing'[u].what.kind
           /\ doing'[u].op = "answer" => doing'[u].on \in Objects
           /\ doing'[u].op = "answer" /\ ~doing'[u].raced =>
                doing'[u].slot \in lost' \/ (given'[doing'[u].on] = doing'[u].slot /\ doing'[u].what.callback = object'[doing'[u].on].callback)
      BY <3>10, <3>14, <3>15
    <3> QED BY <3>16, <3>17, <3>18 DEF UseOK
  <2> QED BY <2>1, <2>2, <2>3 DEF UsersUse
<1>20. ResultsNamed'
  <2>1. ASSUME NEW u \in Objects PROVE doing'[u].result \in {P!NoKind, "TASK", "QUEUE"}
    <3>1. CASE Freeing(u)
      BY <1>4, <3>1
    <3>2. CASE u = o
      BY <1>6, <3>2, NothingRests
    <3>3. CASE ~Freeing(u) /\ u # o
      BY <1>3, <3>3 DEF PInv, ResultsNamed
    <3> QED BY <3>1, <3>2, <3>3
  <2> QED BY <2>1 DEF ResultsNamed
<1> QED BY <1>10, <1>13, <1>14, <1>15, <1>16, <1>17, <1>18, <1>19, <1>20 DEF PInv

(* By a wrapper that will free the slot.                                   *)
LEMMA DeleteStep ==
  ASSUME P!Parameters, PInv, NEW t \in Objects, P!Delete(t)
  PROVE  PInv'
<1>1. doing[t] = P!Nothing /\ object[t].kind = "TASK"
  BY DEF P!Delete, P!MayManage, P!Idle
<1>2. PICK i \in P!Slots, o \in Objects \ {t} :
        /\ given[o] = i /\ ~P!Held(i)
        /\ object[o].kind # "TIMER"
        /\ pool[i].kind = object[o].kind /\ pool[i].handle = o
        /\ object' = [object EXCEPT ![o] = P!Dead]
        /\ given' = P!GivenAfter(o, {i})
        /\ lost' = lost \cup P!Left(o, {i})
        /\ doing' = [P!After(o) EXCEPT ![t] = [P!Nothing EXCEPT !.op = "free", !.slot = i]]
  BY DEF P!Delete
<1> DEFINE d == [P!Nothing EXCEPT !.op = "free", !.slot = i]
<1>3. d \in P!Doing /\ d.op = "free" /\ d.slot = i /\ d.result = P!NoKind
  BY NothingRests DEF P!Doing, P!Holding
<1>4. P!Live(o)
  BY <1>2 DEF PInv, P!HandlesNamed, P!Slots, P!None
<1>5. doing' = [P!After(o) EXCEPT ![t] = d] /\ UNCHANGED pool
  BY <1>2 DEF P!Delete
<1> HIDE DEF d
<1> DEFINE kept == {i}
<1>6. /\ kept \in SUBSET P!Slots /\ kept # {} /\ kept = {d.slot}
      /\ \A j \in kept : given[o] = j /\ ~P!Held(j) /\ pool[j].kind # "TIMER"
      /\ given' = P!GivenAfter(o, kept) /\ lost' = lost \cup P!Left(o, kept)
  BY <1>2, <1>3
<1> HIDE DEF kept
<1>7. o \in Objects /\ t # o /\ object' = [object EXCEPT ![o] = P!Dead]
  BY <1>2
<1>8. doing' = IF kept = {} THEN P!After(o) ELSE [P!After(o) EXCEPT ![t] = d]
  BY <1>5, <1>6
<1> QED BY <1>1, <1>3, <1>4, <1>5, <1>6, <1>7, <1>8, EndStep

(* Or by the kernel, and its handle stays.                                 *)
LEMMA EndsUnnoticedStep ==
  ASSUME P!Parameters, PInv, NEW o \in Objects, P!Live(o), P!EndsUnnoticed(o)
  PROVE  PInv'
<1> DEFINE kept == {}
<1>1. /\ kept \in SUBSET P!Slots /\ kept = {} /\ \A i \in kept : given[o] = i /\ ~P!Held(i) /\ pool[i].kind # "TIMER"
      /\ object' = [object EXCEPT ![o] = P!Dead] /\ UNCHANGED pool
      /\ given' = P!GivenAfter(o, kept) /\ lost' = lost \cup P!Left(o, kept)
      /\ doing' = P!After(o)
  BY DEF P!EndsUnnoticed
<1> HIDE DEF kept
<1> QED BY <1>1, NothingRests, EndStep

-----------------------------------------------------------------------------
(* The whole.                                                              *)

(* At first all slots are free.                                            *)
LEMMA PoolStarts == P!Parameters /\ P!Init => PInv
<1> SUFFICES ASSUME P!Parameters, P!Init PROVE PInv
  OBVIOUS
<1> DEFINE timerTask == [kind |-> "TASK", privileged |-> TRUE, callback |-> NOWHERE]
<1>1. /\ \A o \in Objects : object[o] = (IF o = FIRST THEN timerTask ELSE P!Dead)
      /\ \A o \in Objects : doing[o] = P!Nothing /\ given[o] = P!None
      /\ \A i \in P!Slots : pool[i] = P!Empty
      /\ lost = {}
  BY DEF P!Init
<1>2. timerTask \in P!Things /\ timerTask.kind = "TASK"
  BY DEF P!Things, P!Kinds
<1> HIDE DEF timerTask
<1>3. P!TypeOK
  <2>1. object \in [Objects -> P!Things \cup {P!Dead}]
    BY <1>1, <1>2 DEF P!Init, timerTask
  <2>2. pool \in [P!Slots -> [handle : Objects \cup {NOWHERE, RESERVED}, kind : P!Kinds \cup {P!NoKind}, data : Callbacks \cup {NOWHERE}]]
    BY DEF P!Init, P!Empty
  <2> QED BY <2>1, <2>2, NothingRests DEF P!Init, P!TypeOK
<1>4. \A o \in Objects : doing[o].op = "none" /\ doing[o].op \notin P!Holding /\ doing[o].op \notin P!Filling
  BY <1>1, NothingRests DEF P!Holding, P!Filling
<1>5. P!SlotsAccounted /\ P!HandlesNamed /\ FreeIsFree
  BY <1>1, <1>4 DEF P!SlotsAccounted, P!HandlesNamed, FreeIsFree, P!Held, P!Holds,
     P!Slots, P!None
<1>6. HoldersHold /\ FillersFill /\ TasksAct
  BY <1>1, <1>4 DEF HoldersHold, FillersFill, TasksAct
<1>7. UsersUse /\ ResultsNamed
  BY <1>1, NothingRests DEF UsersUse, ResultsNamed
<1> QED BY <1>3, <1>5, <1>6, <1>7 DEF PInv

(* Nothing happens.                                                        *)
LEMMA PoolStutters == PInv /\ UNCHANGED P!poolVars => PInv'
<1> SUFFICES ASSUME PInv, UNCHANGED P!poolVars PROVE PInv'
  OBVIOUS
<1> USE DEF P!poolVars, PInv
<1>1. P!TypeOK' /\ P!SlotsAccounted' /\ P!HandlesNamed' /\ FreeIsFree'
  BY DEF P!TypeOK, P!SlotsAccounted, P!HandlesNamed, FreeIsFree, P!Held, P!Holds,
     P!Fills, P!Live
<1>2. HoldersHold' /\ FillersFill' /\ TasksAct' /\ ResultsNamed'
  BY DEF HoldersHold, FillersFill, TasksAct, ResultsNamed, P!Fills
<1>3. UsersUse'
  BY DEF UsersUse, UseOK, P!BeingFreed
<1> QED BY <1>1, <1>2, <1>3

(* All steps.                                                              *)
LEMMA PoolSteps == P!Parameters /\ PInv /\ [P!Next]_(P!poolVars) => PInv'
<1> SUFFICES ASSUME P!Parameters, PInv, [P!Next]_(P!poolVars) PROVE PInv'
  OBVIOUS
<1>1. ASSUME NEW o \in Objects, P!Creating(o) PROVE PInv'
  BY <1>1, ReserveStep, LoseSlotStep, KernelCreateStep, KernelRefusesStep, StoreHandleStep,
     StoreKindStep, StoreDataStep DEF P!Creating
<1>2. ASSUME NEW o \in Objects, P!Deleting(o) PROVE PInv'
  <2>1. CASE P!DeleteSelf(o)
    BY <2>1, EndsUnnoticedStep DEF P!DeleteSelf, P!MayManage, P!Idle, P!Live,
       P!NoKind
  <2>2. CASE P!TimerEnds(o)
    BY <2>2, EndsUnnoticedStep DEF P!TimerEnds, P!Live, P!NoKind
  <2> QED BY <1>2, <2>1, <2>2, DeleteStep, SetFreeStep DEF P!Deleting
<1>3. ASSUME NEW o \in Objects, P!Calling(o) PROVE PInv'
  BY <1>3, CheckStep, ReadKindStep, ReadHandleStep, KernelReturnsStep, LookUpStep, FireStep,
     ReturnStep DEF P!Calling
<1> QED BY <1>1, <1>2, <1>3, PoolStutters DEF P!Next

(* What the invariant knows of a call is what the property asks for.       *)
LEMMA PoolSound == PInv => P!HandlesSound
BY DEF PInv, P!HandlesSound, P!ReachesItsObject, P!AnswersGiven, UsersUse, UseOK

(* Whatever the size of the pool, and however many tasks create, delete    *)
(* and use objects at a time, every slot has one user, a handle names the  *)
(* object it was given for, the kernel gets live objects of the kind asked *)
(* for, and an object is found by its own handle; but for the slots that   *)
(* nobody frees and the lookups that race with a deletion.                 *)
THEOREM HandlesAreSound == ASSUME P!Parameters PROVE P!Spec => [](P!TypeOK /\ P!HandlesSound)
<1>1. P!Init => PInv
  BY PoolStarts
<1>2. PInv /\ [P!Next]_(P!poolVars) => PInv'
  BY PoolSteps
<1>3. PInv => P!TypeOK /\ P!HandlesSound
  BY PoolSound DEF PInv
<1> QED BY <1>1, <1>2, <1>3, PTL DEF P!Spec

-----------------------------------------------------------------------------
(* The objects of the kernel.  Their sizes, SIZE_MAX + 1 and the length of *)
(* the registry have names of their own here.                              *)
CONSTANTS Requests(_), Structures, OVERFLOW, ENTRIES, MaxMade, None
VARIABLES taken, objects, work, phase, tasksMade, current, dying, registry, ids, mixed, misfreed

K == INSTANCE KernelObjects WITH
 heap <- taken, Sizes <- Structures, TOP <- OVERFLOW, Slots <- ENTRIES

-----------------------------------------------------------------------------
(* What is asked for, by the application and for the start.                *)
Wishes == (UNION {Requests(a) : a \in Callers \cup {"main"}}) \cup {K!IdleTask, K!TimerTask, K!TimerQueue}

IsIn(b, list) == \E i \in DOMAIN list : list[i] = b

\* The points of a call, as far as one is like the other.
Making == {"stack", "tcb", "give_back", "alloc", "make", "fill_in"}
Naming == {"search", "name", "handle"}
Unnaming == {"unregister", "unname", "forget"}
Later == Naming \cup Unnaming \cup {"free"}

Call ==
  [pc : {"none", "free"} \cup Making \cup Naming \cup Unnaming,
   asks : Wishes \cup {None}, parts : Seq(Nat), object : Nat \cup {None}, slot : Nat]
Thing ==
  [id : Nat, asks : Wishes, parts : Seq(Nat), by : K!Actors \cup {"timers"}, items : Nat]

KTyped ==
  /\ ids \in Nat /\ tasksMade \in Int /\ mixed \in BOOLEAN
  /\ work \in [K!Actors -> Call] /\ objects \subseteq Thing /\ IsFiniteSet(objects)
  /\ taken \subseteq [id : Nat, bytes : Nat]
  /\ registry \in [1 .. ENTRIES -> [named : Nat \cup {None}, handle : Nat \cup {None}]]
  /\ dying \in Seq(Thing)

\* The parts a call has before it needs the next: of a task both, or its block.
Has(r, parts) ==
  IF r.kind = "task"
  THEN CASE r.memory = "heap" -> \E x, y \in Nat \ {0} : x # y /\ parts = <<x, y>>
         [] r.memory = "own_stack" -> \E x \in Nat \ {0} : parts = <<x>>
         [] OTHER -> parts = <<>>
  ELSE IF r.memory = "heap" THEN (\E x \in Nat \ {0} : parts = <<x>>) /\ K!Allowed(r) ELSE parts = <<>>

Short(parts) ==
  \/ parts = <<>>
  \/ \E x \in Nat \ {0} : parts = <<x>>
  \/ \E x, y \in Nat \ {0} : x # y /\ parts = <<x, y>>
CallOK(c) ==
  /\ Short(c.parts)
  /\ c.pc = "none" => c = K!Nothing
  /\ c.pc \in Making => c.asks \in Wishes /\ c.object = None /\ c.slot = 0
  /\ c.pc \in {"stack", "tcb", "give_back"} => c.asks.kind = "task"
  /\ c.pc = "stack" => c.asks.memory = "heap" /\ c.parts = <<>>
  /\ c.pc = "tcb" => \/ c.asks.memory = "heap" /\ \E x \in Nat \ {0} : c.parts = <<x>>
                     \/ c.asks.memory = "own_stack" /\ c.parts = <<>>
  /\ c.pc = "give_back" => \E x \in Nat \ {0} : c.parts = <<x>>
  /\ c.pc = "alloc" => c.asks.kind # "task" /\ c.asks.memory = "heap" /\ c.parts = <<>>
  /\ c.pc \in {"make", "fill_in"} => Has(c.asks, c.parts)
  /\ c.pc = "fill_in" => c.asks.kind = "timer"
  /\ c.pc \in Naming => c.parts = <<>>
  /\ c.pc \in Later => c.asks = None
  /\ c.pc \in Later => c.object \in Nat
  /\ c.pc \in {"name", "handle", "unname", "forget"} => c.slot \in 1 .. ENTRIES

ObjectOK(o) ==
  /\ \E parts \in Seq(Nat) : o.parts = K!Brought(o.asks) \o parts /\ Has(o.asks, parts)
  /\ o.asks.kind \in {"semaphore", "mutex"} => o.items <= o.asks.length

ShapesOK ==
  /\ \A a \in K!Actors : CallOK(work[a])
  /\ \A o \in objects : ObjectOK(o) /\ o.id <= ids
  /\ \A o, p \in objects : o.id = p.id => o = p

(* Who has which block.                                                    *)
Taken == {h.id : h \in taken}
Holds(a, b) == IsIn(b, work[a].parts)
Owns(o, b) == IsIn(b, o.parts)
MemoryOK ==
  /\ ~misfreed
  /\ \A h \in taken : h.id > 0 /\ h.id <= ids
  /\ \A g, h \in taken : g.id = h.id => g = h
  /\ \A a \in K!Actors : \A b : Holds(a, b) => b \in Taken
  /\ \A o \in objects : \A b : Owns(o, b) => b = K!CallersMemory \/ b \in Taken
  /\ \A b \in Taken : (\E a \in K!Actors : Holds(a, b)) \/ \E o \in objects : Owns(o, b)
  /\ \A a, c \in K!Actors : \A b : Holds(a, b) /\ Holds(c, b) => a = c
  /\ \A o, p \in objects : \A b \in Taken : Owns(o, b) /\ Owns(p, b) => o = p
  /\ \A a \in K!Actors, o \in objects : \A b \in Taken : ~(Holds(a, b) /\ Owns(o, b))

(* What a block was taken for, it is large enough for.                     *)
RoomFor(r) == IF r.kind = "queue" THEN Structures.queue + r.length * r.size ELSE Structures.stream + r.size + 1
Stored(r) == r.kind \in {"queue", "stream"} /\ r.memory = "heap"
RoomsOK ==
  /\ \A a \in K!Actors : work[a].pc = "make" /\ Stored(work[a].asks) =>
       \A h \in taken : h.id = work[a].parts[1] => h.bytes = RoomFor(work[a].asks)
  /\ \A o \in objects : Stored(o.asks) =>
       \A h \in taken : h.id = o.parts[1] => h.bytes = RoomFor(o.asks)

Phases == {"main", "idle_task", "timer_queue", "timer_task", "running", "halted"}
Made1(r) == \E o \in K!Tasks : o.asks = r
StartOK ==
  /\ phase \in Phases
  /\ tasksMade = Cardinality(K!Tasks)
  /\ \A a \in K!Actors \ {"main"} : phase # "running" => work[a] = K!Nothing
  /\ phase \in {"timer_queue", "running", "halted"} => work["main"] = K!Nothing
  /\ phase = "idle_task" => work["main"].asks = K!IdleTask
  /\ phase = "timer_task" => work["main"].asks = K!TimerTask
  /\ phase # "running" => dying = <<>>
  /\ phase \in {"timer_queue", "timer_task", "running"} => Made1(K!IdleTask)
  /\ phase \in {"timer_task", "running"} => K!HasTimerQueue
  /\ phase = "running" => Made1(K!TimerTask)
  /\ \A o \in objects : o.by = "timers" => o.asks = K!TimerQueue
  /\ \A o, p \in objects : o.by = "timers" /\ p.by = "timers" => o = p
  /\ phase # "running" /\ K!Tasks = {} => current = None
  /\ phase # "running" /\ K!Tasks # {} =>
       \E o \in K!Tasks : o.id = current /\ \A x \in K!Tasks :
         x.asks.count < o.asks.count \/ (x.asks.count = o.asks.count /\ x.id <= o.id)

(* Who deletes what.                                                       *)
ClaimsOK ==
  /\ \A a, c \in K!Actors : work[a].object # None /\ work[a].object = work[c].object => a = c
  /\ \A a \in K!Actors : work[a].object # None => work[a].object <= ids
  /\ \A a \in K!Actors : work[a].pc \in Naming =>
       \E o \in objects : o.id = work[a].object /\ o.asks.kind \in K!Queues
  /\ \A a \in K!Actors : work[a].pc \in Unnaming \cup {"free"} => \A o \in objects : o.id # work[a].object
  /\ \A i \in DOMAIN dying :
       /\ dying[i] \in K!Tasks /\ dying[i].asks \notin {K!IdleTask, K!TimerTask, K!TimerQueue}
       /\ \A j \in DOMAIN dying : dying[i].id = dying[j].id => i = j
       /\ \A a \in K!Actors : work[a].object # dying[i].id

Writing == {"name", "handle", "unname", "forget"}
NamesOK ==
  /\ \A s \in 1 .. ENTRIES : registry[s].handle # None =>
       \/ \E a \in K!Actors : work[a].object = registry[s].handle /\ work[a].pc \in Unnaming
       \/ \E o \in objects : o.id = registry[s].handle /\ o.asks.kind \in K!Queues
  /\ \A s, x \in 1 .. ENTRIES : registry[s].handle # None /\ registry[s].handle = registry[x].handle => s = x
  /\ \A a \in K!Actors : \A s \in 1 .. ENTRIES :
       /\ work[a].pc \in Naming => registry[s].handle # work[a].object
       /\ work[a].pc \in {"unname", "forget"} /\ registry[s].handle = work[a].object => s = work[a].slot
  /\ ~mixed =>
       /\ \A a, c \in K!Actors : work[a].pc \in Writing /\ work[c].pc \in Writing => a = c
       /\ \A s \in 1 .. ENTRIES : registry[s].named = registry[s].handle
            \/ \E a \in K!Actors : work[a].pc \in {"handle", "forget"} /\ work[a].slot = s
       /\ \A a \in K!Actors : work[a].pc = "handle" => registry[work[a].slot].named = work[a].object
       /\ \A a \in K!Actors : work[a].pc = "forget" => registry[work[a].slot].named = None

KInv == KTyped /\ ShapesOK /\ MemoryOK /\ RoomsOK /\ StartOK /\ ClaimsOK /\ NamesOK

-----------------------------------------------------------------------------
(* Short lists.                                                            *)
LEMMA Empty == <<>> \in Seq(Nat) /\ (\A b : ~IsIn(b, <<>>)) /\ <<>> \o <<>> = <<>>
BY EmptySeq DEF IsIn

(* A sequence of one part.                                                 *)
LEMMA One ==
  ASSUME NEW x \in Nat
  PROVE  /\ <<x>> \in Seq(Nat) /\ <<x>> # <<>> /\ <<x>>[1] = x /\ (\A b : IsIn(b, <<x>>) <=> b = x)
         /\ Tail(<<x>>) = <<>> /\ Head(<<x>>) = x
         /\ <<x>> \o <<>> = <<x>> /\ <<>> \o <<x>> = <<x>> /\ Append(<<>>, x) = <<x>>
<1>1. <<x>> \in Seq(Nat) /\ <<x>> # <<>> /\ <<x>>[1] = x /\ (\A b : IsIn(b, <<x>>) <=> b = x)
  BY DEF IsIn
<1>2. Tail(<<x>>) = <<>> /\ Head(<<x>>) = x
  OBVIOUS
<1>3. <<x>> \o <<>> = <<x>> /\ <<>> \o <<x>> = <<x>> /\ Append(<<>>, x) = <<x>>
  OBVIOUS
<1> QED BY <1>1, <1>2, <1>3

(* A sequence of two.                                                      *)
LEMMA Two ==
  ASSUME NEW x \in Nat, NEW y \in Nat
  PROVE  /\ <<x, y>> \in Seq(Nat) /\ <<x, y>> # <<>> /\ <<x, y>> # <<x>> /\ <<x, y>>[1] = x
         /\ \A b : IsIn(b, <<x, y>>) <=> b = x \/ b = y
         /\ Append(<<x>>, y) = <<x, y>> /\ <<x>> \o <<y>> = <<x, y>> /\ <<>> \o <<x, y>> = <<x, y>>
         /\ Tail(<<x, y>>) = <<y>> /\ Head(<<x, y>>) = x
<1>1. <<x, y>> \in Seq(Nat) /\ <<x, y>> # <<>> /\ <<x, y>> # <<x>> /\ <<x, y>>[1] = x
  OBVIOUS
<1>2. ASSUME NEW b PROVE IsIn(b, <<x, y>>) <=> b = x \/ b = y
  <2>1. DOMAIN <<x, y>> = {1, 2} /\ <<x, y>>[1] = x /\ <<x, y>>[2] = y
    OBVIOUS
  <2> QED BY <2>1 DEF IsIn
<1>3. Append(<<x>>, y) = <<x, y>>
  <2>1. /\ Append(<<x>>, y) \in Seq(Nat) /\ Len(Append(<<x>>, y)) = 2
        /\ Append(<<x>>, y)[1] = x /\ Append(<<x>>, y)[2] = y
    OBVIOUS
  <2>2. \A i \in 1 .. 2 : i = 1 \/ i = 2
    OBVIOUS
  <2>3. Len(<<x, y>>) = 2 /\ <<x, y>>[1] = x /\ <<x, y>>[2] = y
    OBVIOUS
  <2> DEFINE t == <<x, y>>
             s == Append(<<x>>, y)
  <2>4. s \in Seq(Nat) /\ t \in Seq(Nat) /\ Len(s) = Len(t) /\ \A i \in 1 .. Len(s) : s[i] = t[i]
    BY <1>1, <2>1, <2>2, <2>3
  <2> HIDE DEF s, t
  <2>5. s = t
    BY <2>4, SeqEqual
  <2> QED BY <2>5 DEF s, t
<1>4. <<x>> \o <<y>> = <<x, y>>
  <2>1. /\ <<x>> \o <<y>> \in Seq(Nat) /\ Len(<<x>> \o <<y>>) = 2
        /\ (<<x>> \o <<y>>)[1] = x /\ (<<x>> \o <<y>>)[2] = y
    OBVIOUS
  <2>2. \A i \in 1 .. 2 : i = 1 \/ i = 2
    OBVIOUS
  <2>3. Len(<<x, y>>) = 2 /\ <<x, y>>[1] = x /\ <<x, y>>[2] = y
    OBVIOUS
  <2> DEFINE t == <<x, y>>
             s == <<x>> \o <<y>>
  <2>4. s \in Seq(Nat) /\ t \in Seq(Nat) /\ Len(s) = Len(t) /\ \A i \in 1 .. Len(s) : s[i] = t[i]
    BY <1>1, <2>1, <2>2, <2>3
  <2> HIDE DEF s, t
  <2>5. s = t
    BY <2>4, SeqEqual
  <2> QED BY <2>5 DEF s, t
<1>5. <<>> \o <<x, y>> = <<x, y>>
  BY <1>1, ConcatEmptySeq
<1>6. Tail(<<x, y>>) = <<y>>
  OBVIOUS
<1>7. Head(<<x, y>>) = x
  OBVIOUS
<1> QED BY <1>1, <1>2, <1>3, <1>4, <1>5, <1>6, <1>7

(* The least slot of some is one of them.                                  *)
LEMMA LeastIn ==
  ASSUME NEW S \in SUBSET Nat, S # {}
  PROVE  K!Least(S) \in S
<1>1. PICK x \in S : \A y \in S : ~(<<y, x>> \in OpToRel(<, Nat))
  BY NatLessThanWellFounded, WFMin
<1>2. \A y \in S : ~(y < x)
  BY <1>1 DEF OpToRel
<1>3. \E z \in S : \A y \in S : z <= y
  BY <1>2
<1> QED BY <1>3 DEF K!Least

(* What is asked for.                                                      *)
LEMMA Wishing ==
  ASSUME NEW r \in Wishes
  PROVE  \/ r \in {K!IdleTask, K!TimerTask, K!TimerQueue}
         \/ \E a \in Callers \cup {"main"} : r \in Requests(a)
<1>1. r \in UNION {Requests(a) : a \in Callers \cup {"main"}} \/ r \in {K!IdleTask, K!TimerTask, K!TimerQueue}
  BY DEF Wishes
<1>2. ASSUME NEW S, r \in UNION {Requests(a) : a \in S} PROVE \E a \in S : r \in Requests(a)
  BY <1>2, Zenon
<1> QED BY <1>1, <1>2

(* Every request, the start's included, is one that Parameters allow.      *)
LEMMA Requested ==
  ASSUME K!Parameters, NEW r \in Wishes
  PROVE  /\ r.kind \in K!Kinds \cup {"task"} /\ r.memory \in {"heap", "own_stack", "own"}
         /\ (r.kind # "task" => r.memory \in {"heap", "own"})
         /\ r.length \in Nat /\ r.size \in Nat /\ r.count \in Nat /\ r.size < OVERFLOW /\ r.length < OVERFLOW
<1>1. OVERFLOW \in Nat /\ OVERFLOW > 2
  BY DEF K!Parameters
<1>2. CASE r \in {K!IdleTask, K!TimerTask, K!TimerQueue}
  <2>1. /\ r.kind \in {"task", "queue"} /\ r.memory = "heap" /\ r.length \in {0, 2} /\ r.size = 1
        /\ r.count \in {0, OVERFLOW - 1}
    BY <1>2 DEF K!IdleTask, K!TimerTask, K!TimerQueue
  <2> QED BY <1>1, <2>1 DEF K!Kinds, K!Queues
<1>3. ASSUME NEW a \in Callers \cup {"main"}, r \in Requests(a)
      PROVE  /\ r.kind \in K!Kinds \cup {"task"} /\ r.memory \in {"heap", "own_stack", "own"}
             /\ (r.kind # "task" => r.memory \in {"heap", "own"})
             /\ r.length \in Nat /\ r.size \in Nat /\ r.count \in Nat /\ r.size < OVERFLOW /\ r.length < OVERFLOW
  <2>1. /\ r.kind \in K!Kinds \cup {"task"} /\ {r.length, r.size, r.count} \subseteq 0 .. OVERFLOW - 1
        /\ r.memory \in IF r.kind = "task" THEN {"heap", "own_stack", "own"} ELSE {"heap", "own"}
    BY <1>3 DEF K!Parameters
  <2> HIDE DEF K!Kinds
  <2>2. r.length \in 0 .. OVERFLOW - 1 /\ r.size \in 0 .. OVERFLOW - 1 /\ r.count \in 0 .. OVERFLOW - 1
    BY <2>1
  <2>3. r.memory \in {"heap", "own_stack", "own"} /\ (r.kind # "task" => r.memory \in {"heap", "own"})
    BY <2>1
  <2>4. r.length \in Nat /\ r.size \in Nat /\ r.count \in Nat /\ r.size < OVERFLOW /\ r.length < OVERFLOW
    BY ONLY <1>1, <2>2
  <2> QED BY <2>1, <2>3, <2>4, Zenon
<1> QED BY <1>2, <1>3, Wishing

(* Only queues are named when they are made.                               *)
LEMMA NamedQueue ==
  ASSUME K!Parameters, NEW r \in Wishes
  PROVE  r.named \in BOOLEAN /\ (r.named => r.kind \in K!Queues)
<1>1. ASSUME NEW a \in Callers \cup {"main"}, r \in Requests(a)
      PROVE  r.named \in BOOLEAN /\ (r.named => r.kind \in K!Queues)
  BY <1>1 DEF K!Parameters
<1>2. CASE r \in {K!IdleTask, K!TimerTask, K!TimerQueue}
  <2>1. K!IdleTask.named = FALSE /\ K!TimerTask.named = FALSE /\ K!TimerQueue.named = TRUE /\ K!TimerQueue.kind \in K!Queues
    BY DEF K!IdleTask, K!TimerTask, K!TimerQueue, K!Queues
  <2> QED BY <1>2, <2>1, Zenon
<1> QED BY <1>1, <1>2, Wishing

-----------------------------------------------------------------------------
(* The parts of a call and of an object.                                   *)
LEMMA ShortFacts ==
  ASSUME NEW parts, Short(parts)
  PROVE  /\ parts \in Seq(Nat) /\ ~IsIn(0, parts)
         /\ parts # <<>> => /\ Head(parts) \in Nat \ {0} /\ IsIn(Head(parts), parts) /\ Short(Tail(parts))
                            /\ \A b : IsIn(b, Tail(parts)) <=> IsIn(b, parts) /\ b # Head(parts)
<1>1. CASE parts = <<>>
  BY <1>1, Empty
<1>2. ASSUME NEW x \in Nat \ {0}, parts = <<x>> PROVE
         /\ parts \in Seq(Nat) /\ ~IsIn(0, parts)
         /\ parts # <<>> => /\ Head(parts) \in Nat \ {0} /\ IsIn(Head(parts), parts) /\ Short(Tail(parts))
                            /\ \A b : IsIn(b, Tail(parts)) <=> IsIn(b, parts) /\ b # Head(parts)
  <2>1. /\ parts \in Seq(Nat) /\ parts # <<>> /\ (\A b : IsIn(b, parts) <=> b = x)
        /\ Tail(parts) = <<>> /\ Head(parts) = x
    BY <1>2, One, Zenon
  <2>2. Short(<<>>) /\ \A b : ~IsIn(b, <<>>)
    BY Empty DEF Short
  <2>3. ~IsIn(0, parts) /\ IsIn(x, parts)
    BY <2>1
  <2>4. \A b : IsIn(b, Tail(parts)) <=> IsIn(b, parts) /\ b # x
    BY <2>1, <2>2, Zenon
  <2> QED BY <2>1, <2>2, <2>3, <2>4
<1>3. ASSUME NEW x \in Nat \ {0}, NEW y \in Nat \ {0}, x # y, parts = <<x, y>> PROVE
         /\ parts \in Seq(Nat) /\ ~IsIn(0, parts)
         /\ parts # <<>> => /\ Head(parts) \in Nat \ {0} /\ IsIn(Head(parts), parts) /\ Short(Tail(parts))
                            /\ \A b : IsIn(b, Tail(parts)) <=> IsIn(b, parts) /\ b # Head(parts)
  <2>1. /\ parts \in Seq(Nat) /\ parts # <<>> /\ (\A b : IsIn(b, parts) <=> b = x \/ b = y)
        /\ Tail(parts) = <<y>> /\ Head(parts) = x
    <3>1. x \in Nat /\ y \in Nat
      OBVIOUS
    <3>2. /\ <<x, y>> \in Seq(Nat) /\ <<x, y>> # <<>> /\ (\A b : IsIn(b, <<x, y>>) <=> b = x \/ b = y)
          /\ Tail(<<x, y>>) = <<y>> /\ Head(<<x, y>>) = x
      BY <3>1, Two
    <3> QED BY <1>3, <3>2, Zenon
  <2>2. Short(<<y>>) /\ \A b : IsIn(b, <<y>>) <=> b = y
    <3>1. \A b : IsIn(b, <<y>>) <=> b = y
      BY One
    <3> QED BY <3>1, Zenon DEF Short
  <2>3. ~IsIn(0, parts) /\ IsIn(x, parts)
    BY <2>1
  <2>4. \A b : IsIn(b, Tail(parts)) <=> IsIn(b, parts) /\ b # x
    <3>1. \A b : IsIn(b, parts) /\ b # x <=> b = y
      BY <1>3, <2>1
    <3> QED BY <2>1, <2>2, <3>1, Zenon
  <2> QED BY <2>1, <2>2, <2>3, <2>4
<1> QED BY <1>1, <1>2, <1>3 DEF Short

(* What follows of the parts a finished call has.                          *)
LEMMA HasFacts ==
  ASSUME K!Parameters, NEW r \in Wishes, NEW parts, Has(r, parts)
  PROVE  /\ Short(parts)
         /\ K!Brought(r) \o parts \in Seq(Nat)
         /\ r.memory = "heap" => K!Brought(r) \o parts = parts
         /\ r.memory # "heap" => Tail(K!Brought(r) \o parts) = parts
         /\ \A b : b # 0 => (IsIn(b, K!Brought(r) \o parts) <=> IsIn(b, parts))
         /\ Stored(r) => \E x \in Nat \ {0} : parts = <<x>>
<1>1. r.memory \in {"heap", "own_stack", "own"} /\ (r.kind # "task" => r.memory \in {"heap", "own"})
  BY Requested
<1>2. Short(parts)
  BY <1>1 DEF Has, Short
<1>3. parts \in Seq(Nat)
  BY <1>2, ShortFacts
<1>4. CASE r.memory = "heap"
  <2>1. K!Brought(r) \o parts = parts
    BY <1>3, <1>4, ConcatEmptySeq DEF K!Brought
  <2>2. Stored(r) => \E x \in Nat \ {0} : parts = <<x>>
    BY <1>4 DEF Stored, Has
  <2> QED BY <1>2, <1>3, <1>4, <2>1, <2>2
<1>5. CASE r.memory # "heap" /\ parts = <<>>
  <2>1. K!Brought(r) \o parts = <<0>>
    BY <1>5, One DEF K!Brought, K!CallersMemory
  <2>2. <<0>> \in Seq(Nat) /\ Tail(<<0>>) = <<>> /\ (\A b : IsIn(b, <<0>>) <=> b = 0) /\ \A b : ~IsIn(b, <<>>)
    BY One, Empty
  <2>3. ~Stored(r)
    BY <1>5 DEF Stored
  <2> QED BY <1>2, <1>3, <1>5, <2>1, <2>2, <2>3
<1>6. ASSUME r.memory # "heap", NEW x \in Nat \ {0}, parts = <<x>>
      PROVE  /\ K!Brought(r) \o parts \in Seq(Nat) /\ Tail(K!Brought(r) \o parts) = parts
             /\ \A b : b # 0 => (IsIn(b, K!Brought(r) \o parts) <=> IsIn(b, parts))
  <2>1. K!Brought(r) \o parts = <<0, x>>
    <3>1. K!Brought(r) = <<0>>
      BY <1>6 DEF K!Brought, K!CallersMemory
    <3>2. 0 \in Nat /\ x \in Nat
      OBVIOUS
    <3>3. <<0>> \o <<x>> = <<0, x>>
      BY <3>2, Two
    <3> QED BY <1>6, <3>1, <3>3
  <2>2. /\ <<0, x>> \in Seq(Nat) /\ Tail(<<0, x>>) = <<x>> /\ (\A b : IsIn(b, <<0, x>>) <=> b = 0 \/ b = x)
        /\ \A b : IsIn(b, <<x>>) <=> b = x
    <3>1. 0 \in Nat /\ x \in Nat
      OBVIOUS
    <3>2. /\ <<0, x>> \in Seq(Nat) /\ Tail(<<0, x>>) = <<x>>
          /\ \A b : IsIn(b, <<0, x>>) <=> b = 0 \/ b = x
      BY <3>1, Two
    <3>3. \A b : IsIn(b, <<x>>) <=> b = x
      BY <3>1, One
    <3> QED BY <3>2, <3>3
  <2>3. ASSUME NEW b, b # 0 PROVE IsIn(b, K!Brought(r) \o parts) <=> IsIn(b, parts)
    <3>1. IsIn(b, <<0, x>>) <=> IsIn(b, <<x>>)
      BY <2>2, <2>3, Zenon
    <3> QED BY <1>6, <2>1, <3>1, Zenon
  <2>4. K!Brought(r) \o parts \in Seq(Nat) /\ Tail(K!Brought(r) \o parts) = parts
    BY <1>6, <2>1, <2>2, Zenon
  <2> QED BY <2>3, <2>4
<1>7. r.memory # "heap" => parts = <<>> \/ \E x \in Nat \ {0} : parts = <<x>>
  BY <1>1 DEF Has
<1>8. r.memory # "heap" => ~Stored(r)
  BY DEF Stored
<1> QED BY <1>2, <1>3, <1>4, <1>5, <1>6, <1>7, <1>8

(* What is freed of an object are its parts, but for the caller's memory.  *)
LEMMA ObjectFacts ==
  ASSUME K!Parameters, NEW o \in Thing, ObjectOK(o)
  PROVE  /\ Short(K!ToFree(o)) /\ \A b : IsIn(b, K!ToFree(o)) <=> b # 0 /\ Owns(o, b)
         /\ Stored(o.asks) => \E x \in Nat \ {0} : o.parts = <<x>>
<1>1. o.asks \in Wishes
  BY DEF Thing
<1>2. PICK parts \in Seq(Nat) : o.parts = K!Brought(o.asks) \o parts /\ Has(o.asks, parts)
  BY DEF ObjectOK
<1>3. /\ Short(parts) /\ (\A b : b # 0 => (IsIn(b, o.parts) <=> IsIn(b, parts)))
      /\ o.asks.memory = "heap" => o.parts = parts
      /\ o.asks.memory # "heap" => Tail(o.parts) = parts
      /\ Stored(o.asks) => \E x \in Nat \ {0} : parts = <<x>>
  BY <1>1, <1>2, HasFacts
<1>4. K!ToFree(o) = parts
  BY <1>3 DEF K!ToFree
<1>5. ~IsIn(0, parts)
  BY <1>3, ShortFacts
<1>6. Stored(o.asks) => o.asks.memory = "heap"
  BY DEF Stored
<1> QED BY <1>3, <1>4, <1>5, <1>6 DEF Owns

(* What a block is asked to hold, it holds.                                *)
LEMMA Remainder ==
  ASSUME NEW t \in Nat \ {0}, NEW x \in Nat
  PROVE  /\ x % t \in Nat /\ (x < t => x % t = x) /\ (t <= x /\ x < 2 * t => x % t = x - t)
<1> DEFINE q == x \div t
           m == x % t
<1>1. q \in Int /\ m \in 0 .. t - 1 /\ x = t * q + m
  OBVIOUS
<1>2. q >= 1 => t * q >= t
  BY <1>1
<1>3. q >= 2 => t * q >= 2 * t
  BY <1>1
<1>4. q <= -1 => t * q <= -t
  BY <1>1
<1>5. q = 0 \/ q = 1 \/ q >= 2 \/ q <= -1
  BY <1>1
<1>6. q = 0 => x = m
  BY <1>1
<1>7. q = 1 => x = t + m
  BY <1>1
<1> HIDE DEF q, m
<1>8. m \in Nat /\ (x < t => m = x) /\ (t <= x /\ x < 2 * t => m = x - t)
  BY <1>1, <1>2, <1>3, <1>4, <1>5, <1>6, <1>7
<1> QED BY <1>8 DEF m

(* A product is no larger than a number that allows it when divided.       *)
LEMMA Product ==
  ASSUME NEW l \in Nat \ {0}, NEW s \in Nat, NEW n \in Nat, n \div l >= s
  PROVE  l * s <= n
<1> DEFINE q == n \div l
<1>1. q \in Int /\ n % l \in 0 .. l - 1 /\ n = l * q + (n % l)
  OBVIOUS
<1>2. l * q >= l * s
  BY <1>1
<1>3. l * q \in Int /\ l * s \in Int
  BY <1>1
<1> HIDE DEF q
<1> QED BY <1>1, <1>2, <1>3

(* An allowed size does not wrap: what is asked for is what is needed.     *)
LEMMA RoomEnough ==
  ASSUME K!Parameters, NEW r \in Wishes, r.kind # "task", K!Allowed(r)
  PROVE  K!Asked(r) \in Nat /\ (Stored(r) => K!Asked(r) = RoomFor(r))
<1>1. /\ OVERFLOW \in Nat \ {0} /\ r.size \in Nat /\ r.length \in Nat /\ r.size < OVERFLOW /\ r.kind \in K!Kinds
      /\ Structures.queue \in 0 .. OVERFLOW - 1 /\ Structures.stream \in 0 .. OVERFLOW - 1
      /\ Structures.timer \in Nat /\ Structures.group \in Nat
  <2>1. OVERFLOW \in Nat \ {0} /\ Structures \in [{"task", "queue", "stream", "timer", "group"} -> 0 .. OVERFLOW - 1]
    <3>1. OVERFLOW \in Nat /\ OVERFLOW > 2 /\ Structures \in [{"task", "queue", "stream", "timer", "group"} -> 0 .. OVERFLOW - 1]
      BY Zenon DEF K!Parameters
    <3> QED BY <3>1
  <2>2. r.size \in Nat /\ r.length \in Nat /\ r.size < OVERFLOW /\ r.kind \in K!Kinds
    BY Requested
  <2> HIDE DEF K!Kinds
  <2> QED BY <2>1, <2>2
<1> DEFINE bytes == r.length * r.size
           whole == bytes + Structures.queue
           longer == r.size + 1 + Structures.stream
<1>2. bytes \in Nat /\ whole \in Nat /\ longer \in Nat /\ longer < 2 * OVERFLOW
  BY <1>1
<1>3. CASE r.kind = "queue"
  <2>1. r.length > 0 /\ (OVERFLOW - 1) \div r.length >= r.size /\ OVERFLOW - 1 - Structures.queue >= bytes % OVERFLOW
    BY <1>3 DEF K!Allowed, K!QueueFits
  <2>2. bytes <= OVERFLOW - 1
    <3>1. r.length \in Nat \ {0} /\ r.size \in Nat /\ OVERFLOW - 1 \in Nat /\ (OVERFLOW - 1) \div r.length >= r.size
      BY <1>1, <2>1
    <3>2. r.length * r.size <= OVERFLOW - 1
      BY <3>1, Product
    <3> QED BY <3>2
  <2>3. bytes % OVERFLOW = bytes
    BY <1>1, <1>2, <2>2, Remainder
  <2>4. whole < OVERFLOW
    BY <1>1, <1>2, <2>1, <2>3
  <2>5. whole % OVERFLOW = whole
    BY <1>1, <1>2, <2>4, Remainder
  <2>6. K!Asked(r) = whole % OVERFLOW /\ RoomFor(r) = Structures.queue + bytes
    BY <1>3 DEF K!Asked, RoomFor, K!Queues
  <2>7. whole = Structures.queue + bytes
    BY <1>1, <1>2
  <2> QED BY <1>2, <2>5, <2>6, <2>7
<1>4. CASE r.kind = "stream"
  <2>1. r.size < longer % OVERFLOW
    BY <1>4 DEF K!Allowed, K!StreamFits
  <2>2. longer >= OVERFLOW => longer % OVERFLOW = longer - OVERFLOW
    BY <1>1, <1>2, Remainder
  <2>3. longer < OVERFLOW
    BY <1>1, <1>2, <2>1, <2>2
  <2>4. longer % OVERFLOW = longer
    BY <1>1, <1>2, <2>3, Remainder
  <2>5. K!Asked(r) = longer % OVERFLOW /\ RoomFor(r) = Structures.stream + r.size + 1
    BY <1>4 DEF K!Asked, RoomFor, K!Queues
  <2>6. longer = Structures.stream + r.size + 1
    BY <1>1
  <2> QED BY <1>2, <2>4, <2>5, <2>6
<1>5. CASE r.kind \in {"mutex", "semaphore"}
  <2>1. K!Asked(r) = whole % OVERFLOW /\ ~Stored(r)
    BY <1>5 DEF K!Asked, K!Queues, Stored
  <2> QED BY <1>1, <1>2, <2>1, Remainder
<1>6. CASE r.kind \in {"timer", "group"}
  BY <1>1, <1>6 DEF K!Asked, K!Queues, Stored
<1> QED BY <1>1, <1>3, <1>4, <1>5, <1>6 DEF K!Kinds, K!Queues

-----------------------------------------------------------------------------
(* The memory, by what a step does to it.  Only the call of one actor goes *)
(* on in a step.                                                           *)
Only(a) == work' \in [K!Actors -> Call] /\ \A x \in K!Actors : x # a => work'[x] = work[x]

(* Nothing happens to it.                                                  *)
LEMMA MemorySame ==
  ASSUME MemoryOK, NEW a \in K!Actors, Only(a), work'[a].parts = work[a].parts,
         taken' = taken, misfreed' = misfreed, objects' = objects,
         ids \in Nat, ids' \in Nat, ids <= ids', taken \subseteq [id : Nat, bytes : Nat]
  PROVE  MemoryOK'
<1>1. \A x \in K!Actors : \A b : Holds(x, b)' <=> Holds(x, b)
  BY DEF Holds, Only
<1>2. Taken' = Taken /\ \A h \in taken : h.id \in Nat
  BY DEF Taken
<1> HIDE DEF Holds, Owns, Taken
<1>3. ~misfreed' /\ \A h \in taken' : h.id > 0 /\ h.id <= ids'
  BY <1>2 DEF MemoryOK
<1> QED BY <1>1, <1>2, <1>3 DEF MemoryOK

(* A block is taken for a call.                                            *)
LEMMA MemoryTaken ==
  ASSUME MemoryOK, NEW a \in K!Actors, Only(a),
         \A b : IsIn(b, work'[a].parts) <=> IsIn(b, work[a].parts) \/ b = ids + 1,
         NEW block, block.id = ids + 1, taken' = taken \cup {block},
         misfreed' = misfreed, objects' = objects,
         ids \in Nat, ids' = ids + 1, taken \subseteq [id : Nat, bytes : Nat]
  PROVE  MemoryOK'
<1>1. \A x \in K!Actors : \A b : Holds(x, b)' <=> Holds(x, b) \/ (x = a /\ b = ids + 1)
  BY DEF Holds, Only
<1>2. (\A b : b \in Taken' <=> b \in Taken \/ b = ids + 1) /\ \A h \in taken : h.id \in Nat
  BY DEF Taken
<1>3. \A b \in Taken : b \in Nat /\ b > 0 /\ b <= ids
  BY <1>2 DEF Taken, MemoryOK
<1>4. ids + 1 \notin Taken /\ ids + 1 # K!CallersMemory
  BY <1>3 DEF K!CallersMemory
<1>5. ~misfreed' /\ \A h \in taken' : h.id > 0 /\ h.id <= ids'
  BY <1>2 DEF MemoryOK
<1>6. \A g, h \in taken' : g.id = h.id => g = h
  BY <1>4 DEF MemoryOK, Taken
<1> HIDE DEF Holds, Owns, Taken
<1>7. \A x \in K!Actors : ~Holds(x, ids + 1)
  BY <1>4 DEF MemoryOK
<1>8. \A o \in objects : ~Owns(o, ids + 1)
  BY <1>4 DEF MemoryOK
<1>9. /\ \A x \in K!Actors : \A b : Holds(x, b)' => b \in Taken'
      /\ \A o \in objects' : \A b : Owns(o, b) => b = K!CallersMemory \/ b \in Taken'
  BY <1>1, <1>2 DEF MemoryOK
<1>10. \A b \in Taken' : (\E x \in K!Actors : Holds(x, b)') \/ \E o \in objects' : Owns(o, b)
  BY <1>1, <1>2 DEF MemoryOK
<1>11. \A x, c \in K!Actors : \A b : Holds(x, b)' /\ Holds(c, b)' => x = c
  BY <1>1, <1>7 DEF MemoryOK
<1>12. /\ \A o, p \in objects' : \A b \in Taken' : Owns(o, b) /\ Owns(p, b) => o = p
       /\ \A x \in K!Actors, o \in objects' : \A b \in Taken' : ~(Holds(x, b)' /\ Owns(o, b))
  BY <1>1, <1>2, <1>7, <1>8 DEF MemoryOK
<1> QED BY <1>5, <1>6, <1>9, <1>10, <1>11, <1>12 DEF MemoryOK

(* A call gives its blocks to the object it makes.                         *)
LEMMA MemoryGiven ==
  ASSUME MemoryOK, NEW a \in K!Actors, Only(a), \A b : ~IsIn(b, work'[a].parts),
         NEW n, objects' = objects \cup {n}, n \notin objects,
         \A b : b # K!CallersMemory => (Owns(n, b) <=> IsIn(b, work[a].parts)),
         taken' = taken, misfreed' = misfreed,
         ids \in Nat, ids' = ids + 1, taken \subseteq [id : Nat, bytes : Nat]
  PROVE  MemoryOK'
<1>1. \A x \in K!Actors : \A b : Holds(x, b)' <=> Holds(x, b) /\ x # a
  BY DEF Holds, Only
<1>2. \A b : b # K!CallersMemory => (Owns(n, b) <=> Holds(a, b))
  BY DEF Holds
<1>3. Taken' = Taken /\ \A h \in taken : h.id \in Nat
  BY DEF Taken
<1>4. \A b \in Taken : b # K!CallersMemory
  BY <1>3 DEF Taken, MemoryOK, K!CallersMemory
<1> HIDE DEF Holds, Owns, Taken
<1>5. ~misfreed' /\ \A h \in taken' : h.id > 0 /\ h.id <= ids'
  BY <1>3 DEF MemoryOK
<1>6. /\ \A g, h \in taken' : g.id = h.id => g = h
      /\ \A x \in K!Actors : \A b : Holds(x, b)' => b \in Taken'
      /\ \A o \in objects' : \A b : Owns(o, b) => b = K!CallersMemory \/ b \in Taken'
  BY <1>1, <1>2, <1>3 DEF MemoryOK
<1>7. \A b \in Taken' : (\E x \in K!Actors : Holds(x, b)') \/ \E o \in objects' : Owns(o, b)
  BY <1>1, <1>2, <1>3, <1>4 DEF MemoryOK
<1>8. /\ \A x, c \in K!Actors : \A b : Holds(x, b)' /\ Holds(c, b)' => x = c
      /\ \A o, p \in objects' : \A b \in Taken' : Owns(o, b) /\ Owns(p, b) => o = p
      /\ \A x \in K!Actors, o \in objects' : \A b \in Taken' : ~(Holds(x, b)' /\ Owns(o, b))
  BY <1>1, <1>2, <1>3, <1>4 DEF MemoryOK
<1> QED BY <1>5, <1>6, <1>7, <1>8 DEF MemoryOK

(* The queue of the timers is made with a block of its own.                *)
LEMMA MemoryQueue ==
  ASSUME MemoryOK, NEW a \in K!Actors, Only(a), work'[a].parts = work[a].parts,
         NEW n, objects' = objects \cup {n}, n.parts = <<ids + 1>>, 
         NEW block, block.id = ids + 1, taken' = taken \cup {block}, misfreed' = misfreed,
         ids \in Nat, ids' = ids + 1, taken \subseteq [id : Nat, bytes : Nat]
  PROVE  MemoryOK'
<1>1. \A x \in K!Actors : \A b : Holds(x, b)' <=> Holds(x, b)
  BY DEF Holds, Only
<1>2. \A b : Owns(n, b) <=> b = ids + 1
  BY One DEF Owns
<1>3. (\A b : b \in Taken' <=> b \in Taken \/ b = ids + 1) /\ \A h \in taken : h.id \in Nat
  BY DEF Taken
<1>4. \A b \in Taken : b \in Nat /\ b > 0 /\ b <= ids
  BY <1>3 DEF Taken, MemoryOK
<1>5. ids + 1 \notin Taken /\ ids + 1 # K!CallersMemory
  BY <1>4 DEF K!CallersMemory
<1>6. ~misfreed' /\ \A h \in taken' : h.id > 0 /\ h.id <= ids'
  BY <1>3 DEF MemoryOK
<1>7. \A g, h \in taken' : g.id = h.id => g = h
  BY <1>5 DEF MemoryOK, Taken
<1> HIDE DEF Holds, Owns, Taken
<1>8. /\ \A x \in K!Actors : ~Holds(x, ids + 1)
      /\ \A o \in objects : ~Owns(o, ids + 1)
  BY <1>5 DEF MemoryOK
<1>9. /\ \A x \in K!Actors : \A b : Holds(x, b)' => b \in Taken'
      /\ \A o \in objects' : \A b : Owns(o, b) => b = K!CallersMemory \/ b \in Taken'
  BY <1>1, <1>2, <1>3 DEF MemoryOK
<1>10. \A b \in Taken' : (\E x \in K!Actors : Holds(x, b)') \/ \E o \in objects' : Owns(o, b)
  BY <1>1, <1>2, <1>3 DEF MemoryOK
<1>11. /\ \A x, c \in K!Actors : \A b : Holds(x, b)' /\ Holds(c, b)' => x = c
       /\ \A o, p \in objects' : \A b \in Taken' : Owns(o, b) /\ Owns(p, b) => o = p
       /\ \A x \in K!Actors, o \in objects' : \A b \in Taken' : ~(Holds(x, b)' /\ Owns(o, b))
  BY <1>1, <1>2, <1>3, <1>5, <1>8 DEF MemoryOK
<1> QED BY <1>6, <1>7, <1>9, <1>10, <1>11 DEF MemoryOK

(* What an object has is left to the call that deletes it.                 *)
LEMMA MemoryLeft ==
  ASSUME MemoryOK, NEW a \in K!Actors, Only(a), \A b : ~IsIn(b, work[a].parts),
         NEW o \in objects, objects' = objects \ {o},
         \A b : IsIn(b, work'[a].parts) <=> b # K!CallersMemory /\ Owns(o, b),
         taken' = taken, misfreed' = misfreed, ids' = ids, taken \subseteq [id : Nat, bytes : Nat]
  PROVE  MemoryOK'
<1>1. \A x \in K!Actors : \A b : Holds(x, b)' <=> IF x = a THEN b # K!CallersMemory /\ Owns(o, b) ELSE Holds(x, b)
  BY DEF Holds, Only
<1>2. \A b : ~Holds(a, b)
  BY DEF Holds
<1>3. Taken' = Taken /\ \A h \in taken : h.id \in Nat
  BY DEF Taken
<1>4. \A b \in Taken : b # K!CallersMemory
  BY <1>3 DEF Taken, MemoryOK, K!CallersMemory
<1> HIDE DEF Holds, Owns, Taken
<1>5. ~misfreed' /\ \A h \in taken' : h.id > 0 /\ h.id <= ids'
  BY <1>3 DEF MemoryOK
<1>6. /\ \A g, h \in taken' : g.id = h.id => g = h
      /\ \A x \in K!Actors : \A b : Holds(x, b)' => b \in Taken'
      /\ \A p \in objects' : \A b : Owns(p, b) => b = K!CallersMemory \/ b \in Taken'
  BY <1>1, <1>3 DEF MemoryOK
<1>7. \A b \in Taken' : (\E x \in K!Actors : Holds(x, b)') \/ \E p \in objects' : Owns(p, b)
  BY <1>1, <1>2, <1>3, <1>4 DEF MemoryOK
<1>8. /\ \A x, c \in K!Actors : \A b : Holds(x, b)' /\ Holds(c, b)' => x = c
      /\ \A q, p \in objects' : \A b \in Taken' : Owns(q, b) /\ Owns(p, b) => q = p
      /\ \A x \in K!Actors, p \in objects' : \A b \in Taken' : ~(Holds(x, b)' /\ Owns(p, b))
  BY <1>1, <1>2, <1>3, <1>4 DEF MemoryOK
<1> QED BY <1>5, <1>6, <1>7, <1>8 DEF MemoryOK

(* A call frees a block of its own.                                        *)
LEMMA MemoryFreed ==
  ASSUME MemoryOK, NEW a \in K!Actors, Only(a), NEW f, IsIn(f, work[a].parts),
         \A b : IsIn(b, work'[a].parts) <=> IsIn(b, work[a].parts) /\ b # f,
         taken' = {h \in taken : h.id # f}, ~misfreed', objects' = objects, ids' = ids
  PROVE  MemoryOK'
<1>1. \A x \in K!Actors : \A b : Holds(x, b)' <=> Holds(x, b) /\ ~(x = a /\ b = f)
  BY DEF Holds, Only
<1>2. \A b : b \in Taken' <=> b \in Taken /\ b # f
  BY DEF Taken
<1>3. Holds(a, f)
  BY DEF Holds
<1>4. /\ \A h \in taken' : h.id > 0 /\ h.id <= ids'
      /\ \A g, h \in taken' : g.id = h.id => g = h
  BY DEF MemoryOK
<1> HIDE DEF Holds, Owns, Taken
<1>5. f \in Taken /\ (\A x \in K!Actors : Holds(x, f) => x = a) /\ \A o \in objects : ~Owns(o, f)
  BY <1>3 DEF MemoryOK
<1>6. /\ \A x \in K!Actors : \A b : Holds(x, b)' => b \in Taken'
      /\ \A o \in objects' : \A b : Owns(o, b) => b = K!CallersMemory \/ b \in Taken'
  BY <1>1, <1>2, <1>5 DEF MemoryOK
<1>7. \A b \in Taken' : (\E x \in K!Actors : Holds(x, b)') \/ \E o \in objects' : Owns(o, b)
  BY <1>1, <1>2 DEF MemoryOK
<1>8. /\ \A x, c \in K!Actors : \A b : Holds(x, b)' /\ Holds(c, b)' => x = c
      /\ \A q, p \in objects' : \A b \in Taken' : Owns(q, b) /\ Owns(p, b) => q = p
      /\ \A x \in K!Actors, p \in objects' : \A b \in Taken' : ~(Holds(x, b)' /\ Owns(p, b))
  BY <1>1, <1>2 DEF MemoryOK
<1> QED BY <1>4, <1>6, <1>7, <1>8 DEF MemoryOK

-----------------------------------------------------------------------------
(* The room of what is stored, likewise.                                   *)
LEMMA RoomsSame ==
  ASSUME RoomsOK, NEW a \in K!Actors, Only(a), work'[a].pc # "make" \/ ~Stored(work'[a].asks),
         taken' \subseteq taken, objects' \subseteq objects
  PROVE  RoomsOK'
BY DEF RoomsOK, Only

(* What a call about to make an object holds, and what an object has, was  *)
(* taken before.                                                           *)
LEMMA OldBlocks ==
  ASSUME K!Parameters, KTyped, ShapesOK, MemoryOK
  PROVE  /\ \A x \in K!Actors : work[x].pc = "make" /\ Stored(work[x].asks) =>
              work[x].parts[1] \in Nat /\ work[x].parts[1] <= ids
         /\ \A o \in objects : Stored(o.asks) => o.parts[1] \in Nat /\ o.parts[1] <= ids
<1>1. ids \in Nat /\ \A b \in Taken : b \in Nat /\ b > 0 /\ b <= ids
  BY DEF KTyped, Taken, MemoryOK
<1>2. ASSUME NEW x \in K!Actors, work[x].pc = "make", Stored(work[x].asks)
      PROVE  work[x].parts[1] \in Nat /\ work[x].parts[1] <= ids
  <2>1. Has(work[x].asks, work[x].parts) /\ work[x].asks \in Wishes
    BY <1>2 DEF ShapesOK, CallOK, Making
  <2>2. PICK y \in Nat \ {0} : work[x].parts = <<y>>
    BY <1>2, <2>1, HasFacts
  <2>3. work[x].parts[1] = y /\ IsIn(y, work[x].parts)
    BY <2>2, One
  <2>4. y \in Taken
    BY <2>3 DEF MemoryOK, Holds
  <2> QED BY <1>1, <2>3, <2>4
<1>3. ASSUME NEW o \in objects, Stored(o.asks) PROVE o.parts[1] \in Nat /\ o.parts[1] <= ids
  <2>1. o \in Thing /\ ObjectOK(o)
    BY DEF KTyped, ShapesOK
  <2>2. PICK y \in Nat \ {0} : o.parts = <<y>>
    BY <1>3, <2>1, ObjectFacts
  <2>3. o.parts[1] = y /\ IsIn(y, o.parts)
    BY <2>2, One
  <2>4. y \in Taken
    BY <2>3 DEF MemoryOK, Owns, K!CallersMemory
  <2> QED BY <1>1, <2>3, <2>4
<1> QED BY <1>2, <1>3

(* A block is taken, for a call or a new object, with the room it needs.   *)
LEMMA RoomsTaken ==
  ASSUME K!Parameters, KTyped, ShapesOK, MemoryOK, RoomsOK, NEW a \in K!Actors, Only(a),
         NEW block, block.id = ids + 1, taken' = taken \cup {block},
         work'[a].pc = "make" /\ Stored(work'[a].asks) =>
           work'[a].parts = <<ids + 1>> /\ block.bytes = RoomFor(work'[a].asks),
         NEW N, objects' = objects \cup N,
         \A n \in N : n.parts = <<ids + 1>> /\ block.bytes = RoomFor(n.asks)
  PROVE  RoomsOK'
<1>1. /\ ids \in Nat /\ ids + 1 \in Nat /\ <<ids + 1>>[1] = ids + 1
      /\ \A h \in taken : h.id \in Nat /\ h.id <= ids
  BY DEF KTyped, MemoryOK
<1>2. /\ \A x \in K!Actors : work[x].pc = "make" /\ Stored(work[x].asks) =>
           work[x].parts[1] \in Nat /\ work[x].parts[1] <= ids
      /\ \A o \in objects : Stored(o.asks) => o.parts[1] \in Nat /\ o.parts[1] <= ids
  BY OldBlocks
<1>3. ASSUME NEW x \in K!Actors, work'[x].pc = "make", Stored(work'[x].asks), NEW h \in taken',
             h.id = work'[x].parts[1]
      PROVE  h.bytes = RoomFor(work'[x].asks)
  <2>1. CASE x = a
    <3>1. work'[x].parts[1] = ids + 1 /\ block.bytes = RoomFor(work'[x].asks)
      BY <1>1, <1>3, <2>1
    <3>2. h = block
      BY <1>1, <1>3, <3>1
    <3> QED BY <3>1, <3>2
  <2>2. CASE x # a
    <3>1. work'[x] = work[x]
      BY <2>2 DEF Only
    <3>2. h \in taken
      BY <1>1, <1>2, <1>3, <3>1
    <3> QED BY <1>3, <3>1, <3>2 DEF RoomsOK
  <2> QED BY <2>1, <2>2
<1>4. ASSUME NEW o \in objects', Stored(o.asks), NEW h \in taken', h.id = o.parts[1]
      PROVE  h.bytes = RoomFor(o.asks)
  <2>1. CASE o \in N
    <3>1. o.parts[1] = ids + 1 /\ block.bytes = RoomFor(o.asks)
      BY <1>1, <2>1
    <3>2. h = block
      BY <1>1, <1>4, <3>1
    <3> QED BY <3>1, <3>2
  <2>2. CASE o \in objects
    <3>1. h \in taken
      BY <1>1, <1>2, <1>4, <2>2
    <3> QED BY <1>4, <2>2, <3>1 DEF RoomsOK
  <2> QED BY <2>1, <2>2
<1> QED BY <1>3, <1>4 DEF RoomsOK

(* A new object has the block of its call.                                 *)
LEMMA RoomsGiven ==
  ASSUME RoomsOK, NEW a \in K!Actors, Only(a), work'[a].pc # "make", taken' = taken,
         NEW n, objects' = objects \cup {n}, n.asks = work[a].asks,
         Stored(n.asks) => n.parts = work[a].parts /\ work[a].pc = "make"
  PROVE  RoomsOK'
<1>1. \A x \in K!Actors : x # a => work'[x] = work[x]
  BY DEF Only
<1>2. \A o \in objects' : o \in objects \/ o = n
  OBVIOUS
<1> QED BY <1>1, <1>2 DEF RoomsOK

-----------------------------------------------------------------------------
(* The start.                                                              *)
LEMMA WhoWorks ==
  ASSUME StartOK, NEW a \in K!Actors, K!Works(a), work[a].pc # "none"
  PROVE  /\ a = "main" => phase \in {"main", "idle_task", "timer_task"}
         /\ a # "main" => phase = "running"
<1>1. K!Nothing.pc = "none"
  BY DEF K!Nothing
<1> QED BY <1>1 DEF K!Works, StartOK

(* A step of a call that leaves start, tasks and objects alone.            *)
LEMMA StartSame ==
  ASSUME StartOK, NEW a \in K!Actors, Only(a), K!Works(a),
         phase \notin {"main", "running"} => work[a].pc # "none" /\ work'[a].asks = work[a].asks,
         phase' = phase, current' = current, tasksMade' = tasksMade, dying' = dying, objects' = objects
  PROVE  StartOK'
<1>1. K!Tasks' = K!Tasks /\ K!HasTimerQueue' = K!HasTimerQueue /\ \A r : Made1(r)' <=> Made1(r)
  BY DEF K!Tasks, K!HasTimerQueue, Made1
<1>2. a = "main" => phase # "running"
  BY DEF K!Works
<1>3. a # "main" => phase = "running"
  BY DEF K!Works
<1>4. phase = "timer_queue" => work["main"].pc = "none" /\ a = "main"
  <2>1. K!Nothing.pc = "none"
    BY DEF K!Nothing
  <2>2. phase = "timer_queue" => work["main"] = K!Nothing
    BY DEF StartOK
  <2> QED BY <1>3, <2>1, <2>2
<1>5. "main" \in K!Actors /\ \A x \in K!Actors : x # a => work'[x] = work[x]
  BY DEF Only, K!Actors
<1>6. /\ \A x \in K!Actors \ {"main"} : phase' # "running" => work'[x] = K!Nothing
      /\ phase' \in {"timer_queue", "running", "halted"} => work'["main"] = K!Nothing
      /\ phase' = "idle_task" => work'["main"].asks = K!IdleTask
      /\ phase' = "timer_task" => work'["main"].asks = K!TimerTask
  <2>1. \A x \in K!Actors \ {"main"} : phase' # "running" => work'[x] = K!Nothing
    BY <1>3, <1>5 DEF StartOK
  <2>2. phase' \in {"timer_queue", "running", "halted"} => work'["main"] = K!Nothing
    <3>1. CASE a = "main"
      BY <1>2, <1>4, <3>1 DEF StartOK, K!Works
    <3>2. CASE a # "main"
      BY <1>3, <1>5, <3>2 DEF StartOK
    <3> QED BY <3>1, <3>2
  <2>3. /\ phase' = "idle_task" => work'["main"].asks = K!IdleTask
        /\ phase' = "timer_task" => work'["main"].asks = K!TimerTask
    BY <1>3, <1>5 DEF StartOK
  <2> QED BY <2>1, <2>2, <2>3
<1> HIDE DEF K!Tasks, K!HasTimerQueue, Made1
<1> QED BY <1>1, <1>6 DEF StartOK

(* A call fails: in the start, the scheduler does not come up.             *)
LEMMA StartFailed ==
  ASSUME StartOK, NEW a \in K!Actors, Only(a), K!Works(a), work[a].pc # "none",
         work'[a] = K!Nothing,
         phase' = (IF phase \in {"main", "running"} THEN phase ELSE "halted"),
         current' = current, tasksMade' = tasksMade, dying' = dying, objects' = objects
  PROVE  StartOK'
<1>1. CASE phase \in {"main", "running"}
  BY <1>1, StartSame
<1>2. CASE phase \notin {"main", "running"}
  <2>1. K!Tasks' = K!Tasks
    BY DEF K!Tasks
  <2>2. phase' = "halted" /\ a = "main"
    BY <1>2 DEF K!Works
  <2>3. \A x \in K!Actors : work'[x] = K!Nothing
    BY <1>2, <2>2 DEF StartOK, Only
  <2>4. phase # "running"
    BY <1>2
  <2> HIDE DEF K!Tasks
  <2> QED BY <2>1, <2>2, <2>3, <2>4 DEF StartOK, Phases, K!Actors
<1> QED BY <1>1, <1>2

(* A new object that is not a task.                                        *)
LEMMA StartGiven ==
  ASSUME K!Parameters, StartOK, NEW a \in K!Actors, Only(a), K!Works(a), work[a].pc # "none",
         NEW n, objects' = objects \cup {n}, n.asks = work[a].asks, n.asks.kind # "task", n.by = a,
         phase' = phase, current' = current, tasksMade' = tasksMade, dying' = dying
  PROVE  StartOK'
<1>1. K!Tasks' = K!Tasks /\ (K!HasTimerQueue => K!HasTimerQueue') /\ \A r : Made1(r) => Made1(r)'
  BY DEF K!Tasks, K!HasTimerQueue, Made1
<1>2. n.by # "timers"
  BY DEF K!Parameters, K!Actors
<1>3. K!IdleTask.kind = "task" /\ K!TimerTask.kind = "task"
  BY DEF K!IdleTask, K!TimerTask
<1>4. (a = "main" => phase = "main") /\ (a # "main" => phase = "running")
  BY <1>3, WhoWorks DEF StartOK
<1>5. "main" \in K!Actors /\ \A x \in K!Actors : x # a => work'[x] = work[x]
  BY DEF Only, K!Actors
<1>6. /\ \A o \in objects' : o.by = "timers" => o.asks = K!TimerQueue
      /\ \A o, p \in objects' : o.by = "timers" /\ p.by = "timers" => o = p
  BY <1>2 DEF StartOK
<1>7. /\ \A x \in K!Actors \ {"main"} : phase' # "running" => work'[x] = K!Nothing
      /\ phase' = "running" => work'["main"] = K!Nothing
      /\ phase' \in {"main", "running"}
  BY <1>4, <1>5 DEF StartOK
<1> HIDE DEF K!Tasks, K!HasTimerQueue, Made1
<1>8. phase = "main" => dying' = <<>>
  BY DEF StartOK
<1>9. phase' = "running" => Made1(K!IdleTask)' /\ Made1(K!TimerTask)' /\ K!HasTimerQueue'
  BY <1>1 DEF StartOK
<1>10. /\ phase' # "running" /\ K!Tasks' = {} => current' = None
       /\ phase' # "running" /\ K!Tasks' # {} =>
            \E o \in K!Tasks' : o.id = current' /\ \A x \in K!Tasks' :
              x.asks.count < o.asks.count \/ (x.asks.count = o.asks.count /\ x.id <= o.id)
       /\ tasksMade' = Cardinality(K!Tasks')
  BY <1>1 DEF StartOK
<1> QED BY <1>6, <1>7, <1>8, <1>9, <1>10 DEF StartOK, Phases

(* One object less, which is none of those the start made.                 *)
LEMMA StartDeleted ==
  ASSUME StartOK, NEW a \in K!Actors, Only(a), a # "main", phase = "running", phase' = "running",
         NEW o \in objects, objects' = objects \ {o}, IsFiniteSet(objects),
         o.asks \notin {K!IdleTask, K!TimerTask, K!TimerQueue},
         tasksMade' = IF o \in K!Tasks THEN tasksMade - 1 ELSE tasksMade
  PROVE  StartOK'
<1>1. K!Tasks' = K!Tasks \ {o}
  BY DEF K!Tasks
<1>2. IsFiniteSet(K!Tasks)
  BY FS_Subset DEF K!Tasks
<1>3. Cardinality(K!Tasks \ {o}) = IF o \in K!Tasks THEN Cardinality(K!Tasks) - 1 ELSE Cardinality(K!Tasks)
  BY <1>2, FS_RemoveElement
<1>4. \A r \in {K!IdleTask, K!TimerTask} : Made1(r)' <=> Made1(r)
  BY <1>1 DEF Made1
<1>5. K!HasTimerQueue => K!HasTimerQueue'
  BY DEF K!HasTimerQueue, StartOK
<1>6. "main" \in K!Actors /\ \A x \in K!Actors : x # a => work'[x] = work[x]
  BY DEF Only, K!Actors
<1> HIDE DEF K!Tasks, K!HasTimerQueue, Made1
<1> QED BY <1>1, <1>3, <1>4, <1>5, <1>6 DEF StartOK, Phases

(* The queue of the timers, and the phase that follows when the start made *)
(* it.                                                                     *)
LEMMA StartQueue ==
  ASSUME StartOK, ~K!HasTimerQueue, NEW n, objects' = objects \cup {n}, n.by = "timers",
         n.asks = K!TimerQueue,
         NEW a \in K!Actors, Only(a), K!Works(a),
         \/ phase' = phase /\ phase = "main" /\ a = "main"
         \/ phase = "timer_queue" /\ phase' = "timer_task" /\ a = "main" /\ work'[a].asks = K!TimerTask,
         current' = current, tasksMade' = tasksMade, dying' = dying
  PROVE  StartOK'
<1>1. K!TimerQueue.kind # "task"
  BY DEF K!TimerQueue
<1>2. K!Tasks' = K!Tasks /\ K!HasTimerQueue' /\ \A r : Made1(r) => Made1(r)'
  BY <1>1 DEF K!Tasks, K!HasTimerQueue, Made1
<1>3. \A o \in objects : o.by # "timers"
  BY DEF K!HasTimerQueue
<1>4. /\ \A o \in objects' : o.by = "timers" => o.asks = K!TimerQueue
      /\ \A o, p \in objects' : o.by = "timers" /\ p.by = "timers" => o = p
  BY <1>3
<1>5. "main" \in K!Actors /\ \A x \in K!Actors : x # a => work'[x] = work[x]
  BY DEF Only, K!Actors
<1> HIDE DEF K!Tasks, K!HasTimerQueue, Made1
<1>6. /\ phase' # "running" /\ K!Tasks' = {} => current' = None
      /\ phase' # "running" /\ K!Tasks' # {} =>
           \E o \in K!Tasks' : o.id = current' /\ \A x \in K!Tasks' :
             x.asks.count < o.asks.count \/ (x.asks.count = o.asks.count /\ x.id <= o.id)
      /\ tasksMade' = Cardinality(K!Tasks') /\ dying' = <<>>
  BY <1>2 DEF StartOK
<1>7. /\ phase' = "timer_task" => Made1(K!IdleTask)' /\ K!HasTimerQueue'
      /\ phase' \in {"main", "timer_task"}
  BY <1>2 DEF StartOK
<1>8. /\ \A x \in K!Actors \ {"main"} : work'[x] = K!Nothing
      /\ phase' = "timer_task" => work'["main"].asks = K!TimerTask
  BY <1>5 DEF StartOK
<1> QED BY <1>4, <1>6, <1>7, <1>8 DEF StartOK, Phases

-----------------------------------------------------------------------------
(* Who deletes what.                                                       *)
LEMMA ClaimsNone ==
  ASSUME ClaimsOK, KTyped, NEW a \in K!Actors, Only(a), work'[a].object = None,
         work'[a].pc \notin Later,
         NEW N, objects' = objects \cup N, \A n \in N : n.id \in Nat /\ n.id > ids,
         dying' = dying, ids' \in Nat, ids' >= ids, None \notin Nat
  PROVE  ClaimsOK'
<1>1. \A x \in K!Actors : x # a => work'[x] = work[x]
  BY DEF Only
<1>2. K!Tasks \subseteq K!Tasks'
  BY DEF K!Tasks
<1>3. ids \in Nat /\ \A x \in K!Actors : work[x].object \in Nat \cup {None}
  BY DEF KTyped, Call
<1> HIDE DEF K!Tasks
<1>4. /\ \A x, c \in K!Actors : work'[x].object # None /\ work'[x].object = work'[c].object => x = c
      /\ \A x \in K!Actors : work'[x].object # None => work'[x].object <= ids'
  BY <1>1, <1>3 DEF ClaimsOK
<1>5. \A x \in K!Actors : work'[x].pc \in Naming =>
        \E o \in objects' : o.id = work'[x].object /\ o.asks.kind \in K!Queues
  BY <1>1 DEF ClaimsOK, Later
<1>6. ASSUME NEW x \in K!Actors, work'[x].pc \in Unnaming \cup {"free"}, NEW o \in objects'
      PROVE  o.id # work'[x].object
  <2>1. work'[x] = work[x]
    BY <1>1, <1>6 DEF Later
  <2>2. work[x].object # None => work[x].object \in Nat /\ work[x].object <= ids
    BY <1>3 DEF ClaimsOK
  <2>3. o \in N => o.id \in Nat /\ o.id > ids
    OBVIOUS
  <2>4. o \in objects => o.id # work[x].object
    BY <1>6, <2>1 DEF ClaimsOK
  <2> QED BY <1>3, <2>1, <2>2, <2>3, <2>4
<1>7. ASSUME NEW i \in DOMAIN dying'
      PROVE  /\ dying'[i] \in K!Tasks' /\ dying'[i].asks \notin {K!IdleTask, K!TimerTask, K!TimerQueue}
             /\ \A j \in DOMAIN dying' : dying'[i].id = dying'[j].id => i = j
             /\ \A x \in K!Actors : work'[x].object # dying'[i].id
  <2>1. dying[i] \in K!Tasks /\ \A x \in K!Actors : work[x].object # dying[i].id
    BY DEF ClaimsOK
  <2>2. dying[i].id \in Nat
    BY <2>1 DEF K!Tasks, KTyped, Thing
  <2> QED BY <1>1, <1>2, <2>1, <2>2 DEF ClaimsOK
<1> QED BY <1>4, <1>5, <1>6, <1>7 DEF ClaimsOK

(* A call goes on with the object it has in hand.                          *)
LEMMA ClaimsOn ==
  ASSUME ClaimsOK, NEW a \in K!Actors, Only(a), work'[a].object = work[a].object, objects' = objects,
         work'[a].pc \in Naming => work[a].pc \in Naming,
         work'[a].pc \in Unnaming \cup {"free"} => work[a].pc \in Unnaming \cup {"free"},
         dying' = dying, ids' = ids
  PROVE  ClaimsOK'
<1>1. \A x \in K!Actors : /\ work'[x].object = work[x].object
                          /\ work'[x].pc \in Naming => work[x].pc \in Naming
                          /\ work'[x].pc \in Unnaming \cup {"free"} => work[x].pc \in Unnaming \cup {"free"}
  BY DEF Only
<1>2. K!Tasks' = K!Tasks
  BY DEF K!Tasks
<1> HIDE DEF K!Tasks, Naming, Unnaming
<1> QED BY <1>1, <1>2 DEF ClaimsOK

(* A call has made a queue and goes on to name it.                         *)
LEMMA ClaimsMade ==
  ASSUME ClaimsOK, KTyped, ShapesOK, NEW a \in K!Actors, Only(a), work'[a].object = ids + 1,
         work'[a].pc = "search",
         NEW n, objects' = objects \cup {n}, n.id = ids + 1, n.asks.kind \in K!Queues,
         dying' = dying, ids' = ids + 1, None \notin Nat
  PROVE  ClaimsOK'
<1>1. \A x \in K!Actors : x # a => work'[x] = work[x]
  BY DEF Only
<1>2. K!Tasks \subseteq K!Tasks'
  BY DEF K!Tasks
<1>3. ids \in Nat /\ \A x \in K!Actors : work[x].object # None => work[x].object \in Nat /\ work[x].object <= ids
  BY DEF KTyped, Call, ClaimsOK
<1>4. \A o \in objects : o.id \in Nat /\ o.id <= ids
  BY DEF KTyped, Thing, ShapesOK, ObjectOK
<1>5. /\ \A x, c \in K!Actors : work'[x].object # None /\ work'[x].object = work'[c].object => x = c
      /\ \A x \in K!Actors : work'[x].object # None => work'[x].object <= ids'
  BY <1>1, <1>3 DEF ClaimsOK
<1>6. \A x \in K!Actors : work'[x].pc \in Naming =>
        \E o \in objects' : o.id = work'[x].object /\ o.asks.kind \in K!Queues
  BY <1>1 DEF ClaimsOK
<1>7. ASSUME NEW x \in K!Actors, work'[x].pc \in Unnaming \cup {"free"}, NEW o \in objects'
      PROVE  o.id # work'[x].object
  <2>1. work'[x] = work[x]
    BY <1>1, <1>7 DEF Unnaming
  <2>2. o \in objects => o.id # work[x].object
    BY <1>7, <2>1 DEF ClaimsOK
  <2>3. work[x].object # ids + 1
    BY <1>3
  <2> QED BY <2>1, <2>2, <2>3
<1>8. ASSUME NEW i \in DOMAIN dying'
      PROVE  /\ dying'[i] \in K!Tasks' /\ dying'[i].asks \notin {K!IdleTask, K!TimerTask, K!TimerQueue}
             /\ \A j \in DOMAIN dying' : dying'[i].id = dying'[j].id => i = j
             /\ \A x \in K!Actors : work'[x].object # dying'[i].id
  <2>1. dying[i] \in K!Tasks /\ \A x \in K!Actors : work[x].object # dying[i].id
    BY DEF ClaimsOK
  <2>2. dying[i].id \in Nat /\ dying[i].id <= ids
    BY <1>4, <2>1 DEF K!Tasks
  <2>3. ids + 1 # dying[i].id
    BY <1>3, <2>2
  <2> QED BY <1>1, <1>2, <2>1, <2>3 DEF ClaimsOK
<1> QED BY <1>5, <1>6, <1>7, <1>8 DEF ClaimsOK

(* A call takes an object that nobody else has in hand.                    *)
LEMMA ClaimsTaken ==
  ASSUME ClaimsOK, KTyped, ShapesOK, NEW a \in K!Actors, Only(a),
         NEW o \in objects, objects' = objects \ {o}, K!Unclaimed(o),
         work'[a].object = o.id, work'[a].pc \in {"unregister", "free"},
         \A i \in DOMAIN dying' :
           /\ dying'[i] \in K!Tasks /\ dying'[i].asks \notin {K!IdleTask, K!TimerTask, K!TimerQueue}
           /\ \A j \in DOMAIN dying' : dying'[i].id = dying'[j].id => i = j
           /\ \A x \in K!Actors : work[x].object # dying'[i].id
           /\ dying'[i].id # o.id,
         ids' = ids
  PROVE  ClaimsOK'
<1>1. \A x \in K!Actors : x # a => work'[x] = work[x]
  BY DEF Only
<1>2. \A p \in K!Tasks : p # o => p \in K!Tasks'
  BY DEF K!Tasks
<1>3. \A x \in K!Actors : work[x].object # o.id
  BY DEF K!Unclaimed
<1>4. o.id <= ids /\ \A p \in objects : p.id = o.id => p = o
  BY DEF ShapesOK, ObjectOK
<1> HIDE DEF K!Tasks
<1>5. /\ \A x, c \in K!Actors : work'[x].object # None /\ work'[x].object = work'[c].object => x = c
      /\ \A x \in K!Actors : work'[x].object # None => work'[x].object <= ids'
  BY <1>1, <1>3, <1>4 DEF ClaimsOK
<1>6. \A x \in K!Actors : work'[x].pc \in Naming =>
        \E p \in objects' : p.id = work'[x].object /\ p.asks.kind \in K!Queues
  <2>1. work'[a].pc \notin Naming
    BY DEF Naming
  <2> QED BY <1>1, <1>3, <2>1 DEF ClaimsOK
<1>7. \A x \in K!Actors : work'[x].pc \in Unnaming \cup {"free"} => \A p \in objects' : p.id # work'[x].object
  BY <1>1, <1>4 DEF ClaimsOK
<1>8. ASSUME NEW i \in DOMAIN dying'
      PROVE  /\ dying'[i] \in K!Tasks' /\ dying'[i].asks \notin {K!IdleTask, K!TimerTask, K!TimerQueue}
             /\ \A j \in DOMAIN dying' : dying'[i].id = dying'[j].id => i = j
             /\ \A x \in K!Actors : work'[x].object # dying'[i].id
  BY <1>1, <1>2
<1> QED BY <1>5, <1>6, <1>7, <1>8 DEF ClaimsOK

-----------------------------------------------------------------------------
(* The registry.                                                           *)
LEMMA RegistrySame ==
  ASSUME NamesOK, NEW a \in K!Actors, Only(a), work[a].pc \notin Naming \cup Unnaming,
         work'[a].pc \notin Naming \cup Unnaming, objects \subseteq objects',
         registry' = registry, mixed' = mixed
  PROVE  NamesOK'
<1>1. \A x \in K!Actors : x # a => work'[x] = work[x]
  BY DEF Only
<1>2. \A s \in 1 .. ENTRIES : registry[s].handle # None =>
       \/ \E x \in K!Actors : work'[x].object = registry[s].handle /\ work'[x].pc \in Unnaming
       \/ \E o \in objects' : o.id = registry[s].handle /\ o.asks.kind \in K!Queues
  BY <1>1 DEF NamesOK
<1>3. \A x \in K!Actors : \A s \in 1 .. ENTRIES :
       /\ work'[x].pc \in Naming => registry[s].handle # work'[x].object
       /\ work'[x].pc \in {"unname", "forget"} /\ registry[s].handle = work'[x].object => s = work'[x].slot
  BY <1>1 DEF NamesOK, Unnaming
<1>4. ~mixed =>
       /\ \A x, c \in K!Actors : work'[x].pc \in Writing /\ work'[c].pc \in Writing => x = c
       /\ \A s \in 1 .. ENTRIES : registry[s].named = registry[s].handle
            \/ \E x \in K!Actors : work'[x].pc \in {"handle", "forget"} /\ work'[x].slot = s
       /\ \A x \in K!Actors : work'[x].pc = "handle" => registry[work'[x].slot].named = work'[x].object
       /\ \A x \in K!Actors : work'[x].pc = "forget" => registry[work'[x].slot].named = None
  BY <1>1 DEF NamesOK, Unnaming, Naming, Writing
<1> QED BY <1>2, <1>3, <1>4 DEF NamesOK

(* A queue is taken by the call that will take it off the registry.        *)
LEMMA RegistryLeft ==
  ASSUME NamesOK, ShapesOK, NEW a \in K!Actors, Only(a), work[a].pc \notin Naming \cup Unnaming,
         NEW o \in objects, objects' = objects \ {o}, work'[a].object = o.id,
         work'[a].pc = (IF o.asks.kind \in K!Queues THEN "unregister" ELSE "free"),
         registry' = registry, mixed' = mixed
  PROVE  NamesOK'
<1>1. \A x \in K!Actors : x # a => work'[x] = work[x]
  BY DEF Only
<1>2. \A p \in objects : p.id = o.id => p = o
  BY DEF ShapesOK
<1>3. \A s \in 1 .. ENTRIES : registry[s].handle # None =>
       \/ \E x \in K!Actors : work'[x].object = registry[s].handle /\ work'[x].pc \in Unnaming
       \/ \E p \in objects' : p.id = registry[s].handle /\ p.asks.kind \in K!Queues
  BY <1>1, <1>2 DEF NamesOK, Unnaming
<1>4. \A x \in K!Actors : \A s \in 1 .. ENTRIES :
       /\ work'[x].pc \in Naming => registry[s].handle # work'[x].object
       /\ work'[x].pc \in {"unname", "forget"} /\ registry[s].handle = work'[x].object => s = work'[x].slot
  BY <1>1 DEF NamesOK, Naming
<1>5. ~mixed =>
       /\ \A x, c \in K!Actors : work'[x].pc \in Writing /\ work'[c].pc \in Writing => x = c
       /\ \A s \in 1 .. ENTRIES : registry[s].named = registry[s].handle
            \/ \E x \in K!Actors : work'[x].pc \in {"handle", "forget"} /\ work'[x].slot = s
       /\ \A x \in K!Actors : work'[x].pc = "handle" => registry[work'[x].slot].named = work'[x].object
       /\ \A x \in K!Actors : work'[x].pc = "forget" => registry[work'[x].slot].named = None
  BY <1>1 DEF NamesOK, Unnaming, Naming, Writing
<1> QED BY <1>3, <1>4, <1>5 DEF NamesOK

-----------------------------------------------------------------------------
(* The calls after a step.                                                 *)
LEMMA Changed ==
  ASSUME KTyped, NEW a \in K!Actors, NEW c \in Call, work' = [work EXCEPT ![a] = c]
  PROVE  Only(a) /\ work'[a] = c
BY DEF KTyped, Only

(* An actor that is in no call.                                            *)
LEMMA Idles ==
  /\ K!Nothing \in Call /\ (None \notin Nat => CallOK(K!Nothing))
  /\ K!Nothing.pc = "none" /\ K!Nothing.asks = None /\ K!Nothing.parts = <<>> /\ K!Nothing.object = None
  /\ K!Nothing.slot = 0 /\ ~Stored(K!IdleTask) /\ ~Stored(K!TimerTask)
<1>1. /\ K!Nothing.pc = "none" /\ K!Nothing.asks = None /\ K!Nothing.parts = <<>> /\ K!Nothing.object = None
      /\ K!Nothing.slot = 0
  BY DEF K!Nothing
<1>2. K!Nothing \in Call
  BY Empty DEF K!Nothing, Call
<1>3. CallOK(K!Nothing)
  <2>1. Short(K!Nothing.parts)
    BY <1>1 DEF Short
  <2> QED BY <1>1, <2>1 DEF CallOK, Making, Naming, Unnaming, Later
<1>4. ~Stored(K!IdleTask) /\ ~Stored(K!TimerTask)
  BY DEF Stored, K!IdleTask, K!TimerTask
<1> QED BY <1>1, <1>2, <1>3, <1>4

(* A call when it begins.                                                  *)
LEMMA Begins ==
  ASSUME NEW p, NEW r
  PROVE  [K!Nothing EXCEPT !.pc = p, !.asks = r]
           = [pc |-> p, asks |-> r, parts |-> <<>>, object |-> None, slot |-> 0]
<1> DEFINE d == [pc |-> p, asks |-> None, parts |-> <<>>, object |-> None, slot |-> 0]
<1>1. [K!Nothing EXCEPT !.pc = p] = d
  BY DEF K!Nothing
<1>2. [d EXCEPT !.asks = r] = [pc |-> p, asks |-> r, parts |-> <<>>, object |-> None, slot |-> 0]
  OBVIOUS
<1> QED BY <1>1, <1>2

(* A call that goes to its next point, all else unchanged.                 *)
LEMMA Goes ==
  ASSUME KTyped, NEW a \in K!Actors, NEW p \in {"none",
         "free"} \cup Making \cup Naming \cup Unnaming, K!Go(a, p)
  PROVE  /\ Only(a) /\ work'[a].pc = p
         /\ work'[a].asks = work[a].asks /\ work'[a].parts = work[a].parts
         /\ work'[a].object = work[a].object /\ work'[a].slot = work[a].slot
<1>1. work \in [K!Actors -> Call] /\ work[a] \in Call
  BY DEF KTyped
<1> DEFINE c == [pc |-> p, asks |-> work[a].asks, parts |-> work[a].parts,
                 object |-> work[a].object, slot |-> work[a].slot]
<1>2. c \in Call
  BY <1>1 DEF Call
<1>3. [work[a] EXCEPT !.pc = p] = c
  BY <1>1 DEF Call
<1>4. work' = [work EXCEPT ![a] = c]
  BY <1>3 DEF K!Go
<1>5. Only(a) /\ work'[a] = c
  BY <1>2, <1>4, Changed
<1> QED BY <1>5

(* A call changes, and there may be new objects.                           *)
LEMMA ShapesKept ==
  ASSUME ShapesOK, KTyped, NEW a \in K!Actors, Only(a), CallOK(work'[a]), ids' \in Nat,
         ids' >= ids,
         NEW N, objects' \subseteq objects \cup N,
         \A n \in N : n.id \in Nat /\ n.id > ids /\ n.id <= ids' /\ ObjectOK(n),
         \A n, m \in N : n = m
  PROVE  ShapesOK'
<1>1. \A x \in K!Actors : CallOK(work'[x])
  BY DEF ShapesOK, Only
<1>2. \A o \in objects : ObjectOK(o) /\ o.id \in Nat /\ o.id <= ids /\ o.id <= ids'
  <2>1. ids \in Nat /\ \A o \in objects : o.id \in Nat
    BY DEF KTyped, Thing
  <2>2. \A o \in objects : o.id <= ids /\ o.id <= ids'
    BY <2>1 DEF ShapesOK
  <2> QED BY <2>1, <2>2 DEF ShapesOK
<1>3. ids \in Nat
  BY DEF KTyped
<1> HIDE DEF CallOK, ObjectOK
<1>4. \A o, p \in objects' : o.id = p.id => o = p
  BY <1>2, <1>3 DEF ShapesOK
<1> QED BY <1>1, <1>2, <1>4 DEF ShapesOK

(* A call changes, and there are no new objects.                           *)
LEMMA ShapesSame ==
  ASSUME ShapesOK, KTyped, NEW a \in K!Actors, Only(a), CallOK(work'[a]), ids' \in Nat,
         ids' >= ids,
         objects' \subseteq objects
  PROVE  ShapesOK'
<1> DEFINE N == {}
<1>1. /\ objects' \subseteq objects \cup N
      /\ \A n \in N : n.id \in Nat /\ n.id > ids /\ n.id <= ids' /\ ObjectOK(n)
      /\ \A n, m \in N : n = m
  OBVIOUS
<1> HIDE DEF N
<1> QED BY <1>1, ShapesKept

-----------------------------------------------------------------------------
(* Making an object.                                                       *)
LEMMA BeginStep ==
  ASSUME K!Parameters, KInv, NEW a \in K!Actors, K!Begin(a)
  PROVE  KInv'
<1>1. PICK r \in Requests(a) : work' = [work EXCEPT ![a] = [K!Nothing EXCEPT !.pc = K!FirstStep(r), !.asks = r]]
  BY DEF K!Begin
<1>2. r \in Wishes
  <2>1. a \in Callers \cup {"main"}
    BY DEF K!Begin, K!Actors
  <2>2. r \in UNION {Requests(x) : x \in Callers \cup {"main"}}
    BY <2>1, Zenon
  <2> QED BY <2>2 DEF Wishes
<1>3. /\ K!Works(a) /\ work[a].pc = "none" /\ phase \in {"main", "running"}
      /\ taken' = taken /\ ids' = ids /\ misfreed' = misfreed /\ objects' = objects /\ phase' = phase
      /\ current' = current /\ tasksMade' = tasksMade /\ dying' = dying /\ registry' = registry /\ mixed' = mixed
  BY DEF K!Begin, K!At, K!memory, K!start, K!deaths, K!names
<1>4. KTyped /\ ShapesOK /\ MemoryOK /\ RoomsOK /\ StartOK /\ ClaimsOK /\ NamesOK /\ None \notin Nat
  BY DEF KInv, K!Parameters
<1>5. r.kind \in K!Kinds \cup {"task"} /\ r.memory \in {"heap", "own_stack", "own"}
      /\ (r.kind # "task" => r.memory \in {"heap", "own"})
  BY <1>2, Requested
<1>6. /\ K!FirstStep(r) \in {"stack", "tcb", "alloc", "make"}
      /\ K!FirstStep(r) = "stack" => r.kind = "task" /\ r.memory = "heap"
      /\ K!FirstStep(r) = "tcb" => r.kind = "task" /\ r.memory = "own_stack"
      /\ K!FirstStep(r) = "alloc" => r.kind # "task" /\ r.memory = "heap"
      /\ K!FirstStep(r) = "make" => r.memory = "own"
  BY <1>5 DEF K!FirstStep
<1> DEFINE c == [pc |-> K!FirstStep(r), asks |-> r, parts |-> <<>>, object |-> None, slot |-> 0]
<1> HIDE DEF K!FirstStep
<1>7. work' = [work EXCEPT ![a] = c]
  <2>1. [K!Nothing EXCEPT !.pc = K!FirstStep(r), !.asks = r] = c
    BY Begins
  <2> QED BY <1>1, <2>1
<1>8. c \in Call
  BY <1>2, <1>6, Empty DEF Call, Making
<1>9. Only(a) /\ work'[a] = c
  BY <1>4, <1>7, <1>8, Changed
<1>10. work'[a].pc = K!FirstStep(r) /\ work'[a].asks = r /\ work'[a].parts = <<>> /\ work'[a].object = None /\ work'[a].slot = 0
  BY <1>9
<1> HIDE DEF c
<1>11. work[a] = K!Nothing
  BY <1>3, <1>4 DEF ShapesOK, CallOK
<1>12. CallOK(work'[a])
  <2>1. K!FirstStep(r) = "make" => Has(r, <<>>)
    BY <1>6 DEF Has
  <2>2. Short(<<>>)
    BY DEF Short
  <2> QED BY <1>2, <1>6, <1>10, <2>1, <2>2 DEF CallOK, Making, Naming, Unnaming, Later
<1>13. KTyped'
  BY <1>3, <1>4, <1>9 DEF KTyped, Only
<1>14. ids \in Nat /\ taken \subseteq [id : Nat, bytes : Nat]
  BY <1>4 DEF KTyped
<1>15. ShapesOK'
  <2>1. objects' \subseteq objects /\ ids' \in Nat /\ ids' >= ids
    BY <1>3, <1>14
  <2> QED BY <1>4, <1>9, <1>12, <2>1, ShapesSame
<1>16. MemoryOK'
  BY <1>3, <1>4, <1>9, <1>10, <1>11, <1>14, Idles, MemorySame
<1>17. RoomsOK'
  <2>1. work'[a].pc # "make" \/ ~Stored(work'[a].asks)
    BY <1>6, <1>10 DEF Stored
  <2> QED BY <1>3, <1>4, <1>9, <2>1, RoomsSame
<1>18. StartOK'
  BY <1>3, <1>4, <1>9, StartSame
<1>19. ClaimsOK'
  <2>1. work'[a].pc \notin Later
    BY <1>6, <1>10 DEF Later, Naming, Unnaming
  <2> DEFINE N == {}
  <2>2. objects' = objects \cup N /\ (\A n \in N : n.id \in Nat /\ n.id > ids) /\ ids' \in Nat /\ ids' >= ids
    BY <1>3, <1>14
  <2> HIDE DEF N
  <2> QED BY <1>3, <1>4, <1>9, <1>10, <2>1, <2>2, ClaimsNone
<1>20. NamesOK'
  BY <1>3, <1>4, <1>6, <1>9, <1>10, RegistrySame DEF Naming, Unnaming
<1> QED BY <1>13, <1>15, <1>16, <1>17, <1>18, <1>19, <1>20 DEF KInv

(* What most steps need of the invariant.                                  *)
LEMMA Basics ==
  ASSUME K!Parameters, KInv
  PROVE  /\ KTyped /\ ShapesOK /\ MemoryOK /\ RoomsOK /\ StartOK /\ ClaimsOK /\ NamesOK
         /\ ids \in Nat /\ None \notin Nat /\ taken \subseteq [id : Nat, bytes : Nat]
         /\ objects \subseteq Thing /\ IsFiniteSet(objects) /\ work \in [K!Actors -> Call]
         /\ \A o \in objects : o.id \in Nat /\ o.id <= ids
<1>1. KTyped /\ ShapesOK /\ MemoryOK /\ RoomsOK /\ StartOK /\ ClaimsOK /\ NamesOK /\ None \notin Nat
  BY DEF KInv, K!Parameters
<1> QED BY <1>1 DEF KTyped, ShapesOK, ObjectOK, Thing

(* A call that has nothing to do with the registry, nor with what is       *)
(* deleted.                                                                *)
LEMMA Apart ==
  ASSUME K!Parameters, KInv, NEW a \in K!Actors, Only(a),
         work[a].pc \notin Naming \cup Unnaming,
         work'[a].object = None, work'[a].pc \notin Later,
         objects' = objects, dying' = dying, registry' = registry, mixed' = mixed,
         ids' \in Nat, ids' >= ids
  PROVE  ClaimsOK' /\ NamesOK'
<1> DEFINE N == {}
<1>1. objects' = objects \cup N /\ \A n \in N : n.id \in Nat /\ n.id > ids
  OBVIOUS
<1> HIDE DEF N
<1>2. ClaimsOK'
  BY <1>1, Basics, ClaimsNone
<1>3. work'[a].pc \notin Naming \cup Unnaming
  BY DEF Later
<1> QED BY <1>2, <1>3, Basics, RegistrySame

(* A call in the making fails.                                             *)
LEMMA Failed ==
  ASSUME K!Parameters, KInv, NEW a \in K!Actors, K!Works(a), work[a].pc \in Making,
         K!Fail(a), MemoryOK',
         taken' \subseteq taken, ids' = ids, objects' = objects, current' = current, tasksMade' = tasksMade,
         dying' = dying, registry' = registry, mixed' = mixed
  PROVE  KInv'
<1>1. Only(a) /\ work'[a] = K!Nothing
  BY Basics, Idles, Changed DEF K!Fail
<1>2. work[a].pc \notin Naming \cup Unnaming /\ work[a].pc # "none"
  BY DEF Making, Naming, Unnaming
<1>3. work'[a].object = None /\ work'[a].pc \notin Later /\ work'[a].pc # "make"
  BY <1>1, Idles DEF Later, Naming, Unnaming
<1>4. ids' \in Nat /\ ids' >= ids
  BY Basics
<1>5. KTyped'
  BY <1>1, Basics DEF KTyped, Only
<1>6. ShapesOK'
  BY <1>1, <1>4, Basics, Idles, ShapesSame
<1>7. RoomsOK'
  BY <1>1, <1>3, Basics, RoomsSame
<1>8. StartOK'
  BY <1>1, <1>2, Basics, StartFailed DEF K!Fail
<1>9. ClaimsOK' /\ NamesOK'
  BY <1>1, <1>2, <1>3, <1>4, Apart
<1> QED BY <1>5, <1>6, <1>7, <1>8, <1>9 DEF KInv

(* A call in the making is given a block.                                  *)
LEMMA Got ==
  ASSUME K!Parameters, KInv, NEW a \in K!Actors, K!Works(a), work[a].pc \in {"stack",
         "tcb", "alloc"},
         Only(a), work'[a].asks = work[a].asks, work'[a].object = None, work'[a].pc \in {"tcb", "make"},
         CallOK(work'[a]), NEW bytes \in Nat, K!Malloc(bytes),
         \A b : IsIn(b, work'[a].parts) <=> IsIn(b, work[a].parts) \/ b = ids + 1,
         Stored(work[a].asks) => work'[a].parts = <<ids + 1>> /\ bytes = RoomFor(work[a].asks),
         phase' = phase, objects' = objects, current' = current, tasksMade' = tasksMade,
         dying' = dying, registry' = registry, mixed' = mixed, misfreed' = misfreed
  PROVE  KInv'
<1> DEFINE block == K!Block(bytes)
<1>1. /\ taken' = taken \cup {block} /\ ids' = ids + 1 /\ block.id = ids + 1 /\ block.bytes = bytes
      /\ block \in [id : Nat, bytes : Nat]
  BY Basics DEF K!Malloc, K!Block
<1> HIDE DEF block
<1>2. ids' \in Nat /\ ids' >= ids
  BY <1>1, Basics
<1>3. KTyped'
  BY <1>1, Basics DEF KTyped, Only
<1>4. ShapesOK'
  BY <1>2, Basics, ShapesSame
<1>5. MemoryOK'
  BY <1>1, Basics, MemoryTaken
<1>6. RoomsOK'
  <2> DEFINE N == {}
  <2>1. objects' = objects \cup N /\ \A n \in N : n.parts = <<ids + 1>> /\ block.bytes = RoomFor(n.asks)
    OBVIOUS
  <2>2. work'[a].pc = "make" /\ Stored(work'[a].asks) =>
          work'[a].parts = <<ids + 1>> /\ block.bytes = RoomFor(work'[a].asks)
    BY <1>1
  <2> HIDE DEF N
  <2> QED BY <1>1, <2>1, <2>2, Basics, RoomsTaken
<1>7. StartOK'
  BY Basics, StartSame
<1>8. ClaimsOK' /\ NamesOK'
  <2>1. work[a].pc \notin Naming \cup Unnaming /\ work'[a].pc \notin Later
    BY DEF Naming, Unnaming, Later
  <2> QED BY <1>2, <2>1, Apart
<1> QED BY <1>3, <1>4, <1>5, <1>6, <1>7, <1>8 DEF KInv

(* The stack of a task.                                                    *)
LEMMA AllocStackStep ==
  ASSUME K!Parameters, KInv, NEW a \in K!Actors, K!AllocStack(a)
  PROVE  KInv'
<1>1. /\ K!Works(a) /\ work[a].pc = "stack" /\ objects' = objects /\ current' = current
      /\ tasksMade' = tasksMade /\ dying' = dying /\ registry' = registry /\ mixed' = mixed
      /\ misfreed' = misfreed
  BY DEF K!AllocStack, K!At, K!deaths, K!names
<1>2. /\ work[a] \in Call /\ work[a].asks \in Wishes /\ work[a].asks.kind = "task"
      /\ work[a].asks.memory = "heap" /\ work[a].parts = <<>> /\ work[a].object = None /\ work[a].slot = 0
  BY <1>1, Basics DEF ShapesOK, CallOK, Making
<1>3. CASE K!NoMemory /\ K!Fail(a)
  <2>1. Only(a) /\ work'[a] = K!Nothing
    BY <1>3, Basics, Idles, Changed DEF K!Fail
  <2>2. taken' = taken /\ ids' = ids
    BY <1>3 DEF K!NoMemory
  <2>3. MemoryOK'
    BY <1>1, <1>2, <2>1, <2>2, Basics, Idles, MemorySame
  <2>4. work[a].pc \in Making
    BY <1>1 DEF Making
  <2> QED BY <1>1, <1>3, <2>2, <2>3, <2>4, Failed
<1>4. CASE /\ K!Malloc(work[a].asks.size)
           /\ work' = [work EXCEPT ![a].pc = "tcb", ![a].parts = <<ids + 1>>]
           /\ UNCHANGED phase
  <2>1. <<ids + 1>> \in Seq(Nat) /\ \A b : IsIn(b, <<ids + 1>>) <=> b = ids + 1
    BY One, Basics
  <2>2. /\ work'[a].pc = "tcb" /\ work'[a].parts = <<ids + 1>> /\ work'[a].asks = work[a].asks
        /\ work'[a].object = work[a].object /\ work'[a].slot = work[a].slot
    BY <1>2, <1>4, Basics DEF Call
  <2>3. Only(a)
    <3>1. "tcb" \in {"none", "free"} \cup Making \cup Naming \cup Unnaming
      BY DEF Making
    <3> QED BY <1>4, <2>1, <3>1, Basics DEF Only, Call
  <2>4. CallOK(work'[a])
    <3>1. ids + 1 \in Nat \ {0}
      BY Basics
    <3> QED BY <1>2, <2>2, <3>1 DEF CallOK, Making, Naming, Unnaming, Later, Short
  <2>5. work[a].asks.size \in Nat /\ ~Stored(work[a].asks)
    BY <1>2, Requested DEF Stored
  <2>6. \A b : IsIn(b, work'[a].parts) <=> IsIn(b, work[a].parts) \/ b = ids + 1
    BY <1>2, <2>1, <2>2, Empty
  <2> QED BY <1>1, <1>2, <1>4, <2>2, <2>3, <2>4, <2>5, <2>6, Got
<1> QED BY <1>3, <1>4 DEF K!AllocStack

(* Its control block, without which the stack is to be given back.         *)
LEMMA AllocTcbStep ==
  ASSUME K!Parameters, KInv, NEW a \in K!Actors, K!AllocTcb(a)
  PROVE  KInv'
<1>1. /\ K!Works(a) /\ work[a].pc = "tcb" /\ objects' = objects /\ current' = current
      /\ tasksMade' = tasksMade /\ dying' = dying /\ registry' = registry /\ mixed' = mixed
      /\ misfreed' = misfreed
  BY DEF K!AllocTcb, K!At, K!deaths, K!names
<1>2. /\ work[a] \in Call /\ work[a].asks \in Wishes /\ work[a].asks.kind = "task"
      /\ work[a].object = None /\ work[a].slot = 0 /\ Short(work[a].parts)
      /\ \/ work[a].asks.memory = "heap" /\ \E x \in Nat \ {0} : work[a].parts = <<x>>
         \/ work[a].asks.memory = "own_stack" /\ work[a].parts = <<>>
  BY <1>1, Basics DEF ShapesOK, CallOK, Making
<1>3. work[a].pc \in Making
  BY <1>1 DEF Making
<1>4. CASE K!NoMemory /\ work[a].parts = <<>> /\ K!Fail(a)
  <2>1. Only(a) /\ work'[a] = K!Nothing
    BY <1>4, Basics, Idles, Changed DEF K!Fail
  <2>2. taken' = taken /\ ids' = ids
    BY <1>4 DEF K!NoMemory
  <2>3. MemoryOK'
    BY <1>1, <1>4, <2>1, <2>2, Basics, Idles, MemorySame
  <2> QED BY <1>1, <1>3, <1>4, <2>2, <2>3, Failed
<1>5. CASE K!NoMemory /\ work[a].parts # <<>> /\ K!Go(a, "give_back") /\ UNCHANGED phase
  <2>1. taken' = taken /\ ids' = ids /\ phase' = phase
    BY <1>5 DEF K!NoMemory
  <2>2. /\ Only(a) /\ work'[a].pc = "give_back" /\ work'[a].asks = work[a].asks
        /\ work'[a].parts = work[a].parts /\ work'[a].object = None /\ work'[a].slot = 0
    BY <1>2, <1>5, Basics, Goes DEF Making
  <2>3. ids' \in Nat /\ ids' >= ids
    BY <2>1, Basics
  <2>4. CallOK(work'[a])
    BY <1>2, <1>5, <2>2 DEF CallOK, Making, Naming, Unnaming, Later
  <2>5. KTyped'
    BY <1>1, <2>1, <2>2, Basics DEF KTyped, Only
  <2>6. ShapesOK'
    BY <1>1, <2>2, <2>3, <2>4, Basics, ShapesSame
  <2>7. MemoryOK'
    BY <1>1, <2>1, <2>2, <2>3, Basics, MemorySame
  <2>8. RoomsOK'
    BY <1>1, <2>1, <2>2, Basics, RoomsSame
  <2>9. StartOK'
    BY <1>1, <2>1, <2>2, Basics, StartSame
  <2>10. ClaimsOK' /\ NamesOK'
    BY <1>1, <2>2, <2>3, Apart DEF Naming, Unnaming, Later
  <2> QED BY <2>5, <2>6, <2>7, <2>8, <2>9, <2>10 DEF KInv
<1>6. CASE /\ K!Malloc(Structures.task)
           /\ work' = [work EXCEPT ![a].pc = "make", ![a].parts = Append(@, ids + 1)]
           /\ UNCHANGED phase
  <2>1. /\ work'[a].pc = "make" /\ work'[a].parts = Append(work[a].parts, ids + 1)
        /\ work'[a].asks = work[a].asks /\ work'[a].object = work[a].object /\ work'[a].slot = work[a].slot
    BY <1>2, <1>6, Basics DEF Call
  <2>2. /\ Append(work[a].parts, ids + 1) \in Seq(Nat)
        /\ Has(work[a].asks, Append(work[a].parts, ids + 1))
        /\ \A b : IsIn(b, Append(work[a].parts, ids + 1)) <=> IsIn(b, work[a].parts) \/ b = ids + 1
    <3>1. ids + 1 \in Nat \ {0}
      BY Basics
    <3>2. CASE work[a].asks.memory = "own_stack" /\ work[a].parts = <<>>
      <4>1. Append(<<>>, ids + 1) = <<ids + 1>> /\ <<ids + 1>> \in Seq(Nat) /\ \A b : IsIn(b, <<ids + 1>>) <=> b = ids + 1
        BY <3>1, One
      <4>2. \A b : ~IsIn(b, <<>>)
        BY Empty
      <4>3. Has(work[a].asks, <<ids + 1>>)
        BY <1>2, <3>1, <3>2 DEF Has
      <4> QED BY <3>2, <4>1, <4>2, <4>3
    <3>3. ASSUME work[a].asks.memory = "heap", NEW x \in Nat \ {0}, work[a].parts = <<x>>
          PROVE  /\ Append(work[a].parts, ids + 1) \in Seq(Nat)
                 /\ Has(work[a].asks, Append(work[a].parts, ids + 1))
                 /\ \A b : IsIn(b, Append(work[a].parts, ids + 1)) <=> IsIn(b, work[a].parts) \/ b = ids + 1
      <4>1. /\ Append(<<x>>, ids + 1) = <<x, ids + 1>> /\ <<x, ids + 1>> \in Seq(Nat)
            /\ \A b : IsIn(b, <<x, ids + 1>>) <=> b = x \/ b = ids + 1
        BY <3>1, Two
      <4>2. \A b : IsIn(b, <<x>>) <=> b = x
        BY One
      <4>3. x # ids + 1
        <5>1. x \in Taken
          BY <3>3, <4>2, Basics DEF MemoryOK, Holds
        <5> QED BY <5>1, Basics DEF Taken, MemoryOK
      <4>4. Has(work[a].asks, <<x, ids + 1>>)
        BY <1>2, <3>1, <3>3, <4>3 DEF Has
      <4> QED BY <3>3, <4>1, <4>2, <4>4
    <3> QED BY <1>2, <3>2, <3>3
  <2>3. Only(a)
    <3>1. "make" \in {"none", "free"} \cup Making \cup Naming \cup Unnaming
      BY DEF Making
    <3> QED BY <1>6, <2>2, <3>1, Basics DEF Only, Call
  <2>4. CallOK(work'[a])
    <3>1. Short(work'[a].parts)
      BY <1>2, <2>1, <2>2, HasFacts
    <3> QED BY <1>2, <2>1, <2>2, <3>1 DEF CallOK, Making, Naming, Unnaming, Later
  <2>5. Structures.task \in Nat /\ ~Stored(work[a].asks)
    <3>1. Structures \in [{"task", "queue", "stream", "timer", "group"} -> 0 .. OVERFLOW - 1]
      BY Zenon DEF K!Parameters
    <3>2. OVERFLOW \in Nat
      BY DEF K!Parameters
    <3>3. Structures.task \in 0 .. OVERFLOW - 1
      BY <3>1
    <3> QED BY <1>2, <3>2, <3>3 DEF Stored
  <2> QED BY <1>1, <1>2, <1>6, <2>1, <2>2, <2>3, <2>4, <2>5, Got
<1> QED BY <1>4, <1>5, <1>6 DEF K!AllocTcb

(* The stack is given back.                                                *)
LEMMA GiveBackStep ==
  ASSUME K!Parameters, KInv, NEW a \in K!Actors, K!GiveBack(a)
  PROVE  KInv'
<1>1. /\ K!Works(a) /\ work[a].pc = "give_back" /\ objects' = objects /\ current' = current
      /\ tasksMade' = tasksMade /\ dying' = dying /\ registry' = registry /\ mixed' = mixed
      /\ misfreed' = misfreed /\ ids' = ids /\ K!Fail(a)
      /\ taken' = {h \in taken : h.id # work[a].parts[1]}
  BY DEF K!GiveBack, K!At, K!deaths, K!names
<1>2. PICK x \in Nat \ {0} : work[a].parts = <<x>>
  BY <1>1, Basics DEF ShapesOK, CallOK
<1>3. work[a].parts[1] = x /\ \A b : IsIn(b, work[a].parts) <=> b = x
  BY <1>2, One
<1>4. Only(a) /\ work'[a].parts = <<>>
  BY <1>1, Basics, Idles, Changed DEF K!Fail
<1>5. \A b : ~IsIn(b, <<>>)
  BY Empty
<1>6. MemoryOK'
  <2>1. taken' = {h \in taken : h.id # x} /\ ~misfreed' /\ IsIn(x, work[a].parts)
    BY <1>1, <1>3, Basics DEF MemoryOK
  <2>2. \A b : IsIn(b, work'[a].parts) <=> IsIn(b, work[a].parts) /\ b # x
    BY <1>3, <1>4, <1>5
  <2> QED BY <1>1, <1>4, <2>1, <2>2, Basics, MemoryFreed
<1>7. taken' \subseteq taken /\ work[a].pc \in Making
  BY <1>1 DEF Making
<1> QED BY <1>1, <1>6, <1>7, Failed

(* The one block of another object.                                        *)
LEMMA AllocStep ==
  ASSUME K!Parameters, KInv, NEW a \in K!Actors, K!Alloc(a)
  PROVE  KInv'
<1>1. /\ K!Works(a) /\ work[a].pc = "alloc" /\ objects' = objects /\ current' = current
      /\ tasksMade' = tasksMade /\ dying' = dying /\ registry' = registry /\ mixed' = mixed
      /\ misfreed' = misfreed
  BY DEF K!Alloc, K!At, K!deaths, K!names
<1>2. /\ work[a] \in Call /\ work[a].asks \in Wishes /\ work[a].asks.kind # "task"
      /\ work[a].asks.memory = "heap" /\ work[a].parts = <<>> /\ work[a].object = None /\ work[a].slot = 0
  BY <1>1, Basics DEF ShapesOK, CallOK, Making
<1>3. CASE K!NoMemory /\ K!Fail(a)
  <2>1. Only(a) /\ work'[a] = K!Nothing
    BY <1>3, Basics, Idles, Changed DEF K!Fail
  <2>2. taken' = taken /\ ids' = ids
    BY <1>3 DEF K!NoMemory
  <2>3. MemoryOK'
    BY <1>1, <1>2, <2>1, <2>2, Basics, Idles, MemorySame
  <2>4. work[a].pc \in Making
    BY <1>1 DEF Making
  <2> QED BY <1>1, <1>3, <2>2, <2>3, <2>4, Failed
<1>4. CASE /\ K!Allowed(work[a].asks) /\ K!Malloc(K!Asked(work[a].asks))
           /\ work' = [work EXCEPT ![a].pc = "make", ![a].parts = <<ids + 1>>]
           /\ UNCHANGED phase
  <2>1. ids + 1 \in Nat \ {0} /\ <<ids + 1>> \in Seq(Nat) /\ \A b : IsIn(b, <<ids + 1>>) <=> b = ids + 1
    <3>1. ids + 1 \in Nat \ {0}
      BY Basics
    <3> QED BY <3>1, One
  <2>2. /\ work'[a].pc = "make" /\ work'[a].parts = <<ids + 1>> /\ work'[a].asks = work[a].asks
        /\ work'[a].object = work[a].object /\ work'[a].slot = work[a].slot
    BY <1>2, <1>4, Basics DEF Call
  <2>3. Only(a)
    <3>1. "make" \in {"none", "free"} \cup Making \cup Naming \cup Unnaming
      BY DEF Making
    <3> QED BY <1>4, <2>1, <3>1, Basics DEF Only, Call
  <2>4. Has(work[a].asks, <<ids + 1>>) /\ Short(<<ids + 1>>)
    BY <1>2, <1>4, <2>1 DEF Has, Short
  <2>5. CallOK(work'[a])
    BY <1>2, <2>2, <2>4 DEF CallOK, Making, Naming, Unnaming, Later
  <2>6. /\ K!Asked(work[a].asks) \in Nat
        /\ Stored(work[a].asks) => K!Asked(work[a].asks) = RoomFor(work[a].asks)
    BY <1>2, <1>4, RoomEnough
  <2>7. \A b : IsIn(b, work'[a].parts) <=> IsIn(b, work[a].parts) \/ b = ids + 1
    BY <1>2, <2>1, <2>2, Empty
  <2> QED BY <1>1, <1>2, <1>4, <2>2, <2>3, <2>5, <2>6, <2>7, Got
<1> QED BY <1>3, <1>4 DEF K!Alloc

(* The object that is made.                                                *)
LEMMA MadeFacts ==
  ASSUME K!Parameters, KInv, NEW a \in K!Actors, work[a].pc \in {"make", "fill_in"},
         ids \in Nat, ids' = ids + 1,
         work[a].asks.kind \in {"mutex", "semaphore"} /\ work[a].asks.memory = "own" => K!Asserted(work[a].asks)
  PROVE  /\ K!Made(a) \in Thing /\ ObjectOK(K!Made(a)) /\ K!Made(a) \notin objects
         /\ K!Made(a).id = ids + 1 /\ K!Made(a).asks = work[a].asks /\ K!Made(a).by = a
         /\ \A b : b # K!CallersMemory => (Owns(K!Made(a), b) <=> IsIn(b, work[a].parts))
         /\ Stored(work[a].asks) => K!Made(a).parts = work[a].parts
         /\ work[a].asks \in Wishes
<1> DEFINE r == work[a].asks
           n == K!Made(a)
<1>1. r \in Wishes /\ Has(r, work[a].parts) /\ work[a].parts \in Seq(Nat)
  BY Basics, HasFacts, ShortFacts DEF ShapesOK, CallOK, Making
<1>2. /\ n.id = ids + 1 /\ n.asks = r /\ n.parts = K!Brought(r) \o work[a].parts /\ n.by = a
      /\ n.items = K!Items(r)
  BY DEF K!Made
<1>3. r.count \in Nat /\ r.length \in Nat /\ r.memory \in {"heap", "own_stack", "own"}
      /\ (r.kind # "task" => r.memory \in {"heap", "own"})
  BY <1>1, Requested
<1>4. K!Items(r) \in Nat
  BY <1>3 DEF K!Items
<1>5. n \in Thing
  <2>1. K!Brought(r) \o work[a].parts \in Seq(Nat) /\ ids + 1 \in Nat
    BY <1>1, HasFacts, Basics
  <2>2. n = [id |-> ids + 1, asks |-> r, parts |-> K!Brought(r) \o work[a].parts, by |-> a, items |-> K!Items(r)]
    BY DEF K!Made
  <2> HIDE DEF n, r
  <2> QED BY <1>1, <1>4, <2>1, <2>2 DEF Thing
<1>6. r.kind \in {"mutex", "semaphore"} => K!Items(r) <= r.length
  <2> SUFFICES ASSUME r.kind \in {"mutex", "semaphore"} PROVE K!Items(r) <= r.length
    OBVIOUS
  <2>1. r.memory = "heap" => K!Allowed(r)
    BY <1>1 DEF Has
  <2>2. K!Allowed(r) => r.length > 0 /\ (r.kind = "semaphore" => r.count <= r.length)
    BY DEF K!Allowed, K!QueueFits, K!LimitKept
  <2>3. K!Asserted(r) => r.length > 0 /\ (r.kind = "semaphore" => r.count <= r.length)
    BY DEF K!Asserted, K!Queues, K!LimitKept
  <2>4. r.length > 0 /\ (r.kind = "semaphore" => r.count <= r.length)
    BY <1>3, <2>1, <2>2, <2>3
  <2> QED BY <1>3, <2>4 DEF K!Items
<1>7. ObjectOK(n)
  <2>1. n.parts = K!Brought(n.asks) \o work[a].parts /\ Has(n.asks, work[a].parts)
    BY <1>1, <1>2
  <2>2. n.asks.kind \in {"semaphore", "mutex"} => n.items <= n.asks.length
    BY <1>2, <1>6
  <2> HIDE DEF n
  <2> QED BY <1>1, <2>1, <2>2 DEF ObjectOK
<1>8. n \notin objects
  <2>1. n.id = ids + 1
    BY <1>2
  <2>2. ids \in Nat /\ \A o \in objects : o.id \in Nat /\ o.id <= ids
    BY Basics
  <2> HIDE DEF n, r
  <2> QED BY ONLY <2>1, <2>2
<1>9. \A b : b # K!CallersMemory => (Owns(n, b) <=> IsIn(b, work[a].parts))
  BY <1>1, <1>2, HasFacts DEF Owns, K!CallersMemory
<1>10. Stored(r) => n.parts = work[a].parts
  BY <1>1, <1>2, HasFacts DEF Stored
<1> QED BY <1>1, <1>2, <1>5, <1>7, <1>8, <1>9, <1>10

(* An object has been made of what its call had.                           *)
LEMMA Gave ==
  ASSUME K!Parameters, KInv, NEW a \in K!Actors, work[a].pc \in {"make", "fill_in"},
         work[a].asks.kind \in {"mutex", "semaphore"} /\ work[a].asks.memory = "own" => K!Asserted(work[a].asks),
         Only(a), work'[a].parts = <<>>, work'[a].pc # "make", CallOK(work'[a]),
         objects' = objects \cup {K!Made(a)}, ids \in Nat, ids' = ids + 1, taken' = taken, misfreed' = misfreed,
         tasksMade' \in Int, dying' = dying, registry' = registry, mixed' = mixed
  PROVE  KTyped' /\ ShapesOK' /\ MemoryOK' /\ RoomsOK'
<1> DEFINE n == K!Made(a)
<1>0. objects' = objects \cup {n}
  OBVIOUS
<1>1. /\ n \in Thing /\ ObjectOK(n) /\ n \notin objects /\ n.id = ids + 1 /\ n.asks = work[a].asks
      /\ \A b : b # K!CallersMemory => (Owns(n, b) <=> IsIn(b, work[a].parts))
      /\ Stored(work[a].asks) => n.parts = work[a].parts
  BY MadeFacts
<1> HIDE DEF n
<1>2. ids' \in Nat /\ ids' >= ids /\ objects' = objects \cup {n}
  BY <1>0, Basics
<1>3. KTyped'
  <2>1. IsFiniteSet(objects') /\ objects' \subseteq Thing
    BY <1>1, <1>2, Basics, FS_AddElement
  <2> QED BY <1>2, <2>1, Basics DEF KTyped, Only
<1>4. ShapesOK'
  <2> DEFINE N == {n}
  <2>1. /\ objects' \subseteq objects \cup N /\ (\A m \in N : m.id \in Nat /\ m.id > ids /\ m.id <= ids' /\ ObjectOK(m))
        /\ \A m, k \in N : m = k
    BY <1>1, <1>2, Basics
  <2> HIDE DEF N
  <2> QED BY <1>2, <2>1, Basics, ShapesKept
<1>5. MemoryOK'
  <2>1. \A b : ~IsIn(b, work'[a].parts)
    BY Empty
  <2> QED BY <1>1, <1>2, <2>1, Basics, MemoryGiven
<1>6. RoomsOK'
  <2>1. work[a].pc = "fill_in" => ~Stored(work[a].asks)
    BY Basics DEF ShapesOK, CallOK, Stored
  <2>2. Stored(n.asks) => n.parts = work[a].parts /\ work[a].pc = "make"
    BY <1>1, <2>1
  <2> QED BY <1>1, <1>2, <2>2, Basics, RoomsGiven
<1> QED BY <1>3, <1>4, <1>5, <1>6

(* A call that ends when the object is made.                               *)
LEMMA Ended ==
  ASSUME K!Parameters, KInv, NEW a \in K!Actors, work[a].pc \in {"make", "fill_in"},
         work[a].asks.kind \in {"mutex", "semaphore"} /\ work[a].asks.memory = "own" => K!Asserted(work[a].asks),
         work' = [work EXCEPT ![a] = K!Nothing],
         objects' = objects \cup {K!Made(a)}, ids \in Nat, ids' = ids + 1, taken' = taken, misfreed' = misfreed,
         tasksMade' \in Int, dying' = dying, registry' = registry, mixed' = mixed, StartOK'
  PROVE  KInv'
<1>1. Only(a) /\ work'[a] = K!Nothing
  BY Basics, Idles, Changed
<1>2. K!Made(a).id = ids + 1
  BY MadeFacts
<1>3. KTyped' /\ ShapesOK' /\ MemoryOK' /\ RoomsOK'
  BY <1>1, Basics, Idles, Gave
<1>4. ClaimsOK'
  <2> DEFINE N == {K!Made(a)}
  <2>1. objects' = objects \cup N /\ \A n \in N : n.id \in Nat /\ n.id > ids
    BY <1>2, Basics
  <2>2. work'[a].object = None /\ work'[a].pc \notin Later /\ ids' \in Nat /\ ids' >= ids
    BY <1>1, Basics, Idles DEF Later, Naming, Unnaming
  <2> HIDE DEF N
  <2> QED BY <1>1, <2>1, <2>2, Basics, ClaimsNone
<1>5. NamesOK'
  BY <1>1, Basics, Idles, RegistrySame DEF Naming, Unnaming
<1> QED BY <1>3, <1>4, <1>5 DEF KInv

(* A timer is made.                                                        *)
LEMMA FillInTimerStep ==
  ASSUME K!Parameters, KInv, NEW a \in K!Actors, K!FillInTimer(a)
  PROVE  KInv'
<1>1. /\ K!Works(a) /\ work[a].pc = "fill_in" /\ objects' = objects \cup {K!Made(a)} /\ ids' = ids + 1
      /\ work' = [work EXCEPT ![a] = K!Nothing] /\ taken' = taken /\ misfreed' = misfreed
      /\ phase' = phase /\ current' = current
      /\ tasksMade' = tasksMade /\ dying' = dying /\ registry' = registry /\ mixed' = mixed
  BY DEF K!FillInTimer, K!At, K!start, K!deaths, K!names
<1>2. work[a].asks.kind = "timer"
  BY <1>1, Basics DEF ShapesOK, CallOK
<1>3. Only(a)
  BY <1>1, Basics, Idles, Changed
<1>4. K!Made(a).asks = work[a].asks /\ K!Made(a).by = a
  BY DEF K!Made
<1>5. StartOK'
  BY <1>1, <1>2, <1>3, <1>4, Basics, StartGiven
<1>6. tasksMade' \in Int
  BY <1>1, Basics DEF KTyped
<1> QED BY <1>1, <1>2, <1>5, <1>6, Basics, Ended

(* A queue, a group or a stream buffer is made.                            *)
LEMMA MakeOtherStep ==
  ASSUME K!Parameters, KInv, NEW a \in K!Actors, K!MakeOther(a)
  PROVE  KInv'
<1> DEFINE r == work[a].asks
<1>1. /\ K!Works(a) /\ work[a].pc = "make" /\ objects' = objects \cup {K!Made(a)} /\ ids' = ids + 1
      /\ r.kind \notin {"task", "timer"} /\ (r.memory = "own" => K!Asserted(r))
      /\ work' = [work EXCEPT ![a] = IF r.named THEN [K!Nothing EXCEPT !.pc = "search", !.object = ids + 1]
                                                ELSE K!Nothing]
      /\ taken' = taken /\ misfreed' = misfreed /\ phase' = phase /\ current' = current
      /\ tasksMade' = tasksMade /\ dying' = dying /\ registry' = registry /\ mixed' = mixed
  BY DEF K!MakeOther, K!At, K!start, K!deaths, K!names
<1>2. tasksMade' \in Int
  BY <1>1, Basics DEF KTyped
<1>3. K!Made(a).asks = r /\ K!Made(a).by = a /\ K!Made(a).id = ids + 1
  BY DEF K!Made
<1>4. r \in Wishes
  BY <1>1, Basics DEF ShapesOK, CallOK, Making
<1>5. r.named \in BOOLEAN /\ (r.named => r.kind \in K!Queues)
  BY <1>4, NamedQueue
<1> HIDE DEF r
<1>6. CASE ~r.named
  <2>1. work' = [work EXCEPT ![a] = K!Nothing]
    BY <1>1, <1>6, Zenon
  <2>2. Only(a)
    BY <2>1, Basics, Idles, Changed
  <2>3. StartOK'
    BY <1>1, <1>3, <2>2, Basics, StartGiven DEF r
  <2> QED BY <1>1, <1>2, <2>1, <2>3, Basics, Ended DEF r
<1>7. CASE r.named
  <2> DEFINE c == [pc |-> "search", asks |-> None, parts |-> <<>>, object |-> ids + 1, slot |-> 0]
  <2>1. [K!Nothing EXCEPT !.pc = "search", !.object = ids + 1] = c
    <3> DEFINE d == [pc |-> "search", asks |-> None, parts |-> <<>>, object |-> None, slot |-> 0]
    <3>1. [K!Nothing EXCEPT !.pc = "search"] = d
      BY DEF K!Nothing
    <3>2. [d EXCEPT !.object = ids + 1] = c
      OBVIOUS
    <3> QED BY <3>1, <3>2
  <2>2. c \in Call
    BY Basics, Empty DEF Call, Naming
  <2>3. work' = [work EXCEPT ![a] = c]
    <3> HIDE DEF c
    <3> QED BY <1>1, <1>7, <2>1, Zenon
  <2>4. Only(a) /\ work'[a] = c
    BY <2>2, <2>3, Basics, Changed
  <2>5. /\ work'[a].pc = "search" /\ work'[a].asks = None /\ work'[a].parts = <<>>
        /\ work'[a].object = ids + 1 /\ work'[a].slot = 0
    BY <2>4
  <2> HIDE DEF c
  <2>6. r.kind \in K!Queues
    BY <1>5, <1>7, Zenon
  <2>7. CallOK(work'[a])
    BY <2>5, Basics DEF CallOK, Making, Naming, Unnaming, Later, Short
  <2>8. KTyped' /\ ShapesOK' /\ MemoryOK' /\ RoomsOK'
    BY <1>1, <1>2, <2>4, <2>5, <2>7, Basics, Gave DEF r
  <2>9. StartOK'
    BY <1>1, <1>3, <2>4, Basics, StartGiven DEF r
  <2>10. ClaimsOK'
    BY <1>1, <1>3, <2>4, <2>5, <2>6, Basics, ClaimsMade
  <2>11. NamesOK'
    <3>1. \A x \in K!Actors : x # a => work'[x] = work[x]
      BY <2>4 DEF Only
    <3>2. work[a].pc \notin Naming \cup Unnaming \cup Writing
      BY <1>1 DEF Naming, Unnaming, Writing
    <3>3. \A s \in 1 .. ENTRIES : registry[s].handle # ids + 1
      <4>1. \A x \in K!Actors : work[x].object # ids + 1
        <5>1. \A x \in K!Actors : work[x].object # None => work[x].object <= ids
          BY Basics DEF ClaimsOK
        <5>2. ids + 1 # None /\ ~(ids + 1 <= ids)
          BY Basics
        <5> QED BY <5>1, <5>2
      <4>2. \A o \in objects : o.id # ids + 1
        BY Basics
      <4>3. ids + 1 # None
        BY Basics
      <4> QED BY <4>1, <4>2, <4>3, Basics DEF NamesOK
    <3>4. \A s \in 1 .. ENTRIES : registry[s].handle # None =>
           \/ \E x \in K!Actors : work'[x].object = registry[s].handle /\ work'[x].pc \in Unnaming
           \/ \E o \in objects' : o.id = registry[s].handle /\ o.asks.kind \in K!Queues
      BY <1>1, <3>1, <3>2, Basics DEF NamesOK
    <3>5. \A x \in K!Actors : \A s \in 1 .. ENTRIES :
           /\ work'[x].pc \in Naming => registry[s].handle # work'[x].object
           /\ work'[x].pc \in {"unname", "forget"} /\ registry[s].handle = work'[x].object => s = work'[x].slot
      BY <2>5, <3>1, <3>3, Basics DEF NamesOK
    <3>6. ~mixed =>
           /\ \A x, y \in K!Actors : work'[x].pc \in Writing /\ work'[y].pc \in Writing => x = y
           /\ \A s \in 1 .. ENTRIES : registry[s].named = registry[s].handle
                \/ \E x \in K!Actors : work'[x].pc \in {"handle", "forget"} /\ work'[x].slot = s
           /\ \A x \in K!Actors : work'[x].pc = "handle" => registry[work'[x].slot].named = work'[x].object
           /\ \A x \in K!Actors : work'[x].pc = "forget" => registry[work'[x].slot].named = None
      BY <1>1, <2>5, <3>1, Basics DEF NamesOK, Writing
    <3> QED BY <1>1, <3>4, <3>5, <3>6, Basics DEF NamesOK
  <2> QED BY <2>8, <2>9, <2>10, <2>11 DEF KInv
<1> QED BY <1>5, <1>6, <1>7, Zenon

(* A task is made, and may be the first to run.                            *)
LEMMA MakeTaskStep ==
  ASSUME K!Parameters, KInv, NEW a \in K!Actors, K!MakeTask(a)
  PROVE  KInv'
<1> DEFINE n == K!Made(a)
<1>1. /\ K!Works(a) /\ work[a].pc = "make" /\ work[a].asks.kind = "task" /\ objects' = objects \cup {n}
      /\ ids' = ids + 1 /\ tasksMade' = tasksMade + 1 /\ work' = [work EXCEPT ![a] = K!Nothing]
      /\ current' = (IF K!Outdoes(n) THEN ids + 1 ELSE current)
      /\ phase' = (CASE phase = "idle_task" -> "timer_queue" [] phase = "timer_task" -> "running"
                     [] OTHER -> phase)
      /\ taken' = taken /\ misfreed' = misfreed /\ dying' = dying /\ registry' = registry /\ mixed' = mixed
  BY DEF K!MakeTask, K!At, K!names
<1>2. tasksMade' \in Int
  BY <1>1, Basics DEF KTyped
<1>3. n \notin objects /\ n.id = ids + 1 /\ n.asks = work[a].asks /\ n.by = a /\ work[a].asks \in Wishes
  BY <1>1, Basics, MadeFacts
<1>4. Only(a) /\ work'[a] = K!Nothing
  BY <1>1, Basics, Idles, Changed
<1> HIDE DEF n
<1>5. /\ a = "main" => phase \in {"main", "idle_task", "timer_task"}
      /\ a # "main" => phase = "running"
  BY <1>1, Basics, WhoWorks
<1>6. /\ phase \in {"main", "running"} => phase' = phase
      /\ phase = "idle_task" => phase' = "timer_queue" /\ n.asks = K!IdleTask
      /\ phase = "timer_task" => phase' = "running" /\ n.asks = K!TimerTask
  BY <1>1, <1>3, <1>5, Basics DEF StartOK
<1>7. K!Tasks' = K!Tasks \cup {n} /\ n \notin K!Tasks
  BY <1>1, <1>3 DEF K!Tasks
<1>8. tasksMade' = Cardinality(K!Tasks')
  <2>1. IsFiniteSet(K!Tasks)
    BY Basics, FS_Subset DEF K!Tasks
  <2>2. Cardinality(K!Tasks \cup {n}) = Cardinality(K!Tasks) + 1
    BY <1>7, <2>1, FS_AddElement
  <2>3. tasksMade = Cardinality(K!Tasks)
    BY Basics DEF StartOK
  <2> QED BY <1>1, <1>7, <2>2, <2>3
<1>9. /\ K!HasTimerQueue => K!HasTimerQueue'
      /\ \A r : Made1(r) => Made1(r)'
      /\ \A r : r = n.asks => Made1(r)'
  BY <1>1, <1>7 DEF K!HasTimerQueue, Made1
<1>10. /\ \A o \in objects' : o.by = "timers" => o.asks = K!TimerQueue
       /\ \A o, p \in objects' : o.by = "timers" /\ p.by = "timers" => o = p
  <2>1. n.by # "timers"
    BY <1>3 DEF K!Parameters, K!Actors
  <2> QED BY <1>1, <2>1, Basics DEF StartOK
<1>11. ASSUME phase' # "running"
       PROVE  \E o \in K!Tasks' : o.id = current' /\ \A x \in K!Tasks' :
                x.asks.count < o.asks.count \/ (x.asks.count = o.asks.count /\ x.id <= o.id)
  <2>1. phase # "running"
    BY <1>6, <1>11
  <2>2. n.asks.count \in Nat
    BY <1>3, Requested
  <2>3. \A x \in K!Tasks : x \in objects /\ x.asks.count \in Nat /\ x.id \in Nat /\ x.id <= ids
    <3>1. \A x \in K!Tasks : x.asks \in Wishes
      BY Basics DEF K!Tasks, Thing
    <3>2. \A x \in K!Tasks : x.asks.count \in Nat
      BY <3>1, Requested
    <3> QED BY <3>2, Basics DEF K!Tasks
  <2>4. /\ K!Tasks = {} => current = None
        /\ K!Tasks # {} => \E o \in K!Tasks : o.id = current /\ \A x \in K!Tasks :
            x.asks.count < o.asks.count \/ (x.asks.count = o.asks.count /\ x.id <= o.id)
    BY <2>1, Basics DEF StartOK
  <2>5. ids \in Nat /\ None \notin Nat
    BY Basics
  <2>6. CASE K!Tasks = {}
    <3>1. K!Outdoes(n)
      BY <2>4, <2>6 DEF K!Outdoes
    <3>2. K!Tasks' = {n} /\ current' = n.id
      BY <1>1, <1>3, <1>7, <2>6, <3>1
    <3> QED BY <1>3, <2>2, <2>5, <3>2
  <2>7. CASE K!Tasks # {}
    <3>1. PICK o \in K!Tasks : o.id = current /\ \A x \in K!Tasks :
            x.asks.count < o.asks.count \/ (x.asks.count = o.asks.count /\ x.id <= o.id)
      BY <2>4, <2>7
    <3>2. K!Outdoes(n) <=> o.asks.count <= n.asks.count
      <4>1. current # None
        BY <2>3, <2>5, <3>1
      <4>2. \A c \in objects : c.id = current => c = o
        BY <2>3, <3>1, Basics DEF ShapesOK
      <4> QED BY <2>1, <2>3, <3>1, <4>1, <4>2 DEF K!Outdoes
    <3>3. CASE K!Outdoes(n)
      <4>1. current' = n.id
        BY <1>1, <1>3, <3>3
      <4>2. \A x \in K!Tasks : x.asks.count < n.asks.count \/ (x.asks.count = n.asks.count /\ x.id <= n.id)
        BY <1>3, <2>2, <2>3, <2>5, <3>1, <3>2, <3>3
      <4>3. n.asks.count = n.asks.count /\ n.id <= n.id
        BY <1>3, <2>5
      <4> QED BY <1>7, <4>1, <4>2, <4>3
    <3>4. CASE ~K!Outdoes(n)
      <4>1. current' = current /\ n.asks.count < o.asks.count
        BY <1>1, <2>2, <2>3, <3>1, <3>2, <3>4
      <4> QED BY <1>7, <3>1, <4>1
    <3> QED BY <3>3, <3>4
  <2> QED BY <2>6, <2>7
<1>12. /\ \A x \in K!Actors \ {"main"} : phase' # "running" => work'[x] = K!Nothing
       /\ work["main"] = K!Nothing \/ a = "main"
       /\ phase' \in {"timer_queue", "running", "halted"} => work'["main"] = K!Nothing
       /\ phase' \in {"main", "timer_queue", "running"}
       /\ phase' # "running" => dying' = <<>>
  <2>1. "main" \in K!Actors /\ \A x \in K!Actors : x # a => work'[x] = work[x]
    BY <1>4 DEF Only, K!Actors
  <2>2. work["main"] = K!Nothing \/ a = "main"
    BY <1>5, Basics DEF StartOK
  <2>3. phase' \in {"main", "timer_queue", "running"} /\ (phase' # "running" => phase # "running")
    BY <1>5, <1>6
  <2>4. work'["main"] = K!Nothing
    BY <1>4, <2>1, <2>2
  <2>5. \A x \in K!Actors \ {"main"} : phase' # "running" => work'[x] = K!Nothing
    BY <1>4, <2>1, <2>3, Basics DEF StartOK
  <2>6. phase # "running" => dying = <<>>
    BY Basics DEF StartOK
  <2> QED BY <1>1, <2>2, <2>3, <2>4, <2>5, <2>6
<1>13. /\ phase' \in {"timer_queue", "running"} => Made1(K!IdleTask)'
       /\ phase' = "running" => K!HasTimerQueue' /\ Made1(K!TimerTask)'
  <2>1. /\ phase \in {"timer_task", "running"} => Made1(K!IdleTask) /\ K!HasTimerQueue
        /\ phase = "running" => Made1(K!TimerTask)
    BY Basics DEF StartOK
  <2> QED BY <1>5, <1>6, <1>9, <2>1
<1>14. StartOK'
  <2> HIDE DEF Made1, K!HasTimerQueue, K!Tasks
  <2>1. K!Tasks' # {}
    BY <1>7
  <2> QED BY <1>8, <1>10, <1>11, <1>12, <1>13, <2>1 DEF StartOK, Phases
<1> QED BY <1>1, <1>2, <1>14, Basics, Ended DEF n

(* The next address is in no slot of the registry.                         *)
LEMMA NewHandle ==
  ASSUME K!Parameters, KInv
  PROVE  \A s \in 1 .. ENTRIES : registry[s].handle # ids + 1
<1>1. \A x \in K!Actors : work[x].object # None => work[x].object <= ids
  BY Basics DEF ClaimsOK
<1>2. ids + 1 # None /\ ~(ids + 1 <= ids)
  BY Basics
<1>3. \A o \in objects : o.id # ids + 1
  BY Basics
<1> QED BY <1>1, <1>2, <1>3, Basics DEF NamesOK

(* The queue of the timers is made and registered, before the start.       *)
LEMMA QueueMade ==
  ASSUME K!Parameters, KInv, NEW a \in K!Actors, Only(a), K!Works(a), phase # "running",
         ~K!HasTimerQueue, K!Allowed(K!TimerQueue),
         taken' = taken \cup {[id |-> ids + 1, bytes |-> K!Asked(K!TimerQueue)]},
         objects' = objects \cup {K!WithTimerQueue(ids + 1)},
         registry' = IF K!FreeSlots(registry) = {} THEN registry
                     ELSE [registry EXCEPT ![K!Least(K!FreeSlots(registry))] = [named |-> ids + 1, handle |-> ids + 1]],
         ids' = ids + 1, misfreed' = misfreed, tasksMade' = tasksMade, dying' = dying, mixed' = mixed,
         work[a].pc \notin Naming \cup Unnaming,
         work'[a].parts = work[a].parts, work'[a].object = None, CallOK(work'[a]),
         work'[a].pc \notin Later, work'[a].pc # "make", StartOK'
  PROVE  KInv'
<1> DEFINE n == K!WithTimerQueue(ids + 1)
           block == [id |-> ids + 1, bytes |-> K!Asked(K!TimerQueue)]
<1>1. /\ n.id = ids + 1 /\ n.asks = K!TimerQueue /\ n.parts = <<ids + 1>> /\ n.by = "timers" /\ n.items = 0
      /\ block.id = ids + 1 /\ block.bytes = K!Asked(K!TimerQueue)
  BY DEF K!WithTimerQueue
<1>2. ids + 1 \in Nat \ {0} /\ ids' \in Nat /\ ids' >= ids
  BY Basics
<1>3. <<ids + 1>> \in Seq(Nat) /\ Short(<<ids + 1>>) /\ <<>> \o <<ids + 1>> = <<ids + 1>>
  BY <1>2, One DEF Short
<1>4. K!TimerQueue \in Wishes /\ K!TimerQueue.kind = "queue" /\ K!TimerQueue.memory = "heap"
  BY DEF Wishes, K!TimerQueue
<1>5. n \in Thing
  BY <1>1, <1>3, <1>4 DEF K!WithTimerQueue, Thing
<1>6. ObjectOK(n)
  <2>1. Has(K!TimerQueue, <<ids + 1>>) /\ K!Brought(K!TimerQueue) = <<>>
    BY <1>2, <1>4 DEF Has, K!Brought
  <2> HIDE DEF n
  <2> QED BY <1>1, <1>3, <1>4, <2>1 DEF ObjectOK
<1>7. K!Asked(K!TimerQueue) \in Nat /\ K!Asked(K!TimerQueue) = RoomFor(K!TimerQueue)
  BY <1>4, RoomEnough DEF Stored
<1>8. block \in [id : Nat, bytes : Nat]
  BY <1>2, <1>7
<1>9. taken' = taken \cup {block} /\ objects' = objects \cup {n}
  OBVIOUS
<1> HIDE DEF n, block
<1> DEFINE N == {n}
<1>10. /\ objects' = objects \cup N /\ (\A m \in N : m.id \in Nat /\ m.id > ids /\ m.id <= ids' /\ ObjectOK(m))
       /\ \A m, k \in N : m = k
       /\ \A m \in N : m.parts = <<ids + 1>> /\ block.bytes = RoomFor(m.asks)
  BY <1>1, <1>2, <1>6, <1>7, <1>9, Basics
<1> HIDE DEF N
<1> DEFINE slot == K!Least(K!FreeSlots(registry))
<1>11. /\ K!FreeSlots(registry) # {} => slot \in 1 .. ENTRIES
       /\ registry \in [1 .. ENTRIES -> [named : Nat \cup {None}, handle : Nat \cup {None}]]
  <2>1. registry \in [1 .. ENTRIES -> [named : Nat \cup {None}, handle : Nat \cup {None}]]
    BY Basics DEF KTyped
  <2>2. K!FreeSlots(registry) \subseteq 1 .. ENTRIES /\ K!FreeSlots(registry) \in SUBSET Nat
    BY <2>1 DEF K!FreeSlots
  <2> QED BY <2>1, <2>2, LeastIn
<1>12. \/ registry' = registry
       \/ /\ slot \in 1 .. ENTRIES
          /\ registry' = [registry EXCEPT ![slot] = [named |-> ids + 1, handle |-> ids + 1]]
  BY <1>11
<1> HIDE DEF slot
<1>13. /\ registry' \in [1 .. ENTRIES -> [named : Nat \cup {None}, handle : Nat \cup {None}]]
       /\ \A s \in 1 .. ENTRIES : \/ registry'[s] = registry[s]
                                  \/ s = slot /\ registry'[s].named = ids + 1 /\ registry'[s].handle = ids + 1
  <2>1. CASE registry' = registry
    BY <1>11, <2>1
  <2>2. CASE /\ slot \in 1 .. ENTRIES
             /\ registry' = [registry EXCEPT ![slot] = [named |-> ids + 1, handle |-> ids + 1]]
    <3> DEFINE e == [named |-> ids + 1, handle |-> ids + 1]
    <3>1. e \in [named : Nat \cup {None}, handle : Nat \cup {None}] /\ e.named = ids + 1 /\ e.handle = ids + 1
      BY <1>2
    <3> HIDE DEF e
    <3> QED BY <1>11, <2>2, <3>1 DEF e
  <2> QED BY <1>12, <2>1, <2>2
<1>14. KTyped'
  <2>1. IsFiniteSet(objects') /\ objects' \subseteq Thing
    BY <1>5, <1>9, Basics, FS_AddElement
  <2> QED BY <1>2, <1>8, <1>9, <1>13, <2>1, Basics DEF KTyped, Only
<1>15. ShapesOK'
  BY <1>2, <1>10, Basics, ShapesKept
<1>16. MemoryOK'
  BY <1>1, <1>9, Basics, MemoryQueue
<1>17. RoomsOK'
  BY <1>1, <1>9, <1>10, Basics, RoomsTaken
<1>18. ClaimsOK'
  BY <1>2, <1>10, Basics, ClaimsNone
<1>19. \A x \in K!Actors : work'[x].pc \notin Naming \cup Unnaming \cup Writing /\ work[x].pc \notin Unnaming \cup Writing
  <2>1. \A x \in K!Actors \ {"main"} : work[x] = K!Nothing
    BY Basics DEF StartOK
  <2>2. a = "main"
    BY DEF K!Works
  <2>3. work[a].pc \notin Writing /\ work'[a].pc \notin Naming \cup Unnaming \cup Writing
    BY DEF Later, Naming, Unnaming, Writing
  <2>4. \A x \in K!Actors : x # a => work'[x] = K!Nothing /\ work[x] = K!Nothing
    BY <2>1, <2>2 DEF Only
  <2>5. "none" \notin Naming \cup Unnaming \cup Writing
    BY DEF Naming, Unnaming, Writing
  <2> QED BY <2>3, <2>4, <2>5, Idles
<1>20. NamesOK'
  <2>1. \A s \in 1 .. ENTRIES : registry'[s].handle # None =>
          \E o \in objects' : o.id = registry'[s].handle /\ o.asks.kind \in K!Queues
    <3>1. "queue" \in K!Queues /\ n \in objects'
      BY <1>9 DEF K!Queues
    <3> QED BY <1>1, <1>4, <1>9, <1>13, <1>19, <3>1, Basics DEF NamesOK
  <2>2. \A s, x \in 1 .. ENTRIES : registry'[s].handle # None /\ registry'[s].handle = registry'[x].handle => s = x
    <3>1. \A s \in 1 .. ENTRIES : registry[s].handle # ids + 1
      BY NewHandle
    <3> QED BY <1>13, <3>1, Basics DEF NamesOK
  <2>3. \A x \in K!Actors : work'[x].pc \notin {"handle", "forget", "unname"} /\ work[x].pc \notin {"handle", "forget"}
    BY <1>19 DEF Writing
  <2>4. ~mixed => \A s \in 1 .. ENTRIES : registry'[s].named = registry'[s].handle
    <3>1. ~mixed => \A s \in 1 .. ENTRIES : registry[s].named = registry[s].handle
      BY <2>3, Basics DEF NamesOK
    <3> QED BY <1>13, <3>1
  <2> QED BY <1>19, <2>1, <2>2, <2>3, <2>4 DEF NamesOK
<1> QED BY <1>14, <1>15, <1>16, <1>17, <1>18, <1>19, <1>20 DEF KInv

(* xTimerCreate sees that there is a timer queue.                          *)
LEMMA CheckQueueStep ==
  ASSUME K!Parameters, KInv, NEW a \in K!Actors, K!CheckQueue(a)
  PROVE  KInv'
<1>1. /\ K!Works(a) /\ work[a].pc = "make" /\ work[a].asks.kind = "timer"
      /\ K!CheckForValidListAndQueue(ids + 1) /\ K!Go(a, "fill_in")
      /\ phase' = phase /\ current' = current /\ tasksMade' = tasksMade /\ dying' = dying /\ mixed' = mixed
  BY DEF K!CheckQueue, K!At, K!start, K!deaths
<1>2. /\ work[a].asks \in Wishes /\ work[a].object = None /\ work[a].slot = 0
      /\ Has(work[a].asks, work[a].parts) /\ Short(work[a].parts)
  BY <1>1, Basics DEF ShapesOK, CallOK, Making
<1>3. /\ Only(a) /\ work'[a].pc = "fill_in" /\ work'[a].asks = work[a].asks
      /\ work'[a].parts = work[a].parts /\ work'[a].object = None /\ work'[a].slot = 0
  BY <1>1, <1>2, Basics, Goes DEF Making
<1>4. CallOK(work'[a])
  BY <1>1, <1>2, <1>3 DEF CallOK, Making, Naming, Unnaming, Later
<1>5. work[a].pc \notin Naming \cup Unnaming /\ work'[a].pc \notin Later
  BY <1>1, <1>3 DEF Naming, Unnaming, Later
<1>6. CASE taken' = taken /\ ids' = ids /\ misfreed' = misfreed /\ objects' = objects /\ registry' = registry
  <2>1. ids' \in Nat /\ ids' >= ids
    BY <1>6, Basics
  <2>2. KTyped'
    BY <1>1, <1>3, <1>6, Basics DEF KTyped, Only
  <2>3. ShapesOK'
    BY <1>3, <1>4, <1>6, <2>1, Basics, ShapesSame
  <2>4. MemoryOK'
    BY <1>3, <1>6, <2>1, Basics, MemorySame
  <2>5. RoomsOK'
    BY <1>3, <1>6, Basics, RoomsSame
  <2>6. StartOK'
    BY <1>1, <1>3, <1>6, Basics, StartSame
  <2>7. ClaimsOK' /\ NamesOK'
    BY <1>1, <1>3, <1>5, <1>6, <2>1, Apart
  <2> QED BY <2>2, <2>3, <2>4, <2>5, <2>6, <2>7 DEF KInv
<1>7. CASE /\ ~K!HasTimerQueue /\ K!Allowed(K!TimerQueue)
           /\ taken' = taken \cup {[id |-> ids + 1, bytes |-> K!Asked(K!TimerQueue)]}
           /\ objects' = objects \cup {K!WithTimerQueue(ids + 1)}
           /\ registry' = IF K!FreeSlots(registry) = {} THEN registry
                          ELSE [registry EXCEPT ![K!Least(K!FreeSlots(registry))] = [named |-> ids + 1, handle |-> ids + 1]]
           /\ ids' = ids + 1 /\ misfreed' = misfreed
  <2>1. phase # "running"
    BY <1>7, Basics DEF StartOK
  <2>2. a = "main" /\ phase = "main"
    <3>1. K!IdleTask.kind = "task" /\ K!TimerTask.kind = "task"
      BY DEF K!IdleTask, K!TimerTask
    <3> QED BY <1>1, <2>1, <3>1, Basics, WhoWorks DEF StartOK
  <2>3. K!WithTimerQueue(ids + 1).by = "timers" /\ K!WithTimerQueue(ids + 1).asks = K!TimerQueue
    BY DEF K!WithTimerQueue
  <2>4. StartOK'
    BY <1>1, <1>3, <1>7, <2>2, <2>3, Basics, StartQueue
  <2> QED BY <1>1, <1>3, <1>4, <1>5, <1>7, <2>1, <2>4, QueueMade
<1> QED BY <1>1, <1>6, <1>7 DEF K!CheckForValidListAndQueue, K!memory

-----------------------------------------------------------------------------
(* The registry is searched and written.                                   *)
LEMMA Registers ==
  ASSUME K!Parameters, KInv, NEW a \in K!Actors, Only(a), K!Works(a),
         work[a].pc \in Naming \cup Unnaming,
         work'[a].asks = None, work'[a].parts = work[a].parts, CallOK(work'[a]),
         \/ work'[a].object = None /\ work'[a].pc = "none"
         \/ work'[a].object = work[a].object /\ work[a].pc \in Naming /\ work'[a].pc \in Naming
         \/ work'[a].object = work[a].object /\ work[a].pc \in Unnaming /\ work'[a].pc \in Unnaming \cup {"free"},
         taken' = taken, ids' = ids, misfreed' = misfreed, objects' = objects, phase' = phase, current' = current,
         tasksMade' = tasksMade, dying' = dying, mixed' \in BOOLEAN,
         registry' \in [1 .. ENTRIES -> [named : Nat \cup {None}, handle : Nat \cup {None}]],
         NamesOK'
  PROVE  KInv'
<1>1. work[a].asks = None /\ work[a].pc # "none" /\ work'[a].pc # "make"
  BY Basics DEF ShapesOK, CallOK, Later, Naming, Unnaming
<1>2. ids' \in Nat /\ ids' >= ids
  BY Basics
<1>3. KTyped'
  BY Basics DEF KTyped, Only
<1>4. ShapesOK'
  BY <1>2, Basics, ShapesSame
<1>5. MemoryOK'
  BY <1>2, Basics, MemorySame
<1>6. RoomsOK'
  BY <1>1, Basics, RoomsSame
<1>7. StartOK'
  BY <1>1, Basics, StartSame
<1>8. ClaimsOK'
  <2>1. CASE work'[a].object = None /\ work'[a].pc = "none"
    <3> DEFINE N == {}
    <3>1. objects' = objects \cup N /\ \A n \in N : n.id \in Nat /\ n.id > ids
      OBVIOUS
    <3> HIDE DEF N
    <3>2. work'[a].pc \notin Later
      BY <2>1 DEF Later, Naming, Unnaming
    <3> QED BY <1>2, <2>1, <3>1, <3>2, Basics, ClaimsNone
  <2>2. CASE work'[a].object = work[a].object
    <3>1. \A p \in Naming : p \notin Unnaming \cup {"free"}
      BY DEF Naming, Unnaming
    <3>2. "none" \notin Naming \cup Unnaming \cup {"free"}
      BY DEF Naming, Unnaming
    <3> QED BY <2>2, <3>1, <3>2, Basics, ClaimsOn
  <2> QED BY <2>1, <2>2
<1> QED BY <1>3, <1>4, <1>5, <1>6, <1>7, <1>8 DEF KInv

(* What every call there starts from.                                      *)
LEMMA RegisterFacts ==
  ASSUME K!Parameters, KInv, NEW a \in K!Actors, work[a].pc \in Naming \cup Unnaming
  PROVE  /\ work[a].asks = None /\ work[a].object \in Nat /\ work[a].object # None /\ work[a].slot \in Nat
         /\ Short(work[a].parts) /\ work[a].parts \in Seq(Nat)
         /\ work[a].pc \in Naming => work[a].parts = <<>>
         /\ work[a].pc \in Writing => work[a].slot \in 1 .. ENTRIES
         /\ registry \in [1 .. ENTRIES -> [named : Nat \cup {None}, handle : Nat \cup {None}]]
         /\ mixed \in BOOLEAN
         /\ \A x \in K!Actors : x # a => work[x].object # work[a].object
<1>1. work[a] \in Call /\ CallOK(work[a]) /\ work[a].pc \in Later
  BY Basics DEF ShapesOK, Later
<1>2. work[a].parts \in Seq(Nat) /\ work[a].slot \in Nat
  BY <1>1 DEF Call
<1>3. /\ work[a].asks = None /\ work[a].object \in Nat /\ Short(work[a].parts)
      /\ work[a].pc \in Naming => work[a].parts = <<>>
      /\ work[a].pc \in Writing => work[a].slot \in 1 .. ENTRIES
  BY <1>1 DEF CallOK, Writing
<1>4. work[a].object # None
  BY <1>3, Basics
<1> QED BY <1>2, <1>3, <1>4, Basics DEF KTyped, ClaimsOK

(* As long as no calls were mixed, nobody else is in the registry.         *)
LEMMA Mixing ==
  ASSUME KInv, NEW a \in K!Actors, K!Mixes(a)
  PROVE  /\ mixed' \in BOOLEAN
         /\ ~mixed' => ~mixed /\ \A x \in K!Actors : x # a => work[x].pc \notin K!Registering
BY DEF K!Mixes, KInv, KTyped

(* One field of one slot is written.                                       *)
LEMMA RecordsWritten ==
  ASSUME NEW f \in [1 .. ENTRIES -> [named : Nat \cup {None}, handle : Nat \cup {None}]],
         NEW s \in 1 .. ENTRIES, NEW v \in Nat \cup {None}, NEW g
  PROVE  /\ g = [f EXCEPT ![s].named = v] =>
              /\ g \in [1 .. ENTRIES -> [named : Nat \cup {None}, handle : Nat \cup {None}]]
              /\ \A x \in 1 .. ENTRIES : g[x].handle = f[x].handle /\ g[x].named = IF x = s THEN v ELSE f[x].named
         /\ g = [f EXCEPT ![s].handle = v] =>
              /\ g \in [1 .. ENTRIES -> [named : Nat \cup {None}, handle : Nat \cup {None}]]
              /\ \A x \in 1 .. ENTRIES : g[x].named = f[x].named /\ g[x].handle = IF x = s THEN v ELSE f[x].handle
OBVIOUS

(* A queue looks for its slot.                                             *)
LEMMA SearchStep ==
  ASSUME K!Parameters, KInv, NEW a \in K!Actors, K!Search(a)
  PROVE  KInv'
<1> DEFINE slot == K!SlotFor(work[a].object)
<1>1. /\ K!Works(a) /\ work[a].pc = "search" /\ K!Mixes(a)
      /\ work' = [work EXCEPT ![a] = IF slot = 0 THEN K!Nothing ELSE [@ EXCEPT !.pc = "name", !.slot = slot]]
      /\ taken' = taken /\ ids' = ids /\ misfreed' = misfreed /\ objects' = objects /\ phase' = phase
      /\ current' = current /\ tasksMade' = tasksMade /\ dying' = dying /\ registry' = registry
  BY DEF K!Search, K!At, K!memory, K!start, K!deaths
<1>2. work[a].pc \in Naming /\ work[a].pc \in Naming \cup Unnaming
  BY <1>1 DEF Naming
<1>3. /\ work[a].asks = None /\ work[a].object \in Nat /\ work[a].object # None /\ work[a].slot \in Nat
      /\ Short(work[a].parts) /\ work[a].parts = <<>>
      /\ registry \in [1 .. ENTRIES -> [named : Nat \cup {None}, handle : Nat \cup {None}]]
      /\ \A x \in K!Actors : x # a => work[x].object # work[a].object
  BY <1>2, RegisterFacts
<1>4. slot # 0 => slot \in 1 .. ENTRIES
  <2>1. \A s \in 1 .. ENTRIES : registry[s].handle # work[a].object
    BY <1>2, Basics DEF NamesOK
  <2>2. {s \in DOMAIN registry : registry[s].handle = work[a].object} = {}
    BY <1>3, <2>1
  <2>3. K!FreeSlots(registry) \subseteq 1 .. ENTRIES /\ K!FreeSlots(registry) \in SUBSET Nat
    BY <1>3 DEF K!FreeSlots
  <2>4. K!FreeSlots(registry) # {} => K!Least(K!FreeSlots(registry)) \in 1 .. ENTRIES
    BY <2>3, LeastIn
  <2>5. slot = IF K!FreeSlots(registry) # {} THEN K!Least(K!FreeSlots(registry)) ELSE 0
    BY <2>2 DEF K!SlotFor
  <2> QED BY <2>4, <2>5
<1> HIDE DEF slot
<1>5. /\ mixed' \in BOOLEAN
      /\ ~mixed' => ~mixed /\ \A x \in K!Actors : x # a => work[x].pc \notin K!Registering
  BY <1>1, Basics, Mixing
<1>6. /\ Only(a) /\ work'[a].asks = None /\ work'[a].parts = work[a].parts
      /\ \/ work'[a] = K!Nothing
         \/ /\ work'[a].object = work[a].object /\ work'[a].pc = "name" /\ work'[a].slot = slot
            /\ slot \in 1 .. ENTRIES
  <2>1. CASE slot = 0
    <3>1. work' = [work EXCEPT ![a] = K!Nothing]
      BY <1>1, <2>1
    <3> QED BY <1>3, <3>1, Basics, Idles, Changed
  <2>2. CASE slot # 0
    <3> DEFINE c == [pc |-> "name", asks |-> None, parts |-> work[a].parts, object |-> work[a].object, slot |-> slot]
    <3>1. c \in Call
      BY <1>3, <1>4, <2>2, Empty DEF Call, Naming
    <3>2. [work[a] EXCEPT !.pc = "name", !.slot = slot] = c
      <4>1. work[a] \in Call
        BY Basics
      <4> DEFINE d == [pc |-> "name", asks |-> None, parts |-> work[a].parts, object |-> work[a].object,
                       slot |-> work[a].slot]
      <4>2. [work[a] EXCEPT !.pc = "name"] = d
        BY <1>3, <4>1 DEF Call
      <4>3. [d EXCEPT !.slot = slot] = c
        OBVIOUS
      <4> QED BY <4>2, <4>3
    <3>3. work' = [work EXCEPT ![a] = c]
      BY <1>1, <2>2, <3>2
    <3>4. Only(a) /\ work'[a] = c
      BY <3>1, <3>3, Basics, Changed
    <3> QED BY <1>4, <2>2, <3>4
  <2> QED BY <2>1, <2>2
<1>7. CallOK(work'[a])
  <2>1. CASE work'[a] = K!Nothing
    BY <2>1, Basics, Idles
  <2>2. CASE work'[a].object = work[a].object /\ work'[a].pc = "name" /\ work'[a].slot = slot /\ slot \in 1 .. ENTRIES
    BY <1>3, <1>6, <2>2 DEF CallOK, Making, Naming, Unnaming, Later
  <2> QED BY <1>6, <2>1, <2>2
<1>8. \/ work'[a].object = None /\ work'[a].pc = "none"
      \/ work'[a].object = work[a].object /\ work[a].pc \in Naming /\ work'[a].pc \in Naming
  BY <1>2, <1>6, Idles DEF Naming
<1>9. NamesOK'
  <2>1. \A x \in K!Actors : x # a => work'[x] = work[x]
    BY <1>6 DEF Only
  <2>2. work'[a].pc \in {"none", "name"} /\ work'[a].object \in {None, work[a].object}
    BY <1>6, Idles
  <2>3. \A s \in 1 .. ENTRIES : registry[s].handle # None =>
          \/ \E x \in K!Actors : work'[x].object = registry[s].handle /\ work'[x].pc \in Unnaming
          \/ \E o \in objects' : o.id = registry[s].handle /\ o.asks.kind \in K!Queues
    BY <1>1, <2>1, Basics DEF NamesOK, Unnaming
  <2>4. \A x \in K!Actors : \A s \in 1 .. ENTRIES :
          /\ work'[x].pc \in Naming => registry[s].handle # work'[x].object
          /\ work'[x].pc \in {"unname", "forget"} /\ registry[s].handle = work'[x].object => s = work'[x].slot
    BY <1>2, <1>6, <2>1, <2>2, Basics, Idles DEF NamesOK, Naming
  <2>5. ~mixed' =>
          /\ \A x, c \in K!Actors : work'[x].pc \in Writing /\ work'[c].pc \in Writing => x = c
          /\ \A s \in 1 .. ENTRIES : registry[s].named = registry[s].handle
               \/ \E x \in K!Actors : work'[x].pc \in {"handle", "forget"} /\ work'[x].slot = s
          /\ \A x \in K!Actors : work'[x].pc = "handle" => registry[work'[x].slot].named = work'[x].object
          /\ \A x \in K!Actors : work'[x].pc = "forget" => registry[work'[x].slot].named = None
    BY <1>1, <1>5, <2>1, <2>2, Basics DEF NamesOK, Writing, K!Registering
  <2> QED BY <1>1, <2>3, <2>4, <2>5, Basics DEF NamesOK
<1> QED BY <1>1, <1>2, <1>3, <1>5, <1>6, <1>7, <1>8, <1>9, Registers

(* Its name is written.                                                    *)
LEMMA WriteNameStep ==
  ASSUME K!Parameters, KInv, NEW a \in K!Actors, K!WriteName(a)
  PROVE  KInv'
<1>1. /\ K!Works(a) /\ work[a].pc = "name" /\ K!Mixes(a) /\ K!Go(a, "handle")
      /\ registry' = [registry EXCEPT ![work[a].slot].named = work[a].object]
      /\ taken' = taken /\ ids' = ids /\ misfreed' = misfreed /\ objects' = objects /\ phase' = phase
      /\ current' = current /\ tasksMade' = tasksMade /\ dying' = dying
  BY DEF K!WriteName, K!At, K!memory, K!start, K!deaths
<1>2. work[a].pc \in Naming /\ work[a].pc \in Naming \cup Unnaming /\ work[a].pc \in Writing
  BY <1>1 DEF Naming, Writing
<1>3. /\ work[a].asks = None /\ work[a].object \in Nat /\ work[a].object # None /\ work[a].slot \in 1 .. ENTRIES
      /\ Short(work[a].parts) /\ work[a].parts = <<>>
      /\ registry \in [1 .. ENTRIES -> [named : Nat \cup {None}, handle : Nat \cup {None}]]
      /\ \A x \in K!Actors : x # a => work[x].object # work[a].object
  BY <1>2, RegisterFacts
<1>4. /\ Only(a) /\ work'[a].pc = "handle" /\ work'[a].asks = work[a].asks /\ work'[a].parts = work[a].parts
      /\ work'[a].object = work[a].object /\ work'[a].slot = work[a].slot
  BY <1>1, Basics, Goes DEF Naming
<1>5. /\ mixed' \in BOOLEAN
      /\ ~mixed' => ~mixed /\ \A x \in K!Actors : x # a => work[x].pc \notin K!Registering
  BY <1>1, Basics, Mixing
<1>6. /\ registry' \in [1 .. ENTRIES -> [named : Nat \cup {None}, handle : Nat \cup {None}]]
      /\ \A s \in 1 .. ENTRIES : /\ registry'[s].handle = registry[s].handle
                                 /\ registry'[s].named = IF s = work[a].slot THEN work[a].object ELSE registry[s].named
  BY <1>1, <1>3, RecordsWritten
<1>7. CallOK(work'[a])
  BY <1>3, <1>4 DEF CallOK, Making, Naming, Unnaming, Later
<1>8. work'[a].pc \in Naming
  BY <1>4 DEF Naming
<1>9. NamesOK'
  <2>1. \A x \in K!Actors : x # a => work'[x] = work[x]
    BY <1>4 DEF Only
  <2>2. \A s \in 1 .. ENTRIES : registry'[s].handle # None =>
          \/ \E x \in K!Actors : work'[x].object = registry'[s].handle /\ work'[x].pc \in Unnaming
          \/ \E o \in objects' : o.id = registry'[s].handle /\ o.asks.kind \in K!Queues
    BY <1>1, <1>6, <2>1, Basics DEF NamesOK, Unnaming
  <2>3. \A x \in K!Actors : \A s \in 1 .. ENTRIES :
          /\ work'[x].pc \in Naming => registry'[s].handle # work'[x].object
          /\ work'[x].pc \in {"unname", "forget"} /\ registry'[s].handle = work'[x].object => s = work'[x].slot
    BY <1>2, <1>4, <1>6, <2>1, Basics DEF NamesOK
  <2>4. ~mixed' =>
          /\ \A x, c \in K!Actors : work'[x].pc \in Writing /\ work'[c].pc \in Writing => x = c
          /\ \A s \in 1 .. ENTRIES : registry'[s].named = registry'[s].handle
               \/ \E x \in K!Actors : work'[x].pc \in {"handle", "forget"} /\ work'[x].slot = s
          /\ \A x \in K!Actors : work'[x].pc = "handle" => registry'[work'[x].slot].named = work'[x].object
          /\ \A x \in K!Actors : work'[x].pc = "forget" => registry'[work'[x].slot].named = None
    BY <1>1, <1>3, <1>4, <1>5, <1>6, <2>1, Basics DEF NamesOK, Writing, K!Registering
  <2> QED BY <1>6, <2>2, <2>3, <2>4, Basics DEF NamesOK
<1> QED BY <1>1, <1>2, <1>3, <1>4, <1>5, <1>6, <1>7, <1>8, <1>9, Registers

(* Its handle is written.                                                  *)
LEMMA WriteHandleStep ==
  ASSUME K!Parameters, KInv, NEW a \in K!Actors, K!WriteHandle(a)
  PROVE  KInv'
<1>1. /\ K!Works(a) /\ work[a].pc = "handle" /\ K!Mixes(a) /\ work' = [work EXCEPT ![a] = K!Nothing]
      /\ registry' = [registry EXCEPT ![work[a].slot].handle = work[a].object]
      /\ taken' = taken /\ ids' = ids /\ misfreed' = misfreed /\ objects' = objects /\ phase' = phase
      /\ current' = current /\ tasksMade' = tasksMade /\ dying' = dying
  BY DEF K!WriteHandle, K!At, K!memory, K!start, K!deaths
<1>2. work[a].pc \in Naming /\ work[a].pc \in Naming \cup Unnaming /\ work[a].pc \in Writing
  BY <1>1 DEF Naming, Writing
<1>3. /\ work[a].asks = None /\ work[a].object \in Nat /\ work[a].object # None /\ work[a].slot \in 1 .. ENTRIES
      /\ work[a].parts = <<>>
      /\ registry \in [1 .. ENTRIES -> [named : Nat \cup {None}, handle : Nat \cup {None}]]
      /\ \A x \in K!Actors : x # a => work[x].object # work[a].object
  BY <1>2, RegisterFacts
<1>4. Only(a) /\ work'[a] = K!Nothing
  BY <1>1, Basics, Idles, Changed
<1>5. /\ mixed' \in BOOLEAN
      /\ ~mixed' => ~mixed /\ \A x \in K!Actors : x # a => work[x].pc \notin K!Registering
  BY <1>1, Basics, Mixing
<1>6. /\ registry' \in [1 .. ENTRIES -> [named : Nat \cup {None}, handle : Nat \cup {None}]]
      /\ \A s \in 1 .. ENTRIES : /\ registry'[s].named = registry[s].named
                                 /\ registry'[s].handle = IF s = work[a].slot THEN work[a].object ELSE registry[s].handle
  BY <1>1, <1>3, RecordsWritten
<1>7. NamesOK'
  <2>1. \A x \in K!Actors : x # a => work'[x] = work[x]
    BY <1>4 DEF Only
  <2>2. PICK o \in objects : o.id = work[a].object /\ o.asks.kind \in K!Queues
    BY <1>2, Basics DEF ClaimsOK
  <2>3. \A s \in 1 .. ENTRIES : registry[s].handle # work[a].object
    BY <1>2, Basics DEF NamesOK
  <2>4. \A s \in 1 .. ENTRIES : registry'[s].handle # None =>
          \/ \E x \in K!Actors : work'[x].object = registry'[s].handle /\ work'[x].pc \in Unnaming
          \/ \E p \in objects' : p.id = registry'[s].handle /\ p.asks.kind \in K!Queues
    BY <1>1, <1>6, <2>1, <2>2, Basics DEF NamesOK, Unnaming
  <2>5. \A s, x \in 1 .. ENTRIES : registry'[s].handle # None /\ registry'[s].handle = registry'[x].handle => s = x
    BY <1>6, <2>3, Basics DEF NamesOK
  <2>6. \A x \in K!Actors : \A s \in 1 .. ENTRIES :
          /\ work'[x].pc \in Naming => registry'[s].handle # work'[x].object
          /\ work'[x].pc \in {"unname", "forget"} /\ registry'[s].handle = work'[x].object => s = work'[x].slot
    BY <1>3, <1>4, <1>6, <2>1, Basics, Idles DEF NamesOK, Naming
  <2>7. ~mixed' =>
          /\ \A x, c \in K!Actors : work'[x].pc \in Writing /\ work'[c].pc \in Writing => x = c
          /\ \A s \in 1 .. ENTRIES : registry'[s].named = registry'[s].handle
               \/ \E x \in K!Actors : work'[x].pc \in {"handle", "forget"} /\ work'[x].slot = s
          /\ \A x \in K!Actors : work'[x].pc = "handle" => registry'[work'[x].slot].named = work'[x].object
          /\ \A x \in K!Actors : work'[x].pc = "forget" => registry'[work'[x].slot].named = None
    <3>1. \A x \in K!Actors : ~mixed' => work'[x].pc \notin Writing
      BY <1>4, <1>5, <2>1, Idles DEF Writing, K!Registering
    <3>2. ~mixed' => \A s \in 1 .. ENTRIES : registry'[s].named = registry'[s].handle
      <4>1. ~mixed' => \A s \in 1 .. ENTRIES : s # work[a].slot => registry[s].named = registry[s].handle
        BY <1>5, Basics DEF NamesOK, K!Registering
      <4>2. ~mixed' => registry[work[a].slot].named = work[a].object
        BY <1>1, <1>5, Basics DEF NamesOK
      <4> QED BY <1>3, <1>6, <4>1, <4>2
    <3> QED BY <3>1, <3>2 DEF Writing
  <2> QED BY <2>4, <2>5, <2>6, <2>7 DEF NamesOK
<1> QED BY <1>1, <1>2, <1>3, <1>4, <1>5, <1>6, <1>7, Basics, Idles, Registers

(* A queue that is deleted looks for its slot.                             *)
LEMMA UnregisterStep ==
  ASSUME K!Parameters, KInv, NEW a \in K!Actors, K!Unregister(a)
  PROVE  KInv'
<1> DEFINE same == {s \in DOMAIN registry : registry[s].handle = work[a].object}
           pc == IF same = {} THEN "free" ELSE "unname"
           slot == IF same = {} THEN 0 ELSE K!Least(same)
<1>1. /\ K!Works(a) /\ work[a].pc = "unregister" /\ K!Mixes(a)
      /\ work' = [work EXCEPT ![a].pc = pc, ![a].slot = slot]
      /\ taken' = taken /\ ids' = ids /\ misfreed' = misfreed /\ objects' = objects /\ phase' = phase
      /\ current' = current /\ tasksMade' = tasksMade /\ dying' = dying /\ registry' = registry
  BY DEF K!Unregister, K!At, K!memory, K!start, K!deaths
<1>2. work[a].pc \in Unnaming /\ work[a].pc \in Naming \cup Unnaming
  BY <1>1 DEF Unnaming
<1>3. /\ work[a].asks = None /\ work[a].object \in Nat /\ work[a].object # None
      /\ Short(work[a].parts)
      /\ registry \in [1 .. ENTRIES -> [named : Nat \cup {None}, handle : Nat \cup {None}]]
      /\ \A x \in K!Actors : x # a => work[x].object # work[a].object
  BY <1>2, RegisterFacts
<1>4. /\ \A s \in 1 .. ENTRIES : registry[s].handle = work[a].object <=> s \in same
      /\ \/ pc = "free" /\ same = {} /\ slot = 0
         \/ pc = "unname" /\ slot \in same /\ slot \in 1 .. ENTRIES
  <2>1. \A s \in 1 .. ENTRIES : registry[s].handle = work[a].object <=> s \in same
    BY <1>3
  <2>2. same \subseteq 1 .. ENTRIES /\ same \in SUBSET Nat
    BY <1>3
  <2> HIDE DEF same
  <2>3. same # {} => K!Least(same) \in same
    BY <2>2, LeastIn
  <2> QED BY <2>1, <2>2, <2>3
<1> HIDE DEF same, pc, slot
<1>5. /\ mixed' \in BOOLEAN
      /\ ~mixed' => ~mixed /\ \A x \in K!Actors : x # a => work[x].pc \notin K!Registering
  BY <1>1, Basics, Mixing
<1>6. /\ Only(a) /\ work'[a].pc = pc /\ work'[a].asks = None /\ work'[a].parts = work[a].parts
      /\ work'[a].object = work[a].object /\ work'[a].slot = slot
  <2>1. pc \in {"none", "free"} \cup Making \cup Naming \cup Unnaming /\ slot \in Nat
    BY <1>4 DEF Unnaming
  <2>2. work[a] \in Call /\ work \in [K!Actors -> Call]
    BY Basics
  <2>3. /\ work'[a].pc = pc /\ work'[a].asks = work[a].asks /\ work'[a].parts = work[a].parts
        /\ work'[a].object = work[a].object /\ work'[a].slot = slot
    BY <1>1, <2>2 DEF Call
  <2>4. Only(a)
    BY <1>1, <2>1, <2>2 DEF Only, Call
  <2> QED BY <1>3, <2>3, <2>4
<1>7. CallOK(work'[a])
  BY <1>3, <1>4, <1>6 DEF CallOK, Making, Naming, Unnaming, Later
<1>8. work'[a].pc \in Unnaming \cup {"free"}
  BY <1>4, <1>6 DEF Unnaming
<1>9. NamesOK'
  <2>1. \A x \in K!Actors : x # a => work'[x] = work[x]
    BY <1>6 DEF Only
  <2>2. \A s \in 1 .. ENTRIES : registry[s].handle # None =>
          \/ \E x \in K!Actors : work'[x].object = registry[s].handle /\ work'[x].pc \in Unnaming
          \/ \E o \in objects' : o.id = registry[s].handle /\ o.asks.kind \in K!Queues
    BY <1>1, <1>4, <1>6, <2>1, Basics DEF NamesOK, Unnaming
  <2>3. \A x \in K!Actors : \A s \in 1 .. ENTRIES :
          /\ work'[x].pc \in Naming => registry[s].handle # work'[x].object
          /\ work'[x].pc \in {"unname", "forget"} /\ registry[s].handle = work'[x].object => s = work'[x].slot
    BY <1>3, <1>4, <1>6, <2>1, Basics DEF NamesOK, Naming
  <2>4. ~mixed' =>
          /\ \A x, c \in K!Actors : work'[x].pc \in Writing /\ work'[c].pc \in Writing => x = c
          /\ \A s \in 1 .. ENTRIES : registry[s].named = registry[s].handle
               \/ \E x \in K!Actors : work'[x].pc \in {"handle", "forget"} /\ work'[x].slot = s
          /\ \A x \in K!Actors : work'[x].pc = "handle" => registry[work'[x].slot].named = work'[x].object
          /\ \A x \in K!Actors : work'[x].pc = "forget" => registry[work'[x].slot].named = None
    BY <1>1, <1>4, <1>5, <1>6, <2>1, Basics DEF NamesOK, Writing, K!Registering
  <2> QED BY <1>1, <2>2, <2>3, <2>4, Basics DEF NamesOK
<1> QED BY <1>1, <1>2, <1>3, <1>5, <1>6, <1>7, <1>8, <1>9, Registers

(* Its name is taken away.                                                 *)
LEMMA UnnameStep ==
  ASSUME K!Parameters, KInv, NEW a \in K!Actors, K!Unname(a)
  PROVE  KInv'
<1>1. /\ K!Works(a) /\ work[a].pc = "unname" /\ K!Mixes(a) /\ K!Go(a, "forget")
      /\ registry' = [registry EXCEPT ![work[a].slot].named = None]
      /\ taken' = taken /\ ids' = ids /\ misfreed' = misfreed /\ objects' = objects /\ phase' = phase
      /\ current' = current /\ tasksMade' = tasksMade /\ dying' = dying
  BY DEF K!Unname, K!At, K!memory, K!start, K!deaths
<1>2. work[a].pc \in Unnaming /\ work[a].pc \in Naming \cup Unnaming /\ work[a].pc \in Writing
  BY <1>1 DEF Unnaming, Writing
<1>3. /\ work[a].asks = None /\ work[a].object \in Nat /\ work[a].object # None /\ work[a].slot \in 1 .. ENTRIES
      /\ Short(work[a].parts)
      /\ registry \in [1 .. ENTRIES -> [named : Nat \cup {None}, handle : Nat \cup {None}]]
      /\ \A x \in K!Actors : x # a => work[x].object # work[a].object
  BY <1>2, RegisterFacts
<1>4. /\ Only(a) /\ work'[a].pc = "forget" /\ work'[a].asks = work[a].asks /\ work'[a].parts = work[a].parts
      /\ work'[a].object = work[a].object /\ work'[a].slot = work[a].slot
  BY <1>1, Basics, Goes DEF Unnaming
<1>5. /\ mixed' \in BOOLEAN
      /\ ~mixed' => ~mixed /\ \A x \in K!Actors : x # a => work[x].pc \notin K!Registering
  BY <1>1, Basics, Mixing
<1>6. /\ registry' \in [1 .. ENTRIES -> [named : Nat \cup {None}, handle : Nat \cup {None}]]
      /\ \A s \in 1 .. ENTRIES : /\ registry'[s].handle = registry[s].handle
                                 /\ registry'[s].named = IF s = work[a].slot THEN None ELSE registry[s].named
  BY <1>1, <1>3, RecordsWritten
<1>7. CallOK(work'[a])
  BY <1>3, <1>4 DEF CallOK, Making, Naming, Unnaming, Later
<1>8. work'[a].pc \in Unnaming
  BY <1>4 DEF Unnaming
<1>9. NamesOK'
  <2>1. \A x \in K!Actors : x # a => work'[x] = work[x]
    BY <1>4 DEF Only
  <2>2. \A s \in 1 .. ENTRIES : registry'[s].handle # None =>
          \/ \E x \in K!Actors : work'[x].object = registry'[s].handle /\ work'[x].pc \in Unnaming
          \/ \E o \in objects' : o.id = registry'[s].handle /\ o.asks.kind \in K!Queues
    BY <1>1, <1>4, <1>6, <1>8, <2>1, Basics DEF NamesOK
  <2>3. \A x \in K!Actors : \A s \in 1 .. ENTRIES :
          /\ work'[x].pc \in Naming => registry'[s].handle # work'[x].object
          /\ work'[x].pc \in {"unname", "forget"} /\ registry'[s].handle = work'[x].object => s = work'[x].slot
    BY <1>1, <1>4, <1>6, <2>1, Basics DEF NamesOK, Naming
  <2>4. ~mixed' =>
          /\ \A x, c \in K!Actors : work'[x].pc \in Writing /\ work'[c].pc \in Writing => x = c
          /\ \A s \in 1 .. ENTRIES : registry'[s].named = registry'[s].handle
               \/ \E x \in K!Actors : work'[x].pc \in {"handle", "forget"} /\ work'[x].slot = s
          /\ \A x \in K!Actors : work'[x].pc = "handle" => registry'[work'[x].slot].named = work'[x].object
          /\ \A x \in K!Actors : work'[x].pc = "forget" => registry'[work'[x].slot].named = None
    BY <1>1, <1>3, <1>4, <1>5, <1>6, <2>1, Basics DEF NamesOK, Writing, K!Registering
  <2> QED BY <1>6, <2>2, <2>3, <2>4, Basics DEF NamesOK
<1> QED BY <1>1, <1>2, <1>3, <1>4, <1>5, <1>6, <1>7, <1>8, <1>9, Registers

(* Its handle is taken away.                                               *)
LEMMA ForgetStep ==
  ASSUME K!Parameters, KInv, NEW a \in K!Actors, K!Forget(a)
  PROVE  KInv'
<1>1. /\ K!Works(a) /\ work[a].pc = "forget" /\ K!Mixes(a) /\ K!Go(a, "free")
      /\ registry' = [registry EXCEPT ![work[a].slot].handle = None]
      /\ taken' = taken /\ ids' = ids /\ misfreed' = misfreed /\ objects' = objects /\ phase' = phase
      /\ current' = current /\ tasksMade' = tasksMade /\ dying' = dying
  BY DEF K!Forget, K!At, K!memory, K!start, K!deaths
<1>2. work[a].pc \in Unnaming /\ work[a].pc \in Naming \cup Unnaming /\ work[a].pc \in Writing
  BY <1>1 DEF Unnaming, Writing
<1>3. /\ work[a].asks = None /\ work[a].object \in Nat /\ work[a].object # None /\ work[a].slot \in 1 .. ENTRIES
      /\ Short(work[a].parts)
      /\ registry \in [1 .. ENTRIES -> [named : Nat \cup {None}, handle : Nat \cup {None}]]
      /\ \A x \in K!Actors : x # a => work[x].object # work[a].object
  BY <1>2, RegisterFacts
<1>4. /\ Only(a) /\ work'[a].pc = "free" /\ work'[a].asks = work[a].asks /\ work'[a].parts = work[a].parts
      /\ work'[a].object = work[a].object /\ work'[a].slot = work[a].slot
  BY <1>1, Basics, Goes
<1>5. /\ mixed' \in BOOLEAN
      /\ ~mixed' => ~mixed /\ \A x \in K!Actors : x # a => work[x].pc \notin K!Registering
  BY <1>1, Basics, Mixing
<1>6. /\ registry' \in [1 .. ENTRIES -> [named : Nat \cup {None}, handle : Nat \cup {None}]]
      /\ \A s \in 1 .. ENTRIES : /\ registry'[s].named = registry[s].named
                                 /\ registry'[s].handle = IF s = work[a].slot THEN None ELSE registry[s].handle
  BY <1>1, <1>3, RecordsWritten
<1>7. CallOK(work'[a])
  BY <1>3, <1>4 DEF CallOK, Making, Naming, Unnaming, Later
<1>8. NamesOK'
  <2>1. \A x \in K!Actors : x # a => work'[x] = work[x]
    BY <1>4 DEF Only
  <2>2. \A s \in 1 .. ENTRIES : registry[s].handle = work[a].object => s = work[a].slot
    BY <1>1, Basics DEF NamesOK
  <2>3. \A s \in 1 .. ENTRIES : registry'[s].handle # None =>
          \/ \E x \in K!Actors : work'[x].object = registry'[s].handle /\ work'[x].pc \in Unnaming
          \/ \E o \in objects' : o.id = registry'[s].handle /\ o.asks.kind \in K!Queues
    <3>1. ASSUME NEW s \in 1 .. ENTRIES, registry'[s].handle # None
          PROVE  registry'[s].handle = registry[s].handle /\ registry[s].handle # work[a].object
      BY <1>6, <2>2, <3>1
    <3> QED BY <1>1, <2>1, <3>1, Basics DEF NamesOK
  <2>4. \A s, x \in 1 .. ENTRIES : registry'[s].handle # None /\ registry'[s].handle = registry'[x].handle => s = x
    BY <1>6, Basics DEF NamesOK
  <2>5. \A x \in K!Actors : \A s \in 1 .. ENTRIES :
          /\ work'[x].pc \in Naming => registry'[s].handle # work'[x].object
          /\ work'[x].pc \in {"unname", "forget"} /\ registry'[s].handle = work'[x].object => s = work'[x].slot
    <3>1. \A x \in K!Actors : x # a /\ work[x].pc \in Naming \cup Unnaming => work[x].object # None
      BY RegisterFacts
    <3>2. work'[a].pc \notin Naming \cup Unnaming
      BY <1>4 DEF Naming, Unnaming
    <3> QED BY <1>6, <2>1, <3>1, <3>2, Basics DEF NamesOK, Unnaming
  <2>6. ~mixed' =>
          /\ \A x, c \in K!Actors : work'[x].pc \in Writing /\ work'[c].pc \in Writing => x = c
          /\ \A s \in 1 .. ENTRIES : registry'[s].named = registry'[s].handle
               \/ \E x \in K!Actors : work'[x].pc \in {"handle", "forget"} /\ work'[x].slot = s
          /\ \A x \in K!Actors : work'[x].pc = "handle" => registry'[work'[x].slot].named = work'[x].object
          /\ \A x \in K!Actors : work'[x].pc = "forget" => registry'[work'[x].slot].named = None
    <3>1. \A x \in K!Actors : ~mixed' => work'[x].pc \notin Writing
      BY <1>4, <1>5, <2>1 DEF Writing, K!Registering
    <3>2. ~mixed' => \A s \in 1 .. ENTRIES : registry'[s].named = registry'[s].handle
      <4>1. ~mixed' => \A s \in 1 .. ENTRIES : s # work[a].slot => registry[s].named = registry[s].handle
        BY <1>5, Basics DEF NamesOK, K!Registering
      <4>2. ~mixed' => registry[work[a].slot].named = None
        BY <1>1, <1>5, Basics DEF NamesOK
      <4> QED BY <1>3, <1>6, <4>1, <4>2
    <3> QED BY <3>1, <3>2 DEF Writing
  <2> QED BY <2>3, <2>4, <2>5, <2>6 DEF NamesOK
<1> QED BY <1>1, <1>2, <1>3, <1>4, <1>5, <1>6, <1>7, <1>8, Registers

-----------------------------------------------------------------------------
(* Deleting.                                                               *)
LEMMA Deleted ==
  ASSUME K!Parameters, KInv, NEW a \in K!Actors, a # "main", phase = "running",
         work[a].pc = "none",
         NEW o \in objects, objects' = objects \ {o}, K!Unclaimed(o),
         o.asks \notin {K!IdleTask, K!TimerTask, K!TimerQueue},
         NEW pc, pc = (IF o.asks.kind \in K!Queues THEN "unregister" ELSE "free"), K!Claim(a, o, pc),
         tasksMade' = IF o \in K!Tasks THEN tasksMade - 1 ELSE tasksMade,
         dying' \in Seq(Thing),
         \A i \in DOMAIN dying' :
           /\ dying'[i] \in K!Tasks /\ dying'[i].asks \notin {K!IdleTask, K!TimerTask, K!TimerQueue}
           /\ \A j \in DOMAIN dying' : dying'[i].id = dying'[j].id => i = j
           /\ \A x \in K!Actors : work[x].object # dying'[i].id
           /\ dying'[i].id # o.id,
         taken' = taken, ids' = ids, misfreed' = misfreed, phase' = phase, current' = current,
         registry' = registry, mixed' = mixed
  PROVE  KInv'
<1>1. /\ Short(K!ToFree(o)) /\ (\A b : IsIn(b, K!ToFree(o)) <=> b # 0 /\ Owns(o, b)) /\ o.id \in Nat
      /\ K!ToFree(o) \in Seq(Nat)
  <2>1. o \in Thing /\ ObjectOK(o) /\ o.id \in Nat
    BY Basics DEF ShapesOK
  <2> QED BY <2>1, ObjectFacts, ShortFacts
<1> DEFINE parts == K!ToFree(o)
           c == [pc |-> pc, asks |-> None, parts |-> parts, object |-> o.id, slot |-> 0]
<1>2. [K!Nothing EXCEPT !.pc = pc, !.object = o.id, !.parts = parts] = c
  <2> DEFINE d == [pc |-> pc, asks |-> None, parts |-> <<>>, object |-> None, slot |-> 0]
             e == [pc |-> pc, asks |-> None, parts |-> <<>>, object |-> o.id, slot |-> 0]
  <2>1. [K!Nothing EXCEPT !.pc = pc] = d
    BY DEF K!Nothing
  <2>2. [d EXCEPT !.object = o.id] = e
    OBVIOUS
  <2> HIDE DEF parts
  <2>3. [e EXCEPT !.parts = parts] = c
    OBVIOUS
  <2> QED BY <2>1, <2>2, <2>3
<1>3. pc \in {"unregister", "free"} /\ (o.asks.kind \in K!Queues <=> pc = "unregister")
  OBVIOUS
<1>4. c \in Call
  BY <1>1, <1>3 DEF Call, Unnaming
<1>5. work' = [work EXCEPT ![a] = c]
  BY <1>2 DEF K!Claim
<1>6. Only(a) /\ work'[a] = c
  BY <1>4, <1>5, Basics, Changed
<1>7. /\ work'[a].pc = pc /\ work'[a].asks = None /\ work'[a].parts = parts /\ work'[a].object = o.id
      /\ work'[a].slot = 0
  BY <1>6
<1> HIDE DEF c, parts
<1>8. work[a] = K!Nothing /\ work[a].pc \notin Naming \cup Unnaming
  BY Basics DEF ShapesOK, CallOK, Naming, Unnaming
<1>9. KTyped'
  <2>1. tasksMade' \in Int /\ IsFiniteSet(objects') /\ objects' \subseteq Thing
    BY Basics, FS_RemoveElement DEF KTyped
  <2> QED BY <1>6, <2>1, Basics DEF KTyped, Only
<1>10. ShapesOK'
  <2>1. CallOK(work'[a])
    BY <1>1, <1>3, <1>7 DEF CallOK, Making, Naming, Unnaming, Later, parts
  <2>2. ids' \in Nat /\ ids' >= ids /\ objects' \subseteq objects
    BY Basics
  <2> QED BY <1>6, <2>1, <2>2, Basics, ShapesSame
<1>11. MemoryOK'
  <2>1. \A b : ~IsIn(b, work[a].parts)
    BY <1>8, Idles, Empty
  <2>2. \A b : IsIn(b, work'[a].parts) <=> b # K!CallersMemory /\ Owns(o, b)
    BY <1>1, <1>7 DEF K!CallersMemory, parts
  <2> QED BY <1>6, <2>1, <2>2, Basics, MemoryLeft
<1>12. RoomsOK'
  <2>1. work'[a].pc # "make" /\ objects' \subseteq objects /\ taken' \subseteq taken
    BY <1>3, <1>7
  <2> QED BY <1>6, <2>1, Basics, RoomsSame
<1>13. StartOK'
  BY <1>6, Basics, StartDeleted
<1>14. ClaimsOK'
  BY <1>3, <1>6, <1>7, Basics, ClaimsTaken
<1>15. NamesOK'
  BY <1>6, <1>7, <1>8, Basics, RegistryLeft
<1> QED BY <1>9, <1>10, <1>11, <1>12, <1>13, <1>14, <1>15 DEF KInv

(* What the tasks are that wait for the idle task.                         *)
LEMMA DyingFacts ==
  ASSUME K!Parameters, KInv
  PROVE  /\ dying \in Seq(Thing) /\ dying \in Seq(K!Tasks)
         /\ \A i \in DOMAIN dying :
              /\ dying[i] \in K!Tasks /\ dying[i].asks \notin {K!IdleTask, K!TimerTask, K!TimerQueue}
              /\ \A j \in DOMAIN dying : dying[i].id = dying[j].id => i = j
              /\ \A x \in K!Actors : work[x].object # dying[i].id
<1>1. \A i \in DOMAIN dying :
        /\ dying[i] \in K!Tasks /\ dying[i].asks \notin {K!IdleTask, K!TimerTask, K!TimerQueue}
        /\ \A j \in DOMAIN dying : dying[i].id = dying[j].id => i = j
        /\ \A x \in K!Actors : work[x].object # dying[i].id
  BY Basics DEF ClaimsOK
<1>2. dying \in Seq(Thing)
  BY Basics DEF KTyped
<1>3. dying \in Seq(K!Tasks)
  BY <1>1, <1>2
<1> QED BY <1>1, <1>2, <1>3

(* A task deletes another.                                                 *)
LEMMA DeleteTaskStep ==
  ASSUME K!Parameters, KInv, NEW a \in K!Actors, K!DeleteTask(a)
  PROVE  KInv'
<1>1. PICK o \in K!Tasks : /\ K!Deletable(o) /\ K!Claim(a, o, "free") /\ objects' = objects \ {o}
                           /\ tasksMade' = tasksMade - 1
  BY DEF K!DeleteTask
<1>2. /\ K!Works(a) /\ work[a].pc = "none" /\ a \in Callers
      /\ taken' = taken /\ ids' = ids /\ misfreed' = misfreed /\ phase' = phase /\ current' = current
      /\ dying' = dying /\ registry' = registry /\ mixed' = mixed
  BY DEF K!DeleteTask, K!At, K!memory, K!start, K!names
<1>3. a # "main" /\ phase = "running"
  BY <1>2 DEF K!Parameters, K!Works
<1>4. /\ o \in objects /\ o.asks.kind \notin K!Queues /\ K!Unclaimed(o)
      /\ o.asks \notin {K!IdleTask, K!TimerTask, K!TimerQueue} /\ \A i \in DOMAIN dying : dying[i].id # o.id
  BY <1>1 DEF K!Tasks, K!Queues, K!Deletable
<1> QED BY <1>1, <1>2, <1>3, <1>4, DyingFacts, Deleted

(* A task deletes something else.                                          *)
LEMMA DeleteObjectStep ==
  ASSUME K!Parameters, KInv, NEW a \in K!Actors, K!DeleteObject(a)
  PROVE  KInv'
<1>1. PICK o \in objects \ K!Tasks :
        /\ K!Deletable(o) /\ K!Claim(a, o, IF o.asks.kind \in K!Queues THEN "unregister" ELSE "free")
        /\ objects' = objects \ {o}
  BY DEF K!DeleteObject
<1>2. /\ K!Works(a) /\ work[a].pc = "none" /\ a \in Callers
      /\ taken' = taken /\ ids' = ids /\ misfreed' = misfreed /\ phase' = phase /\ current' = current
      /\ dying' = dying /\ tasksMade' = tasksMade /\ registry' = registry /\ mixed' = mixed
  BY DEF K!DeleteObject, K!At, K!memory, K!start, K!deaths, K!names
<1>3. a # "main" /\ phase = "running"
  BY <1>2 DEF K!Parameters, K!Works
<1>4. /\ K!Unclaimed(o) /\ o.asks \notin {K!IdleTask, K!TimerTask, K!TimerQueue} /\ \A i \in DOMAIN dying : dying[i].id # o.id
  BY <1>1 DEF K!Deletable
<1> QED BY <1>1, <1>2, <1>3, <1>4, DyingFacts, Deleted

(* The idle task takes one that deleted itself.                            *)
LEMMA CleanUpStep ==
  ASSUME K!Parameters, KInv, K!CleanUp
  PROVE  KInv'
<1> DEFINE o == Head(dying)
<1>1. /\ K!Works("idle") /\ work["idle"].pc = "none" /\ dying # <<>> /\ K!Claim("idle", o, "free")
      /\ objects' = objects \ {o} /\ dying' = Tail(dying) /\ tasksMade' = tasksMade - 1
      /\ taken' = taken /\ ids' = ids /\ misfreed' = misfreed /\ phase' = phase /\ current' = current
      /\ registry' = registry /\ mixed' = mixed
  BY DEF K!CleanUp, K!At, K!memory, K!start, K!names
<1>2. phase = "running" /\ "idle" \in K!Actors
  BY <1>1 DEF K!Works, K!Actors
<1>3. /\ Len(dying) \in Nat /\ DOMAIN dying = 1 .. Len(dying) /\ Len(dying) > 0 /\ o = dying[1]
      /\ Tail(dying) \in Seq(Thing) /\ DOMAIN Tail(dying) = 1 .. Len(dying) - 1
      /\ \A i \in 1 .. Len(dying) - 1 : Tail(dying)[i] = dying[i + 1]
  <2>1. dying \in Seq(Thing)
    BY DyingFacts
  <2>2. /\ Len(dying) \in Nat /\ DOMAIN dying = 1 .. Len(dying) /\ Len(dying) > 0 /\ o = dying[1]
        /\ Tail(dying) \in Seq(Thing)
    BY <1>1, <2>1
  <2>3. DOMAIN Tail(dying) = 1 .. Len(dying) - 1 /\ \A i \in 1 .. Len(dying) - 1 : Tail(dying)[i] = dying[i + 1]
    BY <1>1, <2>1
  <2> QED BY <2>2, <2>3
<1> HIDE DEF o
<1>4. /\ o \in K!Tasks /\ o.asks \notin {K!IdleTask, K!TimerTask, K!TimerQueue}
      /\ \A j \in DOMAIN dying : o.id = dying[j].id => 1 = j
      /\ K!Unclaimed(o)
  BY <1>3, DyingFacts DEF K!Unclaimed
<1>5. o \in objects /\ o.asks.kind \notin K!Queues
  BY <1>4 DEF K!Tasks, K!Queues
<1>6. \A i \in DOMAIN dying' :
        /\ dying'[i] \in K!Tasks /\ dying'[i].asks \notin {K!IdleTask, K!TimerTask, K!TimerQueue}
        /\ \A j \in DOMAIN dying' : dying'[i].id = dying'[j].id => i = j
        /\ \A x \in K!Actors : work[x].object # dying'[i].id
        /\ dying'[i].id # o.id
  <2>1. ASSUME NEW i \in DOMAIN dying'
        PROVE  i \in Int /\ i > 0 /\ i + 1 \in DOMAIN dying /\ dying'[i] = dying[i + 1]
    BY <1>1, <1>3, <2>1
  <2>2. ASSUME NEW i \in DOMAIN dying', NEW j \in DOMAIN dying', dying'[i].id = dying'[j].id PROVE i = j
    <3>1. i + 1 = j + 1
      BY <2>1, <2>2, DyingFacts
    <3> QED BY <2>1, <3>1
  <2>3. ASSUME NEW i \in DOMAIN dying' PROVE dying'[i].id # o.id
    BY <1>4, <2>1
  <2> QED BY <2>1, <2>2, <2>3, DyingFacts
<1> QED BY <1>1, <1>2, <1>3, <1>4, <1>5, <1>6, Deleted

(* A task deletes itself.                                                  *)
LEMMA DeleteSelfStep ==
  ASSUME K!Parameters, KInv, NEW o \in K!Tasks, K!DeleteSelf(o)
  PROVE  KInv'
<1>1. /\ phase = "running" /\ K!Deletable(o) /\ dying' = Append(dying, o)
      /\ taken' = taken /\ ids' = ids /\ misfreed' = misfreed /\ phase' = phase /\ current' = current
      /\ registry' = registry /\ mixed' = mixed /\ objects' = objects /\ work' = work /\ tasksMade' = tasksMade
  BY DEF K!DeleteSelf, K!memory, K!start, K!names
<1>2. /\ K!Unclaimed(o) /\ o.asks \notin {K!IdleTask, K!TimerTask, K!TimerQueue} /\ \A i \in DOMAIN dying : dying[i].id # o.id
  BY <1>1 DEF K!Deletable
<1>3. K!Tasks' = K!Tasks
  BY <1>1 DEF K!Tasks
<1>4. /\ dying' \in Seq(Thing) /\ DOMAIN dying' = 1 .. Len(dying) + 1 /\ DOMAIN dying = 1 .. Len(dying)
      /\ Len(dying) \in Nat /\ dying'[Len(dying) + 1] = o
      /\ \A i \in 1 .. Len(dying) : dying'[i] = dying[i]
  <2>1. dying \in Seq(Thing) /\ o \in Thing
    BY DyingFacts, Basics DEF K!Tasks
  <2> QED BY <1>1, <2>1
<1>5. ASSUME NEW i \in DOMAIN dying'
      PROVE  \/ i \in DOMAIN dying /\ dying'[i] = dying[i]
             \/ i = Len(dying) + 1 /\ i \notin DOMAIN dying /\ dying'[i] = o
  <2>1. i \in 1 .. Len(dying) \/ i = Len(dying) + 1
    BY <1>4
  <2> QED BY <1>4, <2>1
<1>6. KTyped'
  BY <1>1, <1>4, Basics DEF KTyped
<1>7. ShapesOK'
  BY <1>1, Basics DEF ShapesOK
<1>8. MemoryOK'
  BY <1>1, Basics DEF MemoryOK, Taken, Holds
<1>9. RoomsOK'
  BY <1>1, Basics DEF RoomsOK
<1>10. StartOK'
  <2>1. K!HasTimerQueue' = K!HasTimerQueue /\ \A r : Made1(r)' <=> Made1(r)
    BY <1>1, <1>3 DEF K!HasTimerQueue, Made1
  <2> HIDE DEF K!HasTimerQueue, Made1, K!Tasks
  <2> QED BY <1>1, <1>3, <2>1, Basics DEF StartOK
<1>11. ClaimsOK'
  <2>1. \A i \in DOMAIN dying' :
          /\ dying'[i] \in K!Tasks' /\ dying'[i].asks \notin {K!IdleTask, K!TimerTask, K!TimerQueue}
          /\ \A j \in DOMAIN dying' : dying'[i].id = dying'[j].id => i = j
          /\ \A x \in K!Actors : work'[x].object # dying'[i].id
    BY <1>1, <1>2, <1>3, <1>5, DyingFacts DEF K!Unclaimed
  <2> QED BY <1>1, <2>1, Basics DEF ClaimsOK
<1>12. NamesOK'
  BY <1>1, Basics DEF NamesOK
<1> QED BY <1>6, <1>7, <1>8, <1>9, <1>10, <1>11, <1>12 DEF KInv

(* One part is freed, or there is none left.                               *)
LEMMA FreePartStep ==
  ASSUME K!Parameters, KInv, NEW a \in K!Actors, K!Free(a)
  PROVE  KInv'
<1> DEFINE parts == work[a].parts
<1>1. /\ K!Works(a) /\ work[a].pc = "free" /\ objects' = objects /\ ids' = ids /\ phase' = phase
      /\ current' = current /\ tasksMade' = tasksMade /\ dying' = dying /\ registry' = registry /\ mixed' = mixed
  BY DEF K!Free, K!At, K!start, K!deaths, K!names
<1>2. /\ work[a] \in Call /\ CallOK(work[a]) /\ Short(parts) /\ work[a].asks = None /\ work[a].object \in Nat
      /\ parts \in Seq(Nat)
  <2>1. work[a] \in Call /\ CallOK(work[a])
    BY Basics DEF ShapesOK
  <2> QED BY <1>1, <2>1, ShortFacts DEF CallOK, Later
<1>3. ids' \in Nat /\ ids' >= ids /\ work[a].pc \notin Naming \cup Unnaming
  BY <1>1, Basics DEF Naming, Unnaming
<1>4. CASE /\ parts # <<>> /\ taken' = {h \in taken : h.id # Head(parts)}
           /\ misfreed' = (misfreed \/ \A h \in taken : h.id # Head(parts))
           /\ work' = [work EXCEPT ![a].parts = Tail(@)]
  <2>1. /\ IsIn(Head(parts), parts) /\ Short(Tail(parts)) /\ Tail(parts) \in Seq(Nat)
        /\ \A b : IsIn(b, Tail(parts)) <=> IsIn(b, parts) /\ b # Head(parts)
    BY <1>2, <1>4, ShortFacts
  <2>2. /\ work'[a].parts = Tail(parts) /\ work'[a].pc = "free" /\ work'[a].asks = None
        /\ work'[a].object = work[a].object /\ work'[a].slot = work[a].slot
    BY <1>1, <1>2, <1>4, Basics DEF Call
  <2>3. Only(a)
    BY <1>4, <2>1, Basics DEF Only, Call
  <2>4. ~misfreed'
    <3>1. Head(parts) \in Taken /\ ~misfreed
      BY <2>1, Basics DEF MemoryOK, Holds
    <3>2. ~(\A h \in taken : h.id # Head(parts))
      BY <3>1 DEF Taken
    <3> QED BY <1>4, <3>1, <3>2, Zenon
  <2>5. CallOK(work'[a])
    BY <1>2, <2>1, <2>2 DEF CallOK, Making, Naming, Unnaming, Later
  <2>6. KTyped'
    BY <1>1, <1>4, <2>3, Basics DEF KTyped, Only
  <2>7. ShapesOK'
    BY <1>1, <1>3, <2>3, <2>5, Basics, ShapesSame
  <2>8. MemoryOK'
    <3> DEFINE f == Head(parts)
    <3>1. /\ IsIn(f, work[a].parts) /\ taken' = {h \in taken : h.id # f}
          /\ \A b : IsIn(b, work'[a].parts) <=> IsIn(b, work[a].parts) /\ b # f
      BY <1>4, <2>1, <2>2
    <3> HIDE DEF f
    <3> QED BY <1>1, <2>3, <2>4, <3>1, Basics, MemoryFreed
  <2>9. RoomsOK'
    BY <1>1, <1>4, <2>2, <2>3, Basics, RoomsSame
  <2>10. StartOK'
    BY <1>1, <1>2, <2>2, <2>3, Basics, StartSame
  <2>11. ClaimsOK'
    <3>1. work'[a].pc \notin Naming /\ work[a].pc \in Unnaming \cup {"free"}
      BY <1>1, <2>2 DEF Naming
    <3> QED BY <1>1, <2>2, <2>3, <3>1, Basics, ClaimsOn
  <2>12. NamesOK'
    BY <1>1, <1>3, <2>2, <2>3, Basics, RegistrySame
  <2> QED BY <2>6, <2>7, <2>8, <2>9, <2>10, <2>11, <2>12 DEF KInv
<1>5. CASE parts = <<>> /\ work' = [work EXCEPT ![a] = K!Nothing] /\ taken' = taken /\ misfreed' = misfreed
  <2>1. Only(a) /\ work'[a] = K!Nothing
    BY <1>5, Basics, Idles, Changed
  <2>2. work'[a].pc \notin Later \cup Naming \cup Unnaming \cup {"make"}
    BY <2>1, Idles DEF Later, Naming, Unnaming
  <2>3. KTyped'
    BY <1>1, <1>5, <2>1, Basics DEF KTyped, Only
  <2>4. ShapesOK'
    BY <1>1, <1>3, <2>1, Basics, Idles, ShapesSame
  <2>5. MemoryOK'
    BY <1>1, <1>3, <1>5, <2>1, Basics, Idles, MemorySame
  <2>6. RoomsOK'
    BY <1>1, <1>5, <2>1, <2>2, Basics, RoomsSame
  <2>7. StartOK'
    BY <1>1, <1>2, <2>1, Basics, Idles, StartSame
  <2>8. ClaimsOK' /\ NamesOK'
    BY <1>1, <1>3, <2>1, <2>2, Idles, Apart
  <2> QED BY <2>3, <2>4, <2>5, <2>6, <2>7, <2>8 DEF KInv
<1> QED BY <1>1, <1>4, <1>5 DEF K!Free

-----------------------------------------------------------------------------
(* The start.                                                              *)
LEMMA StartMoves ==
  ASSUME StartOK, Only("main"), objects' = objects, current' = current, tasksMade' = tasksMade,
         dying' = dying,
         phase # "running",
         \/ phase' = "idle_task" /\ work'["main"].asks = K!IdleTask
         \/ phase' = "timer_task" /\ phase = "timer_queue" /\ work'["main"].asks = K!TimerTask /\ K!HasTimerQueue
         \/ phase' = "halted" /\ work'["main"] = K!Nothing
  PROVE  StartOK'
<1>1. K!Tasks' = K!Tasks /\ K!HasTimerQueue' = K!HasTimerQueue /\ \A r : Made1(r)' <=> Made1(r)
  BY DEF K!Tasks, K!HasTimerQueue, Made1
<1>2. "main" \in K!Actors /\ \A x \in K!Actors : x # "main" => work'[x] = work[x]
  BY DEF Only, K!Actors
<1> HIDE DEF K!Tasks, K!HasTimerQueue, Made1
<1>3. phase' \in Phases /\ phase' \notin {"main", "running", "timer_queue"}
  BY DEF Phases
<1>4. \A x \in K!Actors \ {"main"} : work'[x] = K!Nothing
  BY <1>2 DEF StartOK
<1>5. phase' = "timer_task" => Made1(K!IdleTask)' /\ K!HasTimerQueue'
  BY <1>1 DEF StartOK
<1>6. /\ tasksMade' = Cardinality(K!Tasks') /\ dying' = <<>>
      /\ \A o \in objects' : o.by = "timers" => o.asks = K!TimerQueue
      /\ \A o, p \in objects' : o.by = "timers" /\ p.by = "timers" => o = p
      /\ K!Tasks' = {} => current' = None
      /\ K!Tasks' # {} =>
          \E o \in K!Tasks' : o.id = current' /\ \A x \in K!Tasks' :
            x.asks.count < o.asks.count \/ (x.asks.count = o.asks.count /\ x.id <= o.id)
  BY <1>1 DEF StartOK
<1> QED BY <1>3, <1>4, <1>5, <1>6 DEF StartOK

\* What main's call is when it begins to add a task of the kernel's.
LEMMA KernelTask ==
  ASSUME K!Parameters, KInv, work["main"].pc = "none", NEW r \in {K!IdleTask, K!TimerTask},
         work' = [work EXCEPT !["main"] = [K!Nothing EXCEPT !.pc = K!FirstStep(r), !.asks = r]]
  PROVE  /\ Only("main") /\ work["main"] = K!Nothing /\ work["main"].pc \notin Naming \cup Unnaming
         /\ work'["main"].asks = r /\ work'["main"].parts = work["main"].parts
         /\ work'["main"].object = None /\ CallOK(work'["main"])
         /\ work'["main"].pc \notin Later /\ work'["main"].pc # "make"
<1>1. "main" \in K!Actors
  BY DEF K!Actors
<1>2. r.kind = "task" /\ r.memory = "heap" /\ r \in Wishes
  BY DEF K!IdleTask, K!TimerTask, Wishes
<1>3. K!FirstStep(r) = "stack"
  BY <1>2 DEF K!FirstStep
<1> DEFINE c == [pc |-> "stack", asks |-> r, parts |-> <<>>, object |-> None, slot |-> 0]
<1>4. work' = [work EXCEPT !["main"] = c]
  BY <1>3, Begins
<1>5. c \in Call
  BY <1>2, Empty DEF Call, Making
<1>6. Only("main") /\ work'["main"] = c
  BY <1>1, <1>4, <1>5, Basics, Changed
<1>7. /\ work'["main"].pc = "stack" /\ work'["main"].asks = r /\ work'["main"].parts = <<>>
      /\ work'["main"].object = None /\ work'["main"].slot = 0
  <2>1. c.pc = "stack" /\ c.asks = r /\ c.parts = <<>> /\ c.object = None /\ c.slot = 0
    OBVIOUS
  <2> HIDE DEF c
  <2> QED BY <1>6, <2>1, Zenon
<1> HIDE DEF c
<1>8. work["main"] = K!Nothing
  BY <1>1, Basics DEF ShapesOK, CallOK
<1>9. CallOK(work'["main"])
  BY <1>2, <1>7 DEF CallOK, Making, Naming, Unnaming, Later, Short
<1> QED BY <1>6, <1>7, <1>8, <1>9, Idles DEF Naming, Unnaming, Later

(* A step of main that only moves the start on.                            *)
LEMMA StartMoved ==
  ASSUME K!Parameters, KInv, Only("main"), work["main"].pc \notin Naming \cup Unnaming,
         work'["main"].parts = work["main"].parts, work'["main"].object = None, CallOK(work'["main"]),
         work'["main"].pc \notin Later, work'["main"].pc # "make", StartOK',
         taken' = taken, ids' = ids, misfreed' = misfreed, objects' = objects, tasksMade' = tasksMade,
         dying' = dying, registry' = registry, mixed' = mixed
  PROVE  KInv'
<1>1. "main" \in K!Actors /\ ids' \in Nat /\ ids' >= ids
  BY Basics DEF K!Actors
<1>2. KTyped'
  BY <1>1, Basics DEF KTyped, Only
<1>3. ShapesOK'
  BY <1>1, Basics, ShapesSame
<1>4. MemoryOK'
  BY <1>1, Basics, MemorySame
<1>5. RoomsOK'
  BY <1>1, Basics, RoomsSame
<1>6. ClaimsOK' /\ NamesOK'
  BY <1>1, Basics, Apart
<1> QED BY <1>2, <1>3, <1>4, <1>5, <1>6 DEF KInv

(* vTaskStartScheduler begins with the idle task.                          *)
LEMMA StartSchedulerStep ==
  ASSUME K!Parameters, KInv, K!StartScheduler
  PROVE  KInv'
<1>1. /\ work["main"].pc = "none" /\ phase = "main" /\ phase' = "idle_task"
      /\ work' = [work EXCEPT !["main"] = [K!Nothing EXCEPT !.pc = K!FirstStep(K!IdleTask), !.asks = K!IdleTask]]
      /\ taken' = taken /\ ids' = ids /\ misfreed' = misfreed /\ objects' = objects /\ current' = current
      /\ tasksMade' = tasksMade /\ dying' = dying /\ registry' = registry /\ mixed' = mixed
  BY DEF K!StartScheduler, K!At, K!memory, K!deaths, K!names
<1>2. K!IdleTask \in {K!IdleTask, K!TimerTask}
  OBVIOUS
<1>3. /\ Only("main") /\ work["main"].pc \notin Naming \cup Unnaming
      /\ work'["main"].asks = K!IdleTask /\ work'["main"].parts = work["main"].parts
      /\ work'["main"].object = None /\ CallOK(work'["main"])
      /\ work'["main"].pc \notin Later /\ work'["main"].pc # "make"
  BY <1>1, <1>2, KernelTask
<1>4. StartOK'
  BY <1>1, <1>3, Basics, StartMoves
<1> QED BY <1>1, <1>3, <1>4, StartMoved

(* xTimerCreateTimerTask: the queue, and then the task.                    *)
LEMMA CreateTimerTaskStep ==
  ASSUME K!Parameters, KInv, K!CreateTimerTask
  PROVE  KInv'
<1> DEFINE starts == /\ phase' = "timer_task"
                     /\ work' = [work EXCEPT !["main"] = [K!Nothing EXCEPT !.pc = K!FirstStep(K!TimerTask), !.asks = K!TimerTask]]
<1>1. /\ K!Works("main") /\ work["main"].pc = "none" /\ phase = "timer_queue" /\ K!CheckForValidListAndQueue(ids + 1)
      /\ current' = current /\ tasksMade' = tasksMade /\ dying' = dying /\ mixed' = mixed
      /\ (\E o \in objects' : o.by = "timers") => starts
      /\ ~(\E o \in objects' : o.by = "timers") => phase' = "halted" /\ work' = work
  BY DEF K!CreateTimerTask, K!At, K!deaths
<1>2. "main" \in K!Actors
  BY DEF K!Actors
<1>3. ASSUME starts
      PROVE  /\ Only("main") /\ work["main"].pc \notin Naming \cup Unnaming
             /\ work'["main"].asks = K!TimerTask /\ work'["main"].parts = work["main"].parts
             /\ work'["main"].object = None /\ CallOK(work'["main"])
             /\ work'["main"].pc \notin Later /\ work'["main"].pc # "make"
  <2>1. K!TimerTask \in {K!IdleTask, K!TimerTask}
    OBVIOUS
  <2> QED BY <1>1, <1>3, <2>1, KernelTask
<1>4. CASE K!HasTimerQueue /\ taken' = taken /\ ids' = ids /\ misfreed' = misfreed /\ objects' = objects /\ registry' = registry
  <2>1. starts
    BY <1>1, <1>4 DEF K!HasTimerQueue
  <2>2. StartOK'
    BY <1>1, <1>3, <1>4, <2>1, Basics, StartMoves
  <2> QED BY <1>1, <1>3, <1>4, <2>1, <2>2, StartMoved
<1>5. CASE ~K!HasTimerQueue /\ taken' = taken /\ ids' = ids /\ misfreed' = misfreed /\ objects' = objects /\ registry' = registry
  <2>1. phase' = "halted" /\ work' = work
    BY <1>1, <1>5 DEF K!HasTimerQueue
  <2>2. work["main"] = K!Nothing /\ CallOK(K!Nothing) /\ K!Nothing.pc = "none" /\ K!Nothing.object = None
    BY <1>1, <1>2, Basics, Idles DEF ShapesOK, CallOK
  <2>3. Only("main")
    BY <2>1, Basics DEF Only
  <2>4. StartOK'
    BY <1>1, <1>5, <2>1, <2>2, <2>3, Basics, StartMoves
  <2>5. "none" \notin Naming \cup Unnaming \cup Later
    BY DEF Naming, Unnaming, Later
  <2> QED BY <1>1, <1>5, <2>1, <2>2, <2>3, <2>4, <2>5, StartMoved
<1>6. CASE /\ ~K!HasTimerQueue /\ K!Allowed(K!TimerQueue)
           /\ taken' = taken \cup {[id |-> ids + 1, bytes |-> K!Asked(K!TimerQueue)]}
           /\ objects' = objects \cup {K!WithTimerQueue(ids + 1)}
           /\ registry' = IF K!FreeSlots(registry) = {} THEN registry
                          ELSE [registry EXCEPT ![K!Least(K!FreeSlots(registry))] = [named |-> ids + 1, handle |-> ids + 1]]
           /\ ids' = ids + 1 /\ misfreed' = misfreed
  <2>1. K!WithTimerQueue(ids + 1).by = "timers" /\ K!WithTimerQueue(ids + 1).asks = K!TimerQueue
    BY DEF K!WithTimerQueue
  <2>2. starts
    BY <1>1, <1>6, <2>1
  <2>3. phase # "running"
    BY <1>1
  <2>4. StartOK'
    BY <1>1, <1>2, <1>3, <1>6, <2>1, <2>2, Basics, StartQueue
  <2> HIDE DEF starts
  <2> QED BY <1>1, <1>2, <1>3, <1>6, <2>2, <2>3, <2>4, QueueMade
<1> QED BY <1>1, <1>4, <1>5, <1>6 DEF K!CheckForValidListAndQueue, K!memory

-----------------------------------------------------------------------------
(* The invariant holds in every state.                                     *)
LEMMA ObjectsStart ==
  ASSUME K!Parameters, K!Init
  PROVE  KInv
<1>1. /\ taken = {} /\ objects = {} /\ work = [a \in K!Actors |-> K!Nothing]
      /\ phase = "main" /\ tasksMade = 0 /\ current = None /\ dying = <<>>
      /\ registry = [s \in 1 .. ENTRIES |-> [named |-> None, handle |-> None]]
      /\ ids = 0 /\ mixed = FALSE /\ misfreed = FALSE
  BY DEF K!Init
<1>2. None \notin Nat
  BY DEF K!Parameters
<1>3. /\ \A a \in K!Actors : work[a] = K!Nothing
      /\ \A a \in K!Actors : /\ work[a].pc = "none" /\ work[a].object = None
      /\ \A a \in K!Actors : \A b : ~IsIn(b, work[a].parts)
  BY <1>1, Idles, Empty
<1>4. KTyped
  <2>1. IsFiniteSet(objects) /\ objects \subseteq Thing /\ taken \subseteq [id : Nat, bytes : Nat]
    BY <1>1, FS_EmptySet
  <2>2. work \in [K!Actors -> Call] /\ dying \in Seq(Thing)
    BY <1>1, Idles
  <2>3. registry \in [1 .. ENTRIES -> [named : Nat \cup {None}, handle : Nat \cup {None}]]
    BY <1>1
  <2>4. mixed \in BOOLEAN
    BY <1>1, Zenon
  <2> QED BY <1>1, <2>1, <2>2, <2>3, <2>4 DEF KTyped
<1>5. ShapesOK
  BY <1>1, <1>2, <1>3, Idles DEF ShapesOK
<1>6. MemoryOK
  BY <1>1, <1>3 DEF MemoryOK, Holds, Owns, Taken
<1>7. RoomsOK
  BY <1>1, <1>3 DEF RoomsOK
<1>8. StartOK
  <2>1. K!Tasks = {} /\ Cardinality(K!Tasks) = 0
    BY <1>1, FS_EmptySet DEF K!Tasks
  <2>2. "main" \in K!Actors
    BY DEF K!Actors
  <2> QED BY <1>1, <1>3, <2>1, <2>2 DEF StartOK, Phases
<1>9. ClaimsOK
  <2>1. DOMAIN dying = {}
    BY <1>1
  <2> QED BY <1>1, <1>3, <2>1 DEF ClaimsOK, Naming, Unnaming
<1>10. NamesOK
  BY <1>1, <1>3 DEF NamesOK, Naming, Writing
<1> QED BY <1>4, <1>5, <1>6, <1>7, <1>8, <1>9, <1>10 DEF KInv

(* Nothing changes.                                                        *)
LEMMA ObjectsStand ==
  ASSUME KInv, UNCHANGED K!vars
  PROVE  KInv'
<1>1. /\ taken' = taken /\ objects' = objects /\ work' = work /\ phase' = phase /\ tasksMade' = tasksMade
      /\ current' = current /\ dying' = dying /\ registry' = registry /\ ids' = ids /\ mixed' = mixed
      /\ misfreed' = misfreed
  BY DEF K!vars
<1>2. K!Tasks' = K!Tasks /\ K!HasTimerQueue' = K!HasTimerQueue /\ \A r : Made1(r)' <=> Made1(r)
  BY <1>1 DEF K!Tasks, K!HasTimerQueue, Made1
<1>3. KTyped' /\ ShapesOK' /\ RoomsOK' /\ NamesOK'
  BY <1>1 DEF KInv, KTyped, ShapesOK, RoomsOK, NamesOK
<1>4. MemoryOK'
  BY <1>1 DEF KInv, MemoryOK, Taken, Holds
<1>5. StartOK'
  BY <1>1, <1>2 DEF KInv, StartOK
<1>6. ClaimsOK'
  BY <1>1, <1>2 DEF KInv, ClaimsOK
<1> QED BY <1>3, <1>4, <1>5, <1>6 DEF KInv

(* Every step keeps the invariant.                                         *)
LEMMA ObjectsKept ==
  ASSUME K!Parameters, KInv, [K!Next]_(K!vars)
  PROVE  KInv'
<1>1. ASSUME NEW a \in K!Actors, K!Create(a)
      PROVE  KInv'
  BY <1>1, BeginStep, AllocStackStep, AllocTcbStep, GiveBackStep, AllocStep, MakeTaskStep, MakeOtherStep,
     CheckQueueStep, FillInTimerStep, SearchStep, WriteNameStep, WriteHandleStep DEF K!Create
<1>2. ASSUME NEW a \in K!Actors, K!Destroy(a)
      PROVE  KInv'
  BY <1>2, DeleteTaskStep, DeleteObjectStep, UnregisterStep, UnnameStep, ForgetStep,
     FreePartStep DEF K!Destroy
<1>3. ASSUME NEW o \in K!Tasks, K!DeleteSelf(o)
      PROVE  KInv'
  BY <1>3, DeleteSelfStep
<1>4. CASE K!CleanUp
  BY <1>4, CleanUpStep
<1>5. CASE K!StartScheduler
  BY <1>5, StartSchedulerStep
<1>6. CASE K!CreateTimerTask
  BY <1>6, CreateTimerTaskStep
<1>7. CASE UNCHANGED K!vars
  BY <1>7, ObjectsStand
<1> QED BY <1>1, <1>2, <1>3, <1>4, <1>5, <1>6, <1>7 DEF K!Next

-----------------------------------------------------------------------------
(* What it says of the objects: first, Cardinality is the same here and    *)
(* there.                                                                  *)
LEMMA SameSize ==
  ASSUME NEW S
  PROVE  K!Cardinality(S) = Cardinality(S)
BY DEF Cardinality, K!Cardinality

(* The blocks and their owners.                                            *)
LEMMA Accounted ==
  ASSUME K!Parameters, KInv
  PROVE  K!MemoryAccounted
<1>1. ~misfreed
  BY Basics DEF MemoryOK
<1>2. ASSUME NEW h \in taken
      PROVE  K!Cardinality(K!Owners(h.id)) + K!Cardinality(K!Users(h.id)) = 1
  <2> DEFINE b == h.id
  <2>1. b \in Taken
    BY DEF Taken
  <2> HIDE DEF b
  <2>2. /\ K!Owners(b) = {o \in objects : Owns(o, b)} /\ K!Users(b) = {a \in K!Actors : Holds(a, b)}
    BY DEF K!Owners, K!Users, Owns, Holds, IsIn
  <2>3. /\ (\E a \in K!Actors : Holds(a, b)) \/ \E o \in objects : Owns(o, b)
        /\ \A a, c \in K!Actors : Holds(a, b) /\ Holds(c, b) => a = c
        /\ \A o, p \in objects : Owns(o, b) /\ Owns(p, b) => o = p
        /\ \A a \in K!Actors, o \in objects : ~(Holds(a, b) /\ Owns(o, b))
    BY <2>1, Basics DEF MemoryOK
  <2> HIDE DEF K!Owners, K!Users, Owns, Holds
  <2>4. CASE \E a \in K!Actors : Holds(a, b)
    <3>1. PICK a \in K!Actors : Holds(a, b)
      BY <2>4
    <3>2. K!Users(b) = {a} /\ K!Owners(b) = {}
      BY <2>2, <2>3, <3>1
    <3>3. Cardinality(K!Users(b)) = 1 /\ Cardinality(K!Owners(b)) = 0
      BY <3>2, FS_Singleton, FS_EmptySet
    <3> QED BY <3>3, SameSize DEF b
  <2>5. CASE \E o \in objects : Owns(o, b)
    <3>1. PICK o \in objects : Owns(o, b)
      BY <2>5
    <3>2. K!Owners(b) = {o} /\ K!Users(b) = {}
      BY <2>2, <2>3, <3>1
    <3>3. Cardinality(K!Owners(b)) = 1 /\ Cardinality(K!Users(b)) = 0
      BY <3>2, FS_Singleton, FS_EmptySet
    <3> QED BY <3>3, SameSize DEF b
  <2> QED BY <2>3, <2>4, <2>5
<1>3. ASSUME NEW o \in objects, NEW i \in DOMAIN o.parts, o.parts[i] # K!CallersMemory
      PROVE  \E h \in taken : h.id = o.parts[i]
  <2>1. Owns(o, o.parts[i])
    BY DEF Owns, IsIn
  <2>2. o.parts[i] \in Taken
    BY <1>3, <2>1, Basics DEF MemoryOK
  <2> QED BY <2>2 DEF Taken
<1> QED BY <1>1, <1>2, <1>3 DEF K!MemoryAccounted

(* The storage and the limits.                                             *)
LEMMA Fits ==
  ASSUME K!Parameters, KInv
  PROVE  K!StorageFits
<1>1. ASSUME NEW o \in objects, o.asks.kind \in {"queue", "stream"}, o.asks.memory = "heap"
      PROVE  K!Bytes(o.parts[1]) = IF o.asks.kind = "queue" THEN Structures.queue + o.asks.length * o.asks.size
                                                            ELSE Structures.stream + o.asks.size + 1
  <2>1. Stored(o.asks)
    BY <1>1 DEF Stored
  <2>2. PICK x \in Nat \ {0} : o.parts = <<x>>
    BY <2>1, Basics, ObjectFacts DEF ShapesOK
  <2>3. o.parts[1] = x /\ Owns(o, x)
    BY <2>2, One DEF Owns
  <2>4. x \in Taken
    BY <2>3, Basics DEF MemoryOK, K!CallersMemory
  <2>5. \A h \in taken : h.id = x => h.bytes = RoomFor(o.asks)
    BY <2>1, <2>3, Basics DEF RoomsOK
  <2>6. K!Bytes(x) = RoomFor(o.asks)
    <3>1. \E h \in taken : h.id = x
      BY <2>4 DEF Taken
    <3> DEFINE h == CHOOSE h \in taken : h.id = x
    <3>2. h \in taken /\ h.id = x
      BY <3>1
    <3> HIDE DEF h
    <3>3. h.bytes = RoomFor(o.asks)
      BY <2>5, <3>2
    <3> QED BY <3>3 DEF K!Bytes, h
  <2> QED BY <1>1, <2>3, <2>6 DEF RoomFor
<1>2. \A o \in objects : o.asks.kind \in {"semaphore", "mutex"} => o.items <= o.asks.length
  BY Basics DEF ShapesOK, ObjectOK
<1> QED BY <1>1, <1>2 DEF K!StorageFits

(* The start.                                                              *)
LEMMA Whole ==
  ASSUME K!Parameters, KInv
  PROVE  K!StartsWhole
<1>1. K!Cardinality({o \in objects : o.by = "timers"}) <= 1
  <2> DEFINE Q == {o \in objects : o.by = "timers"}
  <2>1. \A o, p \in Q : o = p
    BY Basics DEF StartOK
  <2> HIDE DEF Q
  <2>2. CASE Q = {}
    <3>1. Cardinality(Q) = 0
      BY <2>2, FS_EmptySet
    <3> QED BY <3>1, SameSize DEF Q
  <2>3. CASE Q # {}
    <3>1. PICK o \in Q : TRUE
      BY <2>3
    <3>2. Q = {o}
      BY <2>1
    <3>3. Cardinality(Q) = 1
      BY <3>2, FS_Singleton
    <3> QED BY <3>3, SameSize DEF Q
  <2> QED BY <2>2, <2>3
<1>2. phase = "running" => K!HasTimerQueue /\ \A r \in {K!IdleTask, K!TimerTask} : \E o \in K!Tasks : o.asks = r
  BY Basics DEF StartOK, Made1
<1>3. /\ tasksMade = K!Cardinality(K!Tasks)
      /\ phase # "running" /\ K!Tasks # {} =>
           \E o \in K!Tasks : o.id = current /\ \A x \in K!Tasks :
             x.asks.count < o.asks.count \/ (x.asks.count = o.asks.count /\ x.id <= o.id)
  BY Basics, SameSize DEF StartOK
<1> QED BY <1>1, <1>2, <1>3 DEF K!StartsWhole

(* The registry.                                                           *)
LEMMA Honest ==
  ASSUME K!Parameters, KInv
  PROVE  K!RegistryHonest
<1>1. DOMAIN registry = 1 .. ENTRIES
  BY Basics DEF KTyped
<1>2. \A s \in DOMAIN registry :
        LET h == registry[s].handle IN h # None => K!InHand(h) \/ \E o \in objects : o.id = h
  BY <1>1, Basics DEF NamesOK, K!InHand
<1>3. \A s, x \in DOMAIN registry : registry[s].handle # None /\ s # x => registry[s].handle # registry[x].handle
  BY <1>1, Basics DEF NamesOK
<1>4. ~mixed => \A s \in DOMAIN registry :
        registry[s].named = registry[s].handle \/ \E a \in K!Actors : work[a].slot = s
  BY <1>1, Basics DEF NamesOK
<1> QED BY <1>2, <1>3, <1>4 DEF K!RegistryHonest

(* In every behaviour of making and deleting, for every set of callers,     *)
(* requests, sizes and slots: every block taken from the heap belongs to    *)
(* one object or one call, what is stored fits, the scheduler starts with   *)
(* its own tasks and queue, and the registry names no freed queue.          *)
THEOREM ObjectsAreSound ==
  ASSUME K!Parameters
  PROVE  K!Init /\ [][K!Next]_(K!vars) => []K!ObjectsSound
<1>1. K!Init => KInv
  BY ObjectsStart
<1>2. KInv /\ [K!Next]_(K!vars) => KInv'
  BY ObjectsKept
<1>3. KInv => K!ObjectsSound
  BY Accounted, Fits, Whole, Honest DEF K!ObjectsSound
<1> QED BY <1>1, <1>2, <1>3, PTL

-----------------------------------------------------------------------------
(* The heap that takes nothing back (heap_1.c).                            *)
CONSTANTS BASE, TOTAL
VARIABLES offset, handed

O == INSTANCE HeapOnce WITH heap <- offset, regions <- handed

OnceInv ==
  /\ offset \in Nat /\ offset <= O!Adjusted /\ offset % ALIGN = 0
  /\ \A r \in handed :
       /\ r.at \in Nat /\ r.size \in Nat /\ r.at % ALIGN = 0 /\ r.at >= O!AlignedHeap
       /\ r.at + r.size <= O!AlignedHeap + offset
  /\ \A r, s \in handed : s = r \/ s.at >= r.at + r.size \/ r.at >= s.at + s.size

(* Where the memory begins, and what of it is used.                        *)
LEMMA OncePlace ==
  ASSUME O!Parameters
  PROVE  /\ ALIGN \in Nat \ {0} /\ TOP \in Nat /\ TOP > 0 /\ O!Adjusted \in Nat /\ O!Adjusted < TOP
         /\ O!AlignedHeap \in Nat /\ O!AlignedHeap % ALIGN = 0
         /\ BASE <= O!AlignedHeap /\ O!AlignedHeap + O!Adjusted <= BASE + TOTAL
         /\ BASE \in Nat /\ TOTAL \in Nat
<1> DEFINE a == BASE + ALIGN - 1
           rest == a % ALIGN
<1>1. ALIGN \in Nat \ {0} /\ TOP \in Nat /\ BASE \in Nat \ {0} /\ TOTAL \in Nat /\ ALIGN <= TOTAL /\ TOTAL < TOP
  BY DEF O!Parameters
<1>2. a \in Int
  BY <1>1
<1>3. O!AlignedHeap = a - rest /\ O!Adjusted = TOTAL - ALIGN
  BY DEF O!AlignedHeap, O!Adjusted
<1>4. rest \in 0 .. ALIGN - 1 /\ (a - rest) % ALIGN = 0
  <2> HIDE DEF a
  <2> QED BY <1>1, <1>2, RoundedDown
<1>5. a = BASE + ALIGN - 1
  OBVIOUS
<1> HIDE DEF a, rest
<1> QED BY <1>1, <1>2, <1>3, <1>4, <1>5

(* What a request takes is aligned, enough for it and nothing that wraps.  *)
LEMMA OnceWanted ==
  ASSUME O!Parameters, NEW n \in Sizes
  PROVE  /\ n \in Nat /\ O!Wanted(n) \in Nat /\ O!Wanted(n) % ALIGN = 0 /\ O!Wanted(n) < 2 * TOP
         /\ O!Wanted(n) > 0 => n <= O!Wanted(n)
<1> DEFINE size == IF n % ALIGN = 0 THEN n ELSE n + (ALIGN - (n % ALIGN))
<1>1. n \in Nat /\ ALIGN \in Nat \ {0} /\ TOP \in Nat /\ TOP > 0
  <2>1. n \in 0 .. 2 * TOP - 1
    BY DEF O!Parameters
  <2>2. ALIGN \in Nat \ {0} /\ TOP \in Nat /\ TOP > 0
    BY OncePlace
  <2>3. n \in Nat
    BY <2>1
  <2> QED BY <2>2, <2>3
<1>2. n % ALIGN \in 0 .. ALIGN - 1 /\ (n + (ALIGN - (n % ALIGN))) % ALIGN = 0
  <2>1. n \in Int /\ ALIGN \in Nat \ {0}
    BY <1>1
  <2> QED BY Zenon, <2>1, RoundedDown
<1>3. size \in Nat /\ size % ALIGN = 0 /\ n <= size
  BY <1>1, <1>2
<1>4. 0 % ALIGN = 0
  BY <1>1
<1>5. O!Wanted(n) = IF size >= 2 * TOP THEN 0 ELSE size
  BY DEF O!Wanted
<1> HIDE DEF size
<1> QED BY <1>1, <1>3, <1>4, <1>5

LEMMA OnceStarts == O!Parameters /\ O!Init => OnceInv
<1> SUFFICES ASSUME O!Parameters, O!Init PROVE OnceInv
  OBVIOUS
<1>1. offset = 0 /\ handed = {}
  BY DEF O!Init
<1>2. 0 % ALIGN = 0
  BY OncePlace
<1> QED BY <1>1, <1>2, OncePlace DEF OnceInv

LEMMA OnceKept == O!Parameters /\ OnceInv /\ [O!Next]_<<offset, handed>> => OnceInv'
<1> SUFFICES ASSUME O!Parameters, OnceInv, [O!Next]_<<offset, handed>> PROVE OnceInv'
  OBVIOUS
<1>1. CASE UNCHANGED <<offset, handed>>
  BY <1>1 DEF OnceInv
<1>2. ASSUME NEW n \in Sizes, O!Fits(O!Wanted(n)), offset' = offset + O!Wanted(n),
             handed' = handed \cup {[at |-> O!AlignedHeap + offset, size |-> n]}
      PROVE  OnceInv'
  <2> DEFINE size == O!Wanted(n)
             h == O!AlignedHeap
             r == [at |-> h + offset, size |-> n]
  <2>1. /\ n \in Nat /\ size \in Nat /\ size % ALIGN = 0 /\ size < 2 * TOP /\ (size > 0 => n <= size)
        /\ h \in Nat /\ h % ALIGN = 0 /\ ALIGN \in Nat \ {0} /\ TOP \in Nat /\ TOP > 0
        /\ O!Adjusted \in Nat /\ O!Adjusted < TOP
        /\ offset \in Nat /\ offset <= O!Adjusted /\ offset % ALIGN = 0
    BY OncePlace, OnceWanted DEF OnceInv
  <2>2. /\ size > 0 /\ (offset + size) % (2 * TOP) < O!Adjusted /\ (offset + size) % (2 * TOP) > offset
    BY <1>2 DEF O!Fits
  <2>3. offset' = offset + size /\ handed' = handed \cup {r} /\ r.at = h + offset /\ r.size = n
    BY <1>2
  <2> HIDE DEF size, h, r
  <2>4. offset + size < O!Adjusted
    <3> DEFINE t == 2 * TOP
               x == offset + size
    <3>1. t \in Nat \ {0} /\ x \in Nat /\ x < 2 * t
      BY <2>1
    <3>2. x < t => x % t = x
      BY <3>1, Remainder
    <3>3. t <= x => x % t = x - t
      BY <3>1, Remainder
    <3>4. size < t /\ x % t < O!Adjusted /\ x % t > offset /\ x = offset + size
      BY <2>1, <2>2
    <3> HIDE DEF t, x
    <3>5. ASSUME t <= x PROVE FALSE
      <4>1. x % t = x - t
        BY <3>3, <3>5
      <4>2. offset + size - t > offset /\ t \in Nat /\ size \in Nat /\ offset \in Nat
        BY <2>1, <3>1, <3>4, <4>1
      <4> QED BY <3>4, <4>2
    <3> QED BY <2>1, <3>1, <3>2, <3>4, <3>5
  <2>5. (offset + size) % ALIGN = 0 /\ (h + offset) % ALIGN = 0
    <3>1. offset \in Int /\ size \in Int /\ h \in Int
      BY <2>1
    <3> QED BY <2>1, <3>1, Multiples
  <2>6. ASSUME NEW s \in handed'
        PROVE  /\ s.at \in Nat /\ s.size \in Nat /\ s.at % ALIGN = 0 /\ s.at >= h
               /\ s.at + s.size <= h + offset'
    <3>1. CASE s \in handed
      <4>1. /\ s.at \in Nat /\ s.size \in Nat /\ s.at % ALIGN = 0 /\ s.at >= h
            /\ s.at + s.size <= h + offset
        BY <3>1 DEF OnceInv, h
      <4> QED BY <2>1, <2>3, <4>1
    <3>2. CASE s = r
      BY <2>1, <2>2, <2>3, <2>5, <3>2
    <3> QED BY <2>3, <3>1, <3>2
  <2>7. \A s \in handed : s.at + s.size <= r.at
    BY <2>3 DEF OnceInv, h
  <2>8. \A s, x \in handed' : x = s \/ x.at >= s.at + s.size \/ s.at >= x.at + x.size
    BY <2>3, <2>7 DEF OnceInv
  <2>9. offset' \in Nat /\ offset' <= O!Adjusted /\ offset' % ALIGN = 0
    BY <2>1, <2>3, <2>4, <2>5
  <2> QED BY <2>6, <2>8, <2>9 DEF OnceInv, h
<1>3. ASSUME NEW n \in Sizes, offset' = offset, handed' = handed
      PROVE  OnceInv'
  BY <1>3 DEF OnceInv
<1> QED BY <1>1, <1>2, <1>3 DEF O!Next, O!Malloc

(* The heap that only hands out (heap_1.c), wherever it lies, however large *)
(* it is and whatever is asked for: memory of nobody else's, aligned and    *)
(* inside, although the sum that looks for room may wrap.                   *)
THEOREM OnceIsSound ==
  ASSUME O!Parameters
  PROVE  O!Init /\ [][O!Next]_<<offset, handed>> => []O!HandedOutOnce
<1>1. O!Init => OnceInv
  BY OnceStarts
<1>2. OnceInv /\ [O!Next]_<<offset, handed>> => OnceInv'
  BY OnceKept
<1>3. OnceInv => O!HandedOutOnce
  <2> SUFFICES ASSUME OnceInv PROVE O!HandedOutOnce
    OBVIOUS
  <2>1. O!Adjusted - offset >= 0
    BY OncePlace DEF OnceInv
  <2>2. ASSUME NEW r \in handed
        PROVE  /\ r.at % ALIGN = 0 /\ r.at >= BASE /\ r.at + r.size <= BASE + TOTAL
               /\ r.at + r.size <= O!AlignedHeap + offset
               /\ \A s \in handed : s = r \/ s.at >= r.at + r.size \/ r.at >= s.at + s.size
    <3>1. /\ r.at \in Nat /\ r.size \in Nat /\ r.at % ALIGN = 0 /\ r.at >= O!AlignedHeap
          /\ r.at + r.size <= O!AlignedHeap + offset /\ offset \in Nat /\ offset <= O!Adjusted
      BY DEF OnceInv
    <3>2. r.at >= BASE /\ r.at + r.size <= BASE + TOTAL
      BY <3>1, OncePlace
    <3> QED BY <3>1, <3>2 DEF OnceInv
  <2> QED BY <2>1, <2>2 DEF O!HandedOutOnce
<1> QED BY <1>1, <1>2, <1>3, PTL
=============================================================================
