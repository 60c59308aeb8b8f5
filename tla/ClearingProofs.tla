--------------------------- MODULE ClearingProofs ---------------------------
(***************************************************************************)
(* Theorems about what is computed before it is submitted: the solver's    *)
(* own walk over a pool's ticks skips none, its plan for the intents of a  *)
(* pair is the best the rules allow and one the contract takes, and so is  *)
(* the cross the keeper plans for an auction's book.  For any scale of     *)
(* prices, any number of intents and any amounts.                          *)
(***************************************************************************)
EXTENDS SolverClearing, VenueQuote, CrossPlanner, SharedLemmas, SequenceTheorems, TLAPS

---------------------------------------------------------------------------
(* The venue quote: no initialized tick is skipped.                        *)

----------------------------------------------------------------------------
(* The venue's quote: the search of a word of the bitmap.                  *)

LEMMA RestFound ==
  ASSUME NEW x \in Int, NEW y \in Nat \ {0}
  PROVE  \E q \in Int, r \in Nat : q = x \div y /\ r = x % y /\ r < y /\ x = y * q + r
<1>1. ASSUME NEW q, q = x \div y, NEW r, r = x % y
      PROVE  q \in Int /\ r \in Nat /\ r < y /\ x = y * q + r
  BY <1>1, Z3
<1>2. PICK q, r : q = x \div y /\ r = x % y
  BY Zenon
<1>3. q \in Int /\ r \in Nat /\ r < y /\ x = y * q + r
  BY <1>1, <1>2, Zenon
<1>4. QED  BY <1>2, <1>3, Zenon

\* A number is in the block its quotient names, and in no other.
LEMMA BlockOf ==
  ASSUME NEW x \in Int, NEW y \in Nat \ {0}, NEW k \in Int, y * k <= x, x < y * k + y
  PROVE  x \div y = k
<1>1. PICK q \in Int : q = x \div y
  BY QuotientInt
<1>2. y * q <= x /\ x < y * q + y
  BY <1>1, QuotientBounds
<1>3. y * q < y * (k + 1) /\ y * k < y * (q + 1)
  BY <1>2, Z3
<1>4. q < k + 1 /\ k < q + 1
  BY <1>3, Z3
<1>5. QED  BY <1>1, <1>4

\* Rounding toward zero and stepping down once is rounding down.
LEMMA CompressFloors ==
  ASSUME NEW t \in Int, NEW s \in Nat \ {0}
  PROVE  compress(t, s) = t \div s
<1>1. CASE t >= 0
  BY <1>1 DEF compress, tdiv
<1>2. CASE t < 0
  <2>1. PICK n \in Nat : n = -t
    BY <1>2
  <2>2. PICK k \in Int : k = n \div s
    BY QuotientInt
  <2>3. s * k <= n /\ n < s * k + s
    BY <2>2, QuotientBounds
  <2>4. PICK f \in Int, r \in Nat : f = t \div s /\ r = t % s /\ r < s /\ t = s * f + r
    BY RestFound
  <2>5. t = s * f + r /\ r < s
    BY <2>4
  <2>6. PICK g \in Int : g = -f
    BY <2>4
  <2>8. s * f = -(s * g)
    BY <2>4, <2>6, Z3
  <2>9. n = s * g - r
    BY <2>1, <2>5, <2>8, Z3
  <2>10. compress(t, s) = IF r # 0 THEN -k - 1 ELSE -k
    BY <1>2, <2>1, <2>2, <2>4 DEF compress, tdiv
  <2>11. CASE r = 0
    <3>1. s * k <= s * g /\ s * g < s * (k + 1)
      BY <2>3, <2>9, <2>11, Z3
    <3>2. k <= g /\ g < k + 1
      BY <3>1, Z3
    <3>3. QED  BY <2>4, <2>6, <2>10, <2>11, <3>2
  <2>12. CASE r # 0
    <3>1. s * k < s * g /\ s * (g - 1) < s * (k + 1)
      BY <2>3, <2>5, <2>9, <2>12, Z3
    <3>2. k < g /\ g - 1 < k + 1
      BY <3>1, Z3
    <3>3. QED  BY <2>4, <2>6, <2>10, <2>12, <3>2
  <2>13. QED  BY <2>11, <2>12
<1>3. QED  BY <1>1, <1>2

LEMMA LastOf ==
  ASSUME NEW n \in Nat, NEW K, K \subseteq 0..n, K # {}
  PROVE  \E k \in K : \A j \in K : k >= j
<1> DEFINE R == {x \in 0..n : n - x \in K}
<1>1. R \subseteq 0..n /\ R # {}
  <2>1. PICK k \in K : k \in 0..n
    OBVIOUS
  <2>2. n - k \in R
    BY <2>1
  <2>3. QED  BY <2>2
<1>2. PICK m \in R : \A r \in R : m <= r
  BY <1>1, FirstOf
<1>3. ASSUME NEW j \in K PROVE n - m >= j
  <2>1. n - j \in R
    OBVIOUS
  <2>2. QED  BY <1>1, <1>2, <2>1
<1>4. QED  BY <1>2, <1>3

\* The bits of the word that at lies in: the marks k blocks up whose remainder they are.
BitsOf(D, s, place) == {(t \div s) % QuoteWord : t \in {t \in D : (t \div s) \div QuoteWord = place \div QuoteWord}}

LEMMA WordBits ==
  ASSUME QuoteWord \in Nat \ {0}, NEW s \in Nat \ {0}, NEW D, \A t \in D : t \in Int /\ t % s = 0,
         NEW place \in Int, NEW k, k = place \div QuoteWord
  PROVE  /\ \A t \in D : \E m \in Int : m = t \div s /\ t = s * m
         /\ BitsOf(D, s, place) \subseteq 0..(QuoteWord - 1)
         /\ \A x \in 0..(QuoteWord - 1) : x \in BitsOf(D, s, place) <=> s * (QuoteWord * k + x) \in D
<1>0. PICK W \in Nat \ {0} : W = QuoteWord
  OBVIOUS
<1>1. ASSUME NEW t \in D PROVE \E m \in Int : m = t \div s /\ t = s * m
  <2>1. PICK m \in Int, r \in Nat : m = t \div s /\ r = t % s /\ t = s * m + r
    BY RestFound
  <2>2. s * m \in Int /\ r = 0
    BY <2>1, Z3
  <2>3. t = s * m
    BY <2>1, <2>2
  <2>4. QED  BY <2>1, <2>3
<1>2. ASSUME NEW t \in D, (t \div s) \div W = k, NEW r, r = (t \div s) % W
      PROVE  r \in 0..(W - 1) /\ t = s * (W * k + r)
  <2>1. PICK m \in Int : m = t \div s /\ t = s * m
    BY <1>1
  <2>2. PICK q \in Int, u \in Nat : q = m \div W /\ u = m % W /\ u < W /\ m = W * q + u
    BY RestFound
  <2>3. k = q /\ r = u
    BY <1>0, <1>2, <2>1, <2>2
  <2>4. t = s * (W * k + r)
    BY <2>1, <2>2, <2>3, Zenon
  <2>5. QED  BY <2>2, <2>3, <2>4
<1>3. BitsOf(D, s, place) \subseteq 0..(W - 1)
  <2>1. ASSUME NEW t \in D, (t \div s) \div W = k PROVE (t \div s) % W \in 0..(W - 1)
    BY <1>2, <2>1
  <2>2. QED  BY <1>0, <2>1 DEF BitsOf
<1>4. ASSUME NEW x \in 0..(W - 1), x \in BitsOf(D, s, place) PROVE s * (W * k + x) \in D
  <2>1. PICK t \in D : (t \div s) \div W = k /\ x = (t \div s) % W
    BY <1>0, <1>4 DEF BitsOf
  <2>2. QED  BY <1>2, <2>1
<1>5. ASSUME NEW x \in 0..(W - 1), s * (W * k + x) \in D PROVE x \in BitsOf(D, s, place)
  <2>1. k \in Int
    BY QuotientInt
  <2>2. PICK m \in Int : m = W * k + x
    BY <2>1, Z3
  <2>3. PICK t \in D : t = s * m
    BY <1>5, <2>2
  <2>4. t \in Int /\ s * m <= t /\ t < s * m + s
    BY <2>3
  <2>5. t \div s = m
    BY <2>4, BlockOf
  <2>6. W * k <= m /\ m < W * k + W
    BY <2>1, <2>2, Z3
  <2>7. m \div W = k
    BY <2>1, <2>6, BlockOf
  <2>8. PICK q \in Int, r \in Nat : q = m \div W /\ r = m % W /\ m = W * q + r
    BY RestFound
  <2>9. q = k /\ m = W * q + r
    BY <2>7, <2>8
  <2>10. r = x
    <3>1. m = W * k + r
      BY <2>9, Zenon
    <3>2. W * k \in Int
      BY <2>1, Z3
    <3>3. QED  BY <2>2, <3>1, <3>2
  <2>11. QED  BY <1>0, <2>3, <2>5, <2>7, <2>8, <2>10 DEF BitsOf
<1>6. QED  BY <1>0, <1>1, <1>3, <1>4, <1>5

\* The bits that count, on the side of the search.
MaskOf(word, b, lte) == {x \in word : IF lte THEN x <= b ELSE x >= b}

\* The word search names the nearest mark of the word on its side, or the end of the word.
LEMMA MarkFound ==
  ASSUME QuoteWord \in Nat \ {0}, NEW j \in QuoteJobs, NEW to,
         to = nextInitializedTick(j.net, j.tick, j.spacing, j.zeroForOne)
  PROVE  /\ {t \in DOMAIN j.net : IF j.zeroForOne THEN to.next < t /\ t <= j.tick ELSE j.tick < t /\ t < to.next} = {}
         /\ to.initialized = (to.next \in DOMAIN j.net)
         /\ IF j.zeroForOne THEN to.next <= j.tick ELSE to.next > j.tick
<1> DEFINE D == DOMAIN j.net
           lte == j.zeroForOne
           c0 == compress(j.tick, j.spacing)
<1>1. PICK s \in Nat \ {0}, tick \in Int : s = j.spacing /\ tick = j.tick
  BY QuoteAssumption
<1>2. \A t \in D : t \in Int /\ t % s = 0
  BY <1>1, QuoteAssumption
<1>3. PICK W \in Nat \ {0} : W = QuoteWord
  OBVIOUS
<1>4. PICK c \in Int : c = tick \div s /\ c = compress(tick, s) /\ s * c <= tick /\ tick < s * c + s
  <2>1. PICK c \in Int : c = tick \div s
    BY QuotientInt
  <2>2. s * c <= tick /\ tick < s * c + s
    BY <2>1, QuotientBounds
  <2>3. c = compress(tick, s)
    BY <2>1, CompressFloors
  <2>4. QED  BY <2>1, <2>2, <2>3
<1>5. lte \in BOOLEAN
  BY QuoteAssumption
<1>6. PICK place \in Int : place = IF lte THEN c ELSE c + 1
  BY <1>4, <1>5
<1>7. PICK k \in Int, b \in Nat : k = place \div W /\ b = place % W /\ b < W /\ place = W * k + b
  BY RestFound
<1> DEFINE word == BitsOf(D, s, place)
           M == MaskOf(word, b, lte)
           end == IF lte THEN 0 ELSE W - 1
           bit == IF M = {} THEN end ELSE IF lte THEN Max(M) ELSE Min(M)
<1>8. /\ \A t \in D : \E m \in Int : m = t \div s /\ t = s * m
      /\ word \subseteq 0..(W - 1)
      /\ \A x \in 0..(W - 1) : x \in word <=> s * (W * k + x) \in D
  <2>1. k = place \div QuoteWord
    BY <1>3, <1>7
  <2> HIDE DEF D
  <2>2. /\ \A t \in D : \E m \in Int : m = t \div s /\ t = s * m
        /\ BitsOf(D, s, place) \subseteq 0..(QuoteWord - 1)
        /\ \A x \in 0..(QuoteWord - 1) : x \in BitsOf(D, s, place) <=> s * (QuoteWord * k + x) \in D
    BY <1>2, <2>1, WordBits
  <2>3. QED  BY <1>3, <2>2
<1>9. to = [next |-> (place + bit - b) * s, initialized |-> M # {}]
  <2>1. place = compress(j.tick, j.spacing) + (IF j.zeroForOne THEN 0 ELSE 1)
    BY <1>1, <1>4, <1>6
  <2>2. b = place % QuoteWord
    BY <1>3, <1>7
  <2>3. word = {(t \div j.spacing) % QuoteWord :
                  t \in {t \in DOMAIN j.net : (t \div j.spacing) \div QuoteWord = place \div QuoteWord}}
    BY <1>1 DEF BitsOf
  <2>4. M = {x \in word : IF j.zeroForOne THEN x <= b ELSE x >= b}
    BY DEF MaskOf
  <2>5. end = IF j.zeroForOne THEN 0 ELSE QuoteWord - 1
    BY <1>3
  <2> HIDE DEF word, M, end
  <2>6. QED  BY <1>1, <2>1, <2>2, <2>3, <2>4, <2>5 DEF nextInitializedTick
<1>10. M \subseteq 0..(W - 1)
  BY <1>8 DEF MaskOf
<1>11. /\ bit \in 0..(W - 1)
       /\ M # {} => bit \in M
       /\ \A x \in M : IF lte THEN x <= bit ELSE x >= bit
       /\ IF lte THEN bit <= b ELSE bit >= b
       /\ M = {} => bit = end
  <2>1. CASE M = {}
    BY <1>5, <1>7, <2>1
  <2>2. CASE M # {} /\ lte
    <3>1. \E x \in M : \A y \in M : x >= y
      <4>1. W - 1 \in Nat
        OBVIOUS
      <4> HIDE DEF M
      <4>2. QED  BY <1>10, <2>2, <4>1, LastOf
    <3>2. Max(M) \in M /\ \A y \in M : Max(M) >= y
      BY <3>1 DEF Max
    <3>3. Max(M) <= b
      BY <2>2, <3>2 DEF MaskOf
    <3> HIDE DEF M
    <3>4. \A y \in M : y <= Max(M)
      BY <1>10, <3>2
    <3>5. QED  BY <1>10, <2>2, <3>2, <3>3, <3>4
  <2>3. CASE M # {} /\ ~lte
    <3>1. \E x \in M : \A y \in M : x <= y
      <4>1. W - 1 \in Nat
        OBVIOUS
      <4> HIDE DEF M
      <4>2. QED  BY <1>10, <2>3, <4>1, FirstOf
    <3>2. Min(M) \in M /\ \A y \in M : Min(M) <= y
      BY <3>1 DEF Min
    <3>3. Min(M) >= b
      BY <2>3, <3>2 DEF MaskOf
    <3> HIDE DEF M
    <3>4. \A y \in M : y >= Min(M)
      BY <1>10, <3>2
    <3>5. QED  BY <1>10, <2>3, <3>2, <3>3, <3>4
  <2>4. QED  BY <2>1, <2>2, <2>3
<1>12. \A x \in 0..(W - 1) : x \in M <=> s * (W * k + x) \in D /\ (IF lte THEN x <= b ELSE x >= b)
  BY <1>8 DEF MaskOf
<1> HIDE DEF D, word, M, end, bit, lte
<1>13. PICK n \in Int : n = W * k + bit /\ to.next = s * n /\ to.initialized = (M # {})
  <2>1. PICK u \in Int : u = bit
    BY <1>11
  <2>2. W * k \in Int
    BY Z3
  <2>3. place + u - b = W * k + u
    BY <1>7, <2>2
  <2>4. PICK n \in Int : n = W * k + u
    BY <2>2
  <2>5. n * s = s * n
    BY Z3
  <2>6. QED  BY <1>9, <2>1, <2>3, <2>4, <2>5
<1>14. to.initialized = (to.next \in D)
  <2>1. s * (W * k + bit) = to.next
    BY <1>13
  <2>2. bit \in 0..(W - 1) /\ (IF lte THEN bit <= b ELSE bit >= b)
    BY <1>11
  <2>3. bit \in M <=> to.next \in D
    BY <1>12, <2>1, <2>2
  <2>4. bit \in M <=> M # {}
    BY <1>11
  <2>5. QED  BY <1>13, <2>3, <2>4
\* A mark beyond the end of the search on its side is in the word, so it counts.
<1>15. ASSUME NEW t \in D, IF lte THEN to.next < t /\ t <= tick ELSE tick < t /\ t < to.next PROVE FALSE
  <2>1. PICK m \in Int : t = s * m
    BY <1>8
  <2>2. IF lte THEN n < m /\ m <= place ELSE place <= m /\ m < n
    <3>1. CASE lte
      <4>1. s * n < s * m /\ s * m < s * (c + 1) /\ place = c
        <5>1. s * n < s * m /\ s * m <= tick /\ place = c
          BY <1>6, <1>13, <1>15, <2>1, <3>1
        <5>2. s * (c + 1) = s * c + s /\ s * m \in Int /\ s * c \in Int
          BY <1>4, Z3
        <5>3. QED  BY <1>4, <5>1, <5>2
      <4>2. n < m /\ m < c + 1
        BY <4>1, Z3
      <4>3. QED  BY <3>1, <4>1, <4>2
    <3>2. CASE ~lte
      <4>1. s * m < s * n /\ s * c < s * m /\ place = c + 1
        <5>1. s * m < s * n /\ tick < s * m /\ place = c + 1
          BY <1>6, <1>13, <1>15, <2>1, <3>2
        <5>2. s * m \in Int /\ s * c \in Int
          BY Z3
        <5>3. QED  BY <1>4, <5>1, <5>2
      <4>2. m < n /\ c < m
        BY <4>1, Z3
      <4>3. QED  BY <3>2, <4>1, <4>2
    <3>3. QED  BY <1>5, <3>1, <3>2
  <2>3. PICK x \in Int : x = m - W * k /\ m = W * k + x
    <3>1. W * k \in Int
      BY Z3
    <3>2. QED  BY <3>1
  <2>4. IF lte THEN bit < x /\ x <= b ELSE b <= x /\ x < bit
    <3>1. W * k \in Int /\ bit \in Int
      BY <1>11, Z3
    <3>2. place = W * k + b /\ n = W * k + bit
      BY <1>7, <1>13
    <3>3. QED  BY <2>2, <2>3, <3>1, <3>2
  <2>5. x \in 0..(W - 1) /\ (IF lte THEN x <= b ELSE x >= b)
    BY <1>7, <1>11, <2>4
  <2>6. x \in M
    BY <1>12, <2>1, <2>3, <2>5
  <2>7. QED  BY <1>11, <2>4, <2>5, <2>6
<1>16. IF lte THEN to.next <= tick ELSE to.next > tick
  <2>1. W * k \in Int /\ bit \in Int /\ place = W * k + b /\ n = W * k + bit
    <3>1. W * k \in Int
      BY Z3
    <3>2. QED  BY <1>7, <1>11, <1>13, <3>1
  <2>2. CASE lte
    <3>1. n <= c
      BY <1>6, <1>11, <2>1, <2>2
    <3>2. s * n <= s * c /\ s * n \in Int /\ s * c \in Int
      BY <3>1, Z3
    <3>3. QED  BY <1>4, <1>13, <2>2, <3>2
  <2>3. CASE ~lte
    <3>1. n >= c + 1
      BY <1>6, <1>11, <2>1, <2>3
    <3>2. s * n >= s * c + s /\ s * n \in Int /\ s * c \in Int
      BY <3>1, Z3
    <3>3. QED  BY <1>4, <1>13, <2>3, <3>2
  <2>4. QED  BY <1>5, <2>2, <2>3
<1>17. QED  BY <1>1, <1>14, <1>15, <1>16 DEF D, lte

QuoteMade == quoteDone = <<>> \/ \E j \in QuoteJobs : quoteDone = <<j, quoteExactIn(j)>>

\* Whatever the pool's ticks, spacing and word, the word search passes over no
\* initialized tick and says truly whether the one it names is initialized
\* (nextInitializedTickWithinOneWord, compress).
THEOREM NoTickEverSkipped == QuoteSpec => []NoTickSkipped
<1>1. QuoteInit => QuoteMade
  BY DEF QuoteInit, QuoteMade
<1>2. ASSUME QuoteMade, [quoteWithStats]_quoteDone PROVE QuoteMade'
  <2>1. CASE quoteWithStats
    BY <2>1 DEF quoteWithStats, QuoteMade
  <2>2. CASE UNCHANGED quoteDone
    BY <1>2, <2>2 DEF QuoteMade
  <2>3. QED  BY <1>2, <2>1, <2>2
<1>3. ASSUME QuoteMade PROVE NoTickSkipped
  <2>1. ASSUME NEW d \in {quoteDone} \ {<<>>}, NEW j, j = d[1], NEW to,
               to = nextInitializedTick(j.net, j.tick, j.spacing, j.zeroForOne)
        PROVE  /\ (IF j.zeroForOne THEN {t \in DOMAIN j.net : to.next < t /\ t <= j.tick}
                                   ELSE {t \in DOMAIN j.net : j.tick < t /\ t < to.next}) = {}
               /\ to.initialized = (to.next \in DOMAIN j.net)
               /\ IF j.zeroForOne THEN to.next <= j.tick ELSE to.next > j.tick
    <3>1. j \in QuoteJobs
      BY <1>3, <2>1 DEF QuoteMade
    <3>2. /\ {t \in DOMAIN j.net : IF j.zeroForOne THEN to.next < t /\ t <= j.tick ELSE j.tick < t /\ t < to.next} = {}
          /\ to.initialized = (to.next \in DOMAIN j.net)
          /\ IF j.zeroForOne THEN to.next <= j.tick ELSE to.next > j.tick
      BY <2>1, <3>1, QuoteAssumption, MarkFound
    <3>3. QED  BY <3>2
  <2>2. QED  BY <2>1 DEF NoTickSkipped
<1>4. QED  BY <1>1, <1>2, <1>3, PTL DEF QuoteSpec

---------------------------------------------------------------------------
(* The clearing: the best price, rations without loss, plans that verify.  *)

----------------------------------------------------------------------------
(* The solver's clearing: the band.                                        *)

LEMMA FloorAtLeast ==
  ASSUME NEW x \in Int, NEW y \in Nat \ {0}, NEW k \in Int, NEW q, q = x \div y
  PROVE  k <= q <=> k * y <= x
<1>1. q \in Int /\ y * q <= x /\ x < y * q + y
  BY QuotientInt, QuotientBounds
<1>2. k * y = y * k /\ y * k \in Int /\ y * q \in Int /\ y * q + y = y * (q + 1)
  BY <1>1, Z3
<1>3. k <= q => y * k <= y * q
  BY <1>1, Z3
<1>4. y * k < y * (q + 1) => k < q + 1
  BY <1>1, Z3
<1>5. QED  BY <1>1, <1>2, <1>3, <1>4

LEMMA CeilAtMost ==
  ASSUME NEW x \in Int, NEW y \in Nat \ {0}, NEW k \in Int, NEW q, q = ceilDiv(x, y)
  PROVE  q \in Int /\ (q <= k <=> x <= k * y)
<1>1. PICK z \in Int : z = x + y - 1
  OBVIOUS
<1>2. q = z \div y
  BY <1>1 DEF ceilDiv
<1>3. q \in Int /\ y * q <= z /\ z < y * q + y
  BY <1>2, QuotientInt, QuotientBounds
<1>4. k * y = y * k /\ y * k \in Int /\ y * q \in Int /\ y * (k + 1) = y * k + y
  BY <1>3, Z3
<1>5. q <= k => y * q <= y * k
  BY <1>3, Z3
<1>6. y * q < y * (k + 1) => q < k + 1
  BY <1>3, Z3
<1>7. QED  BY <1>1, <1>3, <1>4, <1>5, <1>6

\* A reference the solver is given.
RefHolds(ref) == ref.quotePrice \in Nat \ {0} /\ ref.basePrice \in Nat /\ ref.maxDeviationBps \in 0..BPS

\* The closed forms of the edges.
slackOf(ref) == (ref.basePrice * ref.maxDeviationBps) \div BPS
lowOf(ref)   == ceilDiv((ref.basePrice - slackOf(ref)) * WAD, ref.quotePrice)
highOf(ref)  == ((ref.basePrice + slackOf(ref) + 1) * WAD - 1) \div ref.quotePrice

LEMMA SlackBounds ==
  ASSUME NEW ref, RefHolds(ref)
  PROVE  slackOf(ref) \in 0..ref.basePrice
<1>1. PICK B \in Nat, d \in 0..BPS, c \in Nat \ {0} : B = ref.basePrice /\ d = ref.maxDeviationBps /\ c = BPS
  BY ScaleAssumption DEF RefHolds
<1>2. B * d \in Nat /\ B * d <= B * c
  BY <1>1, Z3
<1>3. PICK x \in Nat : x = B * d
  BY <1>2
<1>8. PICK q : q = x \div c
  OBVIOUS
<1>4. q \in Nat /\ c * q <= x
  BY <1>8, QuotientNat, QuotientBounds
<1>5. c * q <= c * B
  <2>1. c * B = B * c /\ c * q \in Int /\ c * B \in Int
    BY <1>4, Z3
  <2>2. QED  BY <1>2, <1>3, <1>4, <2>1
<1>6. q <= B
  BY <1>4, <1>5, Z3
<1>7. QED  BY <1>1, <1>3, <1>6, <1>8, <1>4 DEF slackOf

\* The prices of the band are those between the closed forms.
LEMMA BandIs ==
  ASSUME NEW ref, RefHolds(ref), NEW p \in Int
  PROVE  inBand(p, ref) <=> lowOf(ref) <= p /\ p <= highOf(ref)
<1>1. PICK B \in Nat, d \in Nat, c \in Nat \ {0}, w \in Nat \ {0}, y \in Nat \ {0}, s \in Nat :
        B = ref.basePrice /\ d = ref.maxDeviationBps /\ c = BPS /\ w = WAD /\ y = ref.quotePrice /\ s = slackOf(ref)
  BY ScaleAssumption, SlackBounds DEF RefHolds
<1>2. PICK x \in Int : x = p * y
  BY Z3
<1>3. PICK u : u = x \div w
  OBVIOUS
<1>4. u \in Int
  BY <1>3, QuotientInt
<1>5. PICK n \in Int : n = B * d
  BY Z3
<1>6. s = n \div c
  BY <1>1, <1>5 DEF slackOf
<1>7. PICK e \in Int : e = IF u > B THEN u - B ELSE B - u
  <2>1. u - B \in Int /\ B - u \in Int
    BY <1>4
  <2>2. QED  BY <2>1, Zenon
<1>8. inBand(p, ref) <=> e * c <= n
  BY <1>1, <1>2, <1>3, <1>5, <1>7 DEF inBand, baseUnitPrice, withinBand
<1>9. e <= s <=> e * c <= n
  BY <1>6, FloorAtLeast
<1>10. e <= s <=> B - s <= u /\ ~(B + s + 1 <= u)
  BY <1>4, <1>7
<1>11. PICK a \in Int, b \in Int : a = B - s /\ b = B + s + 1
  OBVIOUS
<1>12. (a <= u <=> a * w <= x) /\ (b <= u <=> b * w <= x)
  BY <1>3, FloorAtLeast
<1>13. PICK L \in Int, H \in Int : L = a * w /\ H = b * w
  <2>1. a * w \in Int /\ b * w \in Int
    BY Z3
  <2>2. QED  BY <2>1
<1>14. lowOf(ref) = ceilDiv(L, y)
  BY <1>1, <1>11, <1>13 DEF lowOf
<1>15. lowOf(ref) <= p <=> L <= x
  BY <1>2, <1>14, CeilAtMost
<1>16. highOf(ref) = (H - 1) \div y
  BY <1>1, <1>11, <1>13 DEF highOf
<1>17. p <= highOf(ref) <=> x <= H - 1
  <2>1. H - 1 \in Int
    OBVIOUS
  <2>2. QED  BY <1>2, <1>16, <2>1, FloorAtLeast
<1>18. QED  BY <1>8, <1>9, <1>10, <1>11, <1>12, <1>13, <1>15, <1>17

LEMMA NudgeOutStays ==
  ASSUME NEW ref, NEW x \in Int, NEW step \in Int, ~inBand(x + step, ref)
  PROVE  nudgeOut(x, step, ref) = x
BY DEF nudgeOut

LEMMA NudgeInStays ==
  ASSUME NEW ref, NEW x \in Int, NEW step \in Int, inBand(x, ref)
  PROVE  nudgeIn(x, step, ref) = x
BY DEF nudgeIn

LEMMA NudgeInInt ==
  ASSUME NEW ref, NEW x \in Int, NEW step \in Int
  PROVE  nudgeIn(x, step, ref) \in Int
<1> DEFINE in(y) == IF inBand(y, ref) THEN y ELSE y + step
<1>1. \A y \in Int : in(y) \in Int
  OBVIOUS
<1>2. nudgeIn(x, step, ref) = in(in(in(in(x))))
  BY DEF nudgeIn
<1> HIDE DEF in
<1>3. QED  BY <1>1, <1>2

LEMMA EdgesInt ==
  ASSUME NEW ref, RefHolds(ref)
  PROVE  lowOf(ref) \in Nat /\ highOf(ref) \in Int
<1>1. PICK B \in Nat, w \in Nat \ {0}, y \in Nat \ {0}, s \in Nat :
        B = ref.basePrice /\ w = WAD /\ y = ref.quotePrice /\ s = slackOf(ref) /\ s <= B
  BY ScaleAssumption, SlackBounds DEF RefHolds
<1>2. PICK a \in Nat, b \in Nat : a = B - s /\ b = B + s + 1
  BY <1>1
<1>3. PICK L \in Nat, H \in Nat : L = a * w /\ H = b * w
  <2>1. a * w \in Nat /\ b * w \in Nat
    BY Z3
  <2>2. QED  BY <2>1
<1>4. PICK z \in Nat, v \in Int : z = L + y - 1 /\ v = H - 1
  OBVIOUS
<1>5. lowOf(ref) = z \div y /\ highOf(ref) = v \div y
  BY <1>1, <1>2, <1>3, <1>4 DEF lowOf, highOf, ceilDiv
<1>6. z \div y \in Nat
  BY QuotientNat
<1>7. v \div y \in Int
  BY QuotientInt
<1>8. QED  BY <1>5, <1>6, <1>7

\* The corrections of bandEdges change nothing: its closed forms are exact.
LEMMA EdgesAre ==
  ASSUME NEW ref, RefHolds(ref)
  PROVE  bandEdges(ref) = IF lowOf(ref) <= highOf(ref) THEN <<lowOf(ref), highOf(ref)>> ELSE <<>>
<1> DEFINE lo0 == lowOf(ref)
           hi0 == highOf(ref)
<1>1. lo0 \in Nat /\ hi0 \in Int
  BY EdgesInt
<1>2. \A p \in Int : inBand(p, ref) <=> lo0 <= p /\ p <= hi0
  BY BandIs
<1>3. bandEdges(ref) = edgesWithin(nudgeIn(nudgeOut(lo0, -1, ref), 1, ref), nudgeIn(nudgeOut(hi0, 1, ref), -1, ref), ref)
  BY DEF bandEdges, lowOf, highOf, slackOf
<1> HIDE DEF lo0, hi0
<1>4. ~inBand(lo0 + (-1), ref) /\ ~inBand(hi0 + 1, ref)
  BY <1>1, <1>2
<1>5. nudgeOut(lo0, -1, ref) = lo0 /\ nudgeOut(hi0, 1, ref) = hi0
  BY <1>1, <1>4, NudgeOutStays
<1>6. CASE lo0 <= hi0
  <2>1. inBand(lo0, ref) /\ inBand(hi0, ref)
    BY <1>1, <1>2, <1>6
  <2>2. nudgeIn(lo0, 1, ref) = lo0 /\ nudgeIn(hi0, -1, ref) = hi0
    BY <1>1, <2>1, NudgeInStays
  <2>3. QED  BY <1>1, <1>3, <1>5, <1>6, <2>1, <2>2 DEF edgesWithin, lo0, hi0
<1>7. CASE ~(lo0 <= hi0)
  <2>1. nudgeIn(lo0, 1, ref) \in Int
    BY <1>1, NudgeInInt
  <2>2. ~inBand(nudgeIn(lo0, 1, ref), ref)
    BY <1>1, <1>2, <1>7, <2>1
  <2>3. QED  BY <1>3, <1>5, <1>7, <2>2 DEF edgesWithin, lo0, hi0
<1>8. QED  BY <1>6, <1>7

\* The highest price of the band is below the bound of the search.
LEMMA HighBelow ==
  ASSUME NEW ref, RefHolds(ref)
  PROVE  highOf(ref) <= (2 * ref.basePrice * WAD) \div ref.quotePrice + WAD
<1>1. PICK B \in Nat, w \in Nat \ {0}, y \in Nat \ {0}, s \in Nat :
        B = ref.basePrice /\ w = WAD /\ y = ref.quotePrice /\ s = slackOf(ref) /\ s <= B
  BY ScaleAssumption, SlackBounds DEF RefHolds
<1>2. PICK b \in Nat, c \in Nat : b = B + s + 1 /\ c = 2 * B /\ b <= c + 1
  BY <1>1
<1>3. PICK H \in Nat, A \in Nat : H = b * w /\ A = c * w /\ H <= A + w
  <2>1. b * w \in Nat /\ c * w \in Nat /\ b * w <= (c + 1) * w /\ (c + 1) * w = c * w + w
    BY <1>2, Z3
  <2>2. QED  BY <2>1
<1>4. PICK v \in Int : v = H - 1
  OBVIOUS
<1>5. PICK q, t : q = v \div y /\ t = A \div y
  OBVIOUS
<1>6. q \in Int /\ y * q <= v /\ v < y * q + y
  BY <1>5, QuotientInt, QuotientBounds
<1>7. t \in Int /\ y * t <= A /\ A < y * t + y
  BY <1>5, QuotientInt, QuotientBounds
<1>8. q <= t + w
  <2>1. y * q \in Int /\ y * t \in Int /\ w <= y * w /\ y * w \in Int
    BY <1>6, <1>7, Z3
  <2>2. y * q < y * t + y + y * w
    BY <1>3, <1>4, <1>6, <1>7, <2>1
  <2>3. y * t + y + y * w = y * (t + w + 1)
    BY <1>7, Z3
  <2>4. y * q < y * (t + w + 1) => q < t + w + 1
    BY <1>6, <1>7, Z3
  <2>5. QED  BY <1>6, <1>7, <2>2, <2>3, <2>4
<1>9. highOf(ref) = q /\ (2 * ref.basePrice * WAD) \div ref.quotePrice = t
  BY <1>1, <1>2, <1>3, <1>4, <1>5 DEF highOf
<1>10. QED  BY <1>1, <1>8, <1>9

\* A job that has an outcome is one of the jobs.
JobDone == clearingDone = <<>> \/ \E j \in ClearingJobs : clearingDone = <<j, solved(j)>>

LEMMA JobKept == ClearingSpec => []JobDone
<1>1. ClearingInit => JobDone
  BY DEF ClearingInit, JobDone
<1>2. JobDone /\ [solve]_clearingDone => JobDone'
  BY DEF solve, JobDone
<1>3. QED  BY <1>1, <1>2, PTL DEF ClearingSpec

LEMMA RefOfJob ==
  ASSUME NEW j \in ClearingJobs
  PROVE  RefHolds(j.ref)
BY ClearingAssumption DEF RefHolds

LEMMA EdgesExact == JobDone => BandEdgesExact
<1> SUFFICES ASSUME JobDone, NEW d \in {clearingDone} \ {<<>>}
             PROVE  {p \in 0..((2 * d[1].ref.basePrice * WAD) \div d[1].ref.quotePrice + WAD) : inBand(p, d[1].ref)}
                    = IF bandEdges(d[1].ref) = <<>> THEN {} ELSE bandEdges(d[1].ref)[1]..bandEdges(d[1].ref)[2]
  BY DEF BandEdgesExact
<1>1. PICK ref : ref = d[1].ref /\ RefHolds(ref)
  BY RefOfJob DEF JobDone
<1>2. PICK lo, hi : lo = lowOf(ref) /\ hi = highOf(ref)
  OBVIOUS
<1>3. lo \in Nat /\ hi \in Int
  BY <1>1, <1>2, EdgesInt
<1>4. \A p \in Int : inBand(p, ref) <=> lo <= p /\ p <= hi
  BY <1>1, <1>2, BandIs
<1>5. PICK top : top = (2 * ref.basePrice * WAD) \div ref.quotePrice + WAD
  OBVIOUS
<1>6. hi <= top
  BY <1>1, <1>2, <1>5, HighBelow
<1>7. top \in Int
  <2>1. PICK x \in Int, y \in Nat \ {0} : x = 2 * ref.basePrice * WAD /\ y = ref.quotePrice
    <3>1. PICK B \in Int, w \in Int : B = ref.basePrice /\ w = WAD
      BY <1>1, ScaleAssumption DEF RefHolds
    <3>2. 2 * B * w \in Int
      BY Z3
    <3>3. QED  BY <1>1, <3>1, <3>2 DEF RefHolds
  <2>2. x \div y \in Int
    BY QuotientInt
  <2>3. QED  BY <1>5, <2>1, <2>2, ScaleAssumption
<1>8. {p \in 0..top : inBand(p, ref)} = lo..hi
  BY <1>3, <1>4, <1>6, <1>7
<1>9. bandEdges(ref) = IF lo <= hi THEN <<lo, hi>> ELSE <<>>
  BY <1>1, <1>2, EdgesAre
<1>10. CASE lo <= hi
  <2>1. bandEdges(ref)[1] = lo /\ bandEdges(ref)[2] = hi /\ bandEdges(ref) # <<>>
    BY <1>9, <1>10
  <2>2. QED  BY <1>1, <1>5, <1>8, <2>1
<1>11. CASE ~(lo <= hi)
  <2>1. lo..hi = {} /\ bandEdges(ref) = <<>>
    BY <1>3, <1>9, <1>11
  <2>2. QED  BY <1>1, <1>5, <1>8, <2>1
<1>12. QED  BY <1>10, <1>11

LEMMA ApartInt == ASSUME NEW x \in Int, NEW y \in Int PROVE apart(x, y) \in Int
BY DEF apart

\* What clear compares.
Judged(v) == v.executable \in Int /\ v.imbalance \in Int /\ v.price \in Int

LEMMA BetterOrders ==
  ASSUME NEW a, NEW b, NEW c, NEW r \in Int, Judged(a), Judged(b), Judged(c)
  PROVE  /\ better(a, b, r) /\ better(b, c, r) => better(a, c, r)
         /\ ~better(a, a, r)
         /\ a.price # b.price => better(a, b, r) \/ better(b, a, r)
<1>1. PICK x \in Int, y \in Int, z \in Int : x = apart(a.price, r) /\ y = apart(b.price, r) /\ z = apart(c.price, r)
  BY ApartInt DEF Judged
<1>2. QED  BY <1>1 DEF better, Judged

\* Of finitely many prices one is better than each other.
LEMMA BestExists ==
  ASSUME NEW K, IsFiniteSet(K), K # {}, NEW V, NEW r \in Int, \A k \in K : Judged(V[k]) /\ V[k].price = k
  PROVE  \E k \in K : \A j \in K : j # k => better(V[k], V[j], r)
<1> DEFINE upper == [k \in K |-> {j \in K : better(V[j], V[k], r)}]
<1>1. \A k \in K : upper[k] \subseteq K
  OBVIOUS
<1>2. PICK k \in K : \A j \in K : ~(upper[j] \subseteq upper[k] /\ upper[j] # upper[k])
  <2> HIDE DEF upper
  <2>1. QED  BY <1>1, SmallestOf
<1>3. ASSUME NEW j \in K, j # k PROVE better(V[k], V[j], r)
  <2> SUFFICES ASSUME ~better(V[k], V[j], r) PROVE FALSE
    OBVIOUS
  <2>1. better(V[j], V[k], r)
    BY <1>3, BetterOrders
  <2>2. j \in upper[k] /\ j \notin upper[j]
    BY <2>1, BetterOrders
  <2>3. upper[j] \subseteq upper[k]
    <3> SUFFICES ASSUME NEW i \in K, better(V[i], V[j], r) PROVE better(V[i], V[k], r)
      OBVIOUS
    <3>1. QED  BY <2>1, BetterOrders
  <2>4. QED  BY <1>2, <2>2, <2>3
<1>4. QED  BY <1>3

\* The intents a job may hold.
IntentsHold(intents) ==
  /\ IsFiniteSet(DOMAIN intents)
  /\ \A k \in DOMAIN intents : intents[k].sellAmount \in Nat /\ intents[k].minBuyAmount \in Nat

LEMMA JobIntents ==
  ASSUME NEW j \in ClearingJobs
  PROVE  /\ IntentsHold(j.intents) /\ Len(j.intents) \in Nat /\ DOMAIN j.intents = 1..Len(j.intents)
         /\ \A k \in DOMAIN j.intents : {j.intents[k].sellToken, j.intents[k].buyToken} = {"quote", "base"}
<1>1. j.intents \in Seq({j.intents[k] : k \in DOMAIN j.intents})
  BY ClearingAssumption
<1>2. Len(j.intents) \in Nat /\ DOMAIN j.intents = 1..Len(j.intents)
  <2> DEFINE A == {j.intents[k] : k \in DOMAIN j.intents}
  <2>1. j.intents \in Seq(A)
    BY <1>1
  <2> HIDE DEF A
  <2>2. QED  BY <2>1
<1>3. IsFiniteSet(DOMAIN j.intents)
  <2>1. 1 \in Int /\ Len(j.intents) \in Int
    BY <1>2
  <2>2. QED  BY <1>2, <2>1, FS_Interval
<1>4. \A k \in DOMAIN j.intents : /\ j.intents[k].sellAmount \in Nat /\ j.intents[k].minBuyAmount \in Nat
                                 /\ {j.intents[k].sellToken, j.intents[k].buyToken} = {"quote", "base"}
  BY ClearingAssumption
<1>5. QED  BY <1>2, <1>3, <1>4 DEF IntentsHold

\* Those of one side that accept a price, and what they ask for.
legsAt(intents, buy, price) == {k \in DOMAIN intents : sellsQuote(intents[k]) = buy /\ acceptsAt(intents[k], price)}
asked(intents) == [k \in DOMAIN intents |-> intents[k].minBuyAmount]
offered(intents) == [k \in DOMAIN intents |-> intents[k].sellAmount]
demandAt(intents, price) == SumFunctionOnSet(asked(intents), legsAt(intents, TRUE, price))
supplyAt(intents, price) == SumFunctionOnSet(offered(intents), legsAt(intents, FALSE, price))

LEMMA VolumeIs ==
  ASSUME NEW intents, NEW p
  PROVE  LET d == demandAt(intents, p)
             s == supplyAt(intents, p)
         IN  volumeAt(intents, p) = [executable |-> smaller(d, s), imbalance |-> IF d > s THEN d - s ELSE s - d, price |-> p]
BY DEF volumeAt, demandAt, supplyAt, legsAt, asked, offered

LEMMA SidesNat ==
  ASSUME NEW intents, IntentsHold(intents), NEW p
  PROVE  demandAt(intents, p) \in Nat /\ supplyAt(intents, p) \in Nat
<1>1. \A b : IsFiniteSet(legsAt(intents, b, p)) /\ legsAt(intents, b, p) \subseteq DOMAIN intents
  <2>1. \A b : legsAt(intents, b, p) \subseteq DOMAIN intents
    BY DEF legsAt
  <2>2. QED  BY <2>1, FS_Subset DEF IntentsHold
<1>2. \A k \in DOMAIN intents : asked(intents)[k] \in Nat /\ offered(intents)[k] \in Nat
  BY DEF asked, offered, IntentsHold
<1>3. QED  BY <1>1, <1>2, SumNat DEF demandAt, supplyAt

LEMMA VolumeJudged ==
  ASSUME NEW intents, IntentsHold(intents), NEW p \in Int
  PROVE  Judged(volumeAt(intents, p)) /\ volumeAt(intents, p).price = p
<1>1. PICK d \in Nat, s \in Nat : d = demandAt(intents, p) /\ s = supplyAt(intents, p)
  BY SidesNat
<1>2. volumeAt(intents, p) = [executable |-> smaller(d, s), imbalance |-> IF d > s THEN d - s ELSE s - d, price |-> p]
  BY <1>1, VolumeIs
<1>3. smaller(d, s) \in Int /\ (IF d > s THEN d - s ELSE s - d) \in Int
  BY DEF smaller
<1>4. QED  BY <1>2, <1>3 DEF Judged

\* More who take part at a price execute no less.
LEMMA VolumeGrows ==
  ASSUME NEW intents, IntentsHold(intents), NEW p \in Int, NEW q \in Int,
         \A k \in legsAt(intents, TRUE, p) : intents[k].minBuyAmount # 0 => k \in legsAt(intents, TRUE, q),
         legsAt(intents, FALSE, p) \subseteq legsAt(intents, FALSE, q)
  PROVE  volumeAt(intents, p).executable <= volumeAt(intents, q).executable
<1> DEFINE A == legsAt(intents, TRUE, p)
           B == legsAt(intents, TRUE, q)
           a == asked(intents)
           C == {k \in A : intents[k].minBuyAmount # 0}
<1>1. A \subseteq DOMAIN intents /\ B \subseteq DOMAIN intents /\ C \subseteq A /\ C \subseteq B
  BY DEF legsAt
<1>2. IsFiniteSet(A) /\ IsFiniteSet(B) /\ IsFiniteSet(C)
  BY <1>1, FS_Subset DEF IntentsHold
<1>3. \A k \in DOMAIN intents : a[k] \in Nat /\ a[k] \in Int
  BY DEF asked, IntentsHold
<1>4. \A k \in A : k \notin C => a[k] = 0
  BY <1>1 DEF asked
<1> HIDE DEF A, B, C, a
<1>5. SumFunctionOnSet(a, A) = SumFunctionOnSet(a, C)
  BY <1>1, <1>2, <1>3, <1>4, SumRestrict
<1>6. SumFunctionOnSet(a, C) <= SumFunctionOnSet(a, B)
  BY <1>1, <1>2, <1>3, SumSubset
<1>7. demandAt(intents, p) <= demandAt(intents, q)
  BY <1>5, <1>6 DEF demandAt, A, B, a
<1>8. supplyAt(intents, p) <= supplyAt(intents, q)
  <2>1. \A k \in DOMAIN intents : offered(intents)[k] \in Nat
    BY DEF offered, IntentsHold
  <2>2. legsAt(intents, FALSE, q) \subseteq DOMAIN intents
    BY DEF legsAt
  <2>3. IsFiniteSet(legsAt(intents, FALSE, q))
    BY <2>2, FS_Subset DEF IntentsHold
  <2>4. QED  BY <2>1, <2>2, <2>3, SumSubset DEF supplyAt
<1>9. demandAt(intents, p) \in Nat /\ supplyAt(intents, p) \in Nat /\ demandAt(intents, q) \in Nat /\ supplyAt(intents, q) \in Nat
  BY SidesNat
<1>10. smaller(demandAt(intents, p), supplyAt(intents, p)) <= smaller(demandAt(intents, q), supplyAt(intents, q))
  BY <1>7, <1>8, <1>9 DEF smaller
<1>11. QED  BY <1>10, VolumeIs

LEMMA AcceptsBelow ==
  ASSUME NEW i, i.sellAmount \in Nat, i.minBuyAmount \in Nat \ {0}, sellsQuote(i), NEW p \in Int
  PROVE  acceptsAt(i, p) <=> p <= (i.sellAmount * WAD) \div i.minBuyAmount
<1>1. PICK s \in Nat, m \in Nat \ {0}, w \in Nat \ {0} : s = i.sellAmount /\ m = i.minBuyAmount /\ w = WAD
  BY ScaleAssumption
<1>2. PICK x \in Int : x = s * w
  <2>1. s * w \in Int
    BY Z3
  <2>2. QED  BY <2>1
<1>3. PICK q : q = x \div m
  OBVIOUS
<1>4. p <= q <=> p * m <= x
  BY <1>3, FloorAtLeast
<1>5. p * m = m * p /\ m * p \in Int
  BY Z3
<1>6. QED  BY <1>1, <1>2, <1>3, <1>4, <1>5 DEF acceptsAt

LEMMA SellerStays ==
  ASSUME NEW i, i.sellAmount \in Nat, i.minBuyAmount \in Nat, ~sellsQuote(i),
         NEW p \in Int, NEW q \in Int, p <= q, acceptsAt(i, p)
  PROVE  acceptsAt(i, q)
<1>1. PICK s \in Nat, m \in Nat, w \in Nat \ {0} : s = i.sellAmount /\ m = i.minBuyAmount /\ w = WAD
  BY ScaleAssumption
<1>2. s * p <= s * q /\ s * p \in Int /\ s * q \in Int /\ m * w \in Int
  BY Z3
<1>3. m * w <= s * p
  BY <1>1 DEF acceptsAt
<1>4. m * w <= s * q
  BY <1>2, <1>3
<1>5. QED  BY <1>1, <1>4 DEF acceptsAt

\* The highest price at which everyone who takes part at p still does, or the
\* upper edge: one clear tries, and it executes no less.
LEMMA TriedAsGood ==
  ASSUME NEW intents, IntentsHold(intents), NEW lo \in Nat, NEW hi \in Nat, NEW p \in lo..hi, p > 0
  PROVE  \E q \in lo..hi : /\ q > 0 /\ (q = hi \/ q \in limitPrices(intents))
                           /\ volumeAt(intents, p).executable <= volumeAt(intents, q).executable
<1> DEFINE last(k) == (intents[k].sellAmount * WAD) \div intents[k].minBuyAmount
           A == {k \in legsAt(intents, TRUE, p) : intents[k].minBuyAmount # 0}
           F == {q \in p..hi : \E k \in A : q = last(k)}
<1>1. \A k \in DOMAIN intents : intents[k].sellAmount \in Nat /\ intents[k].minBuyAmount \in Nat
  BY DEF IntentsHold
<1>2. A \subseteq DOMAIN intents /\ \A k \in A : sellsQuote(intents[k]) /\ acceptsAt(intents[k], p) /\ intents[k].minBuyAmount \in Nat \ {0}
  BY <1>1 DEF legsAt
<1>3. \A k \in A : last(k) \in Int
  <2>1. ASSUME NEW k \in A PROVE last(k) \in Int
    <3>1. PICK s \in Nat, m \in Nat \ {0}, w \in Nat \ {0} : s = intents[k].sellAmount /\ m = intents[k].minBuyAmount /\ w = WAD
      BY <1>1, <1>2, ScaleAssumption
    <3>2. s * w \in Int
      BY Z3
    <3>3. QED  BY <3>1, <3>2, QuotientInt
  <2>2. QED  BY <2>1
<1>4. \A k \in A, q \in Int : acceptsAt(intents[k], q) <=> q <= last(k)
  BY <1>1, <1>2, AcceptsBelow
<1>5. \A k \in A : last(k) \in limitPrices(intents)
  <2>1. ASSUME NEW k \in A PROVE last(k) \in limitPrices(intents)
    <3>0. k \in DOMAIN intents /\ sellsQuote(intents[k]) /\ intents[k].minBuyAmount > 0
      <4> HIDE DEF A
      <4>1. QED  BY <1>2
    <3>1. k \in {i \in DOMAIN intents : sellsQuote(intents[i]) /\ intents[i].minBuyAmount > 0}
      BY <3>0
    <3>2. QED  BY <3>1, Zenon DEF limitPrices
  <2>2. QED  BY <2>1
<1> HIDE DEF last, A
<1>p. \A k \in A : p <= last(k)
  <2>1. p \in Int
    OBVIOUS
  <2>2. QED  BY <1>2, <1>4, <2>1
<1>6. \E q \in p..hi : /\ q = hi \/ q \in limitPrices(intents)
                       /\ \A k \in A : q <= last(k)
  <2>1. CASE F = {}
    <3>1. \A k \in A : p <= last(k) /\ last(k) \notin p..hi
      BY <1>p, <2>1
    <3>2. \A k \in A : hi <= last(k)
      BY <1>3, <3>1
    <3>3. hi \in p..hi
      OBVIOUS
    <3>4. QED  BY <3>2, <3>3
  <2>2. CASE F # {}
    <3>1. F \subseteq 0..hi
      OBVIOUS
    <3>2. PICK q \in F : \A z \in F : q <= z
      <4> HIDE DEF F
      <4>1. QED  BY <2>2, <3>1, FirstOf
    <3>3. ASSUME NEW k \in A PROVE q <= last(k)
      <4>1. p <= last(k)
        BY <1>p
      <4>2. last(k) <= hi => last(k) \in F
        BY <1>3, <4>1
      <4>3. QED  BY <1>3, <3>2, <4>2
    <3>4. q \in limitPrices(intents) /\ q \in p..hi
      BY <1>5
    <3>5. QED  BY <3>3, <3>4
  <2>3. QED  BY <2>1, <2>2
<1>7. PICK q \in p..hi : (q = hi \/ q \in limitPrices(intents)) /\ \A k \in A : q <= last(k)
  BY <1>6
<1>8. q \in lo..hi /\ q > 0 /\ q \in Int /\ p \in Int /\ p <= q
  OBVIOUS
<1>9. \A k \in legsAt(intents, TRUE, p) : intents[k].minBuyAmount # 0 => k \in legsAt(intents, TRUE, q)
  <2> SUFFICES ASSUME NEW k \in legsAt(intents, TRUE, p), intents[k].minBuyAmount # 0
               PROVE  k \in legsAt(intents, TRUE, q)
    OBVIOUS
  <2>1. k \in A
    BY DEF A
  <2>2. acceptsAt(intents[k], q)
    BY <1>4, <1>7, <1>8, <2>1
  <2>3. QED  BY <2>2 DEF legsAt
<1>10. legsAt(intents, FALSE, p) \subseteq legsAt(intents, FALSE, q)
  BY <1>1, <1>8, SellerStays DEF legsAt
<1>11. volumeAt(intents, p).executable <= volumeAt(intents, q).executable
  BY <1>8, <1>9, <1>10, VolumeGrows
<1>12. QED  BY <1>7, <1>8, <1>11

\* clear's choice executes as much as any price of the band.
LEMMA LimitsInt ==
  ASSUME NEW intents, IntentsHold(intents)
  PROVE  limitPrices(intents) \subseteq Int
<1>1. \A k \in DOMAIN intents : intents[k].sellAmount \in Nat /\ intents[k].minBuyAmount \in Nat
  BY DEF IntentsHold
<1>2. ASSUME NEW x \in Nat, NEW y \in Nat PROVE y > 0 => (x * WAD) \div y \in Int /\ ceilDiv(x * WAD, y) \in Int
  <2>1. PICK z \in Int : z = x * WAD
    <3>1. PICK w \in Nat : w = WAD
      BY ScaleAssumption
    <3>2. x * w \in Int
      BY Z3
    <3>3. QED  BY <3>1, <3>2
  <2>2. y > 0 => z \div y \in Int /\ (z + y - 1) \div y \in Int
    BY QuotientInt
  <2>3. QED  BY <2>1, <2>2 DEF ceilDiv
<1>3. QED  BY <1>1, <1>2 DEF limitPrices

\* What clear tries between the edges.
triedBetween(intents, ref, lo, hi) ==
  {q \in limitPrices(intents) \cup {referencePairPrice(ref), lo, hi} : q > 0 /\ lo <= q /\ q <= hi /\ inBand(q, ref)}

LEMMA PairPriceInt ==
  ASSUME NEW ref, RefHolds(ref)
  PROVE  referencePairPrice(ref) \in Int
<1>1. PICK b \in Nat, w \in Nat \ {0}, y \in Nat \ {0} : b = ref.basePrice /\ w = WAD /\ y = ref.quotePrice
  BY ScaleAssumption DEF RefHolds
<1>2. b * w \in Int
  BY Z3
<1>3. QED  BY <1>1, <1>2, QuotientInt DEF referencePairPrice

\* The choice is one of those tried and better than the others.
LEMMA ChosenIs ==
  ASSUME NEW intents, IntentsHold(intents), NEW ref, RefHolds(ref), NEW lo \in Nat, NEW hi \in Nat,
         bandEdges(ref) = <<lo, hi>>, triedBetween(intents, ref, lo, hi) # {}
  PROVE  \E k \in triedBetween(intents, ref, lo, hi) :
           /\ clear(intents, ref) = volumeAt(intents, k)
           /\ \A q \in triedBetween(intents, ref, lo, hi) :
                q = k \/ better(volumeAt(intents, k), volumeAt(intents, q), referencePairPrice(ref))
<1> DEFINE r == referencePairPrice(ref)
           V(q) == volumeAt(intents, q)
           all == limitPrices(intents) \cup {r, lo, hi}
           K == triedBetween(intents, ref, lo, hi)
           winner(c) == \A o \in {V(q) : q \in K} \ {c} : better(c, o, r)
<1>2. r \in Int
  BY PairPriceInt
<1>3. clear(intents, ref) = CHOOSE c \in {V(q) : q \in K} : winner(c)
  BY DEF clear, bestWithin, triedBetween
<1>6. K \subseteq lo..hi
  <2>1. \A x \in limitPrices(intents) : x \in Int
    BY LimitsInt
  <2>2. \A x \in all : x \in Int
    BY <1>2, <2>1
  <2>3. \A x \in K : x \in all /\ lo <= x /\ x <= hi
    BY DEF triedBetween
  <2> HIDE DEF all, K
  <2>4. QED  BY <2>2, <2>3
<1>7. IsFiniteSet(K)
  <2>1. lo \in Int /\ hi \in Int
    OBVIOUS
  <2> HIDE DEF K
  <2>2. QED  BY <1>6, <2>1, FS_Interval, FS_Subset
<1>8. \A x \in K : x \in Int /\ Judged(V(x)) /\ V(x).price = x
  BY <1>6, VolumeJudged
<1> HIDE DEF K, r, V
<1>9. PICK k \in K : \A j \in K : j # k => better(V(k), V(j), r)
  <2> DEFINE W == [x \in K |-> V(x)]
  <2>1. \A x \in K : Judged(W[x]) /\ W[x].price = x
    BY <1>8
  <2> HIDE DEF W
  <2>2. K # {}
    BY DEF K
  <2>3. \E k \in K : \A j \in K : j # k => better(W[k], W[j], r)
    BY <1>2, <1>7, <2>1, <2>2, BestExists
  <2>4. QED  BY <2>3 DEF W
<1>10. V(k) \in {V(x) : x \in K} /\ winner(V(k))
  BY <1>9
<1>11. PICK c : c = clear(intents, ref)
  OBVIOUS
<1>12. c \in {V(x) : x \in K} /\ winner(c)
  BY <1>3, <1>10, <1>11
<1>13. PICK m \in K : c = V(m)
  BY <1>12
<1>14. \A q \in K : q = m \/ V(q) # V(m)
  BY <1>8
<1>15. \A q \in K : q = m \/ better(V(m), V(q), r)
  BY <1>12, <1>13, <1>14
<1>16. QED  BY <1>11, <1>13, <1>15 DEF K, V, r

\* No price clears, or the one chosen is in the band.
LEMMA ClearPrice ==
  ASSUME NEW intents, IntentsHold(intents), NEW ref, RefHolds(ref)
  PROVE  LET c == clear(intents, ref)
         IN  /\ c.price \in Nat
             /\ c = NoClearing \/ (c.price > 0 /\ inBand(c.price, ref))
<1>1. PICK lo, hi : lo = lowOf(ref) /\ hi = highOf(ref)
  OBVIOUS
<1>2. lo \in Nat /\ hi \in Int
  BY <1>1, EdgesInt
<1>3. bandEdges(ref) = IF lo <= hi THEN <<lo, hi>> ELSE <<>>
  BY <1>1, EdgesAre
<1>4. CASE ~(lo <= hi)
  <2>1. clear(intents, ref) = NoClearing
    BY <1>3, <1>4 DEF clear, bestWithin
  <2>2. QED  BY <2>1 DEF NoClearing
<1>5. CASE lo <= hi
  <2>1. hi \in Nat /\ bandEdges(ref) = <<lo, hi>> /\ bandEdges(ref)[1] = lo /\ bandEdges(ref)[2] = hi /\ bandEdges(ref) # <<>>
    BY <1>2, <1>3, <1>5
  <2>2. CASE triedBetween(intents, ref, lo, hi) = {}
    <3>1. clear(intents, ref) = NoClearing
      BY <2>1, <2>2 DEF clear, bestWithin, triedBetween
    <3>2. QED  BY <3>1 DEF NoClearing
  <2>3. CASE triedBetween(intents, ref, lo, hi) # {}
    <3>1. PICK k \in triedBetween(intents, ref, lo, hi) : clear(intents, ref) = volumeAt(intents, k)
      BY <1>2, <2>1, <2>3, ChosenIs
    <3>2. k > 0 /\ lo <= k /\ k <= hi /\ inBand(k, ref)
      BY DEF triedBetween
    <3>3. k \in Int
      BY <1>2, LimitsInt, PairPriceInt DEF triedBetween
    <3>4. volumeAt(intents, k).price = k
      BY VolumeIs
    <3>5. QED  BY <3>1, <3>2, <3>3, <3>4
  <2>4. QED  BY <2>2, <2>3
<1>6. QED  BY <1>4, <1>5

LEMMA ClearBest ==
  ASSUME NEW intents, IntentsHold(intents), NEW ref, RefHolds(ref), NEW lo \in Nat, NEW hi \in Int,
         bandEdges(ref) = <<lo, hi>>, lo <= hi, \A q \in lo..hi : inBand(q, ref), NEW p \in lo..hi, p > 0
  PROVE  volumeAt(intents, p).executable <= clear(intents, ref).executable
<1> DEFINE K == triedBetween(intents, ref, lo, hi)
           V(q) == volumeAt(intents, q)
<1>1. hi \in Nat
  OBVIOUS
<1>2. PICK q \in lo..hi : q > 0 /\ (q = hi \/ q \in limitPrices(intents)) /\ V(p).executable <= V(q).executable
  BY <1>1, TriedAsGood
<1>3. q \in K
  BY <1>2 DEF triedBetween
<1>4. PICK k \in K : /\ clear(intents, ref) = V(k)
                     /\ q = k \/ better(V(k), V(q), referencePairPrice(ref))
  BY <1>1, <1>3, ChosenIs
<1>5. k \in Int
  BY LimitsInt, PairPriceInt DEF triedBetween
<1>6. Judged(V(k)) /\ Judged(V(q)) /\ Judged(V(p))
  BY <1>5, VolumeJudged
<1> HIDE DEF V
<1>7. V(k).executable \in Int /\ V(q).executable \in Int /\ V(p).executable \in Int /\ V(q).executable <= V(k).executable
  BY <1>4, <1>6 DEF Judged, better
<1>8. QED  BY <1>2, <1>4, <1>7 DEF V

LEMMA VolumeBest == JobDone => VolumeMaximal
<1> SUFFICES ASSUME JobDone, NEW d \in {clearingDone} \ {<<>>}, bandEdges(d[1].ref) # <<>>,
                    NEW p \in bandEdges(d[1].ref)[1]..bandEdges(d[1].ref)[2], p > 0
             PROVE  volumeAt(d[1].intents, p).executable <= clear(d[1].intents, d[1].ref).executable
  BY DEF VolumeMaximal
<1>1. PICK ref, intents : ref = d[1].ref /\ intents = d[1].intents /\ RefHolds(ref) /\ IntentsHold(intents)
  BY RefOfJob, JobIntents DEF JobDone
<1>2. PICK lo, hi : lo = lowOf(ref) /\ hi = highOf(ref)
  OBVIOUS
<1>3. lo \in Nat /\ hi \in Int
  BY <1>1, <1>2, EdgesInt
<1>4. bandEdges(ref) = <<lo, hi>> /\ lo <= hi
  BY <1>1, <1>2, EdgesAre
<1>5. \A q \in lo..hi : inBand(q, ref)
  BY <1>1, <1>2, <1>3, BandIs
<1>6. bandEdges(ref)[1] = lo /\ bandEdges(ref)[2] = hi
  BY <1>4
<1>7. p \in lo..hi
  BY <1>1, <1>6
<1>8. QED  BY <1>1, <1>3, <1>4, <1>5, <1>7, ClearBest

----------------------------------------------------------------------------
(* The solver's clearing: rationing.                                       *)

\* ahead[x] are those before x in an order of S.
InOrder(S, earlier) ==
  /\ \A x \in S : earlier[x] \subseteq S /\ x \notin earlier[x]
  /\ \A x, y \in S : x # y => x \in earlier[y] \/ y \in earlier[x]
  /\ \A x, y \in S : x \in earlier[y] => earlier[x] \subseteq earlier[y]

\* Some member of U comes after all the others.
LEMMA LastIn ==
  ASSUME NEW S, IsFiniteSet(S), NEW earlier, InOrder(S, earlier), NEW U, U \subseteq S, U # {}
  PROVE  \E z \in U : \A y \in U : y # z => y \in earlier[z]
<1> DEFINE upper == [z \in U |-> {y \in U : z \in earlier[y]}]
<1>1. IsFiniteSet(U) /\ \A z \in U : upper[z] \subseteq U
  BY FS_Subset
<1>2. PICK z \in U : \A y \in U : ~(upper[y] \subseteq upper[z] /\ upper[y] # upper[z])
  <2> HIDE DEF upper
  <2>1. QED  BY <1>1, SmallestOf
<1>3. ASSUME NEW y \in U, y # z PROVE y \in earlier[z]
  <2> SUFFICES ASSUME y \notin earlier[z] PROVE FALSE
    OBVIOUS
  <2>1. z \in earlier[y]
    BY <1>3 DEF InOrder
  <2>2. y \in upper[z] /\ y \notin upper[y]
    BY <2>1 DEF InOrder
  <2>3. upper[y] \subseteq upper[z]
    BY <2>1 DEF InOrder
  <2>4. QED  BY <1>2, <2>2, <2>3
<1>4. QED  BY <1>3

\* What those up to z get is all they have room for, or all there is.
atMost(left, keeps) == IF left <= 0 THEN 0 ELSE smaller(left, keeps)

LEMMA HandedUpTo ==
  ASSUME NEW S, IsFiniteSet(S), NEW room, DOMAIN room = S, \A x \in S : room[x] \in Nat,
         NEW earlier, InOrder(S, earlier), NEW left \in Int, NEW more, more = handOut(room, earlier, left), NEW z \in S
  PROVE  SumFunctionOnSet(more, earlier[z] \cup {z}) = atMost(left, SumFunctionOnSet(room, earlier[z] \cup {z}))
<1> DEFINE R(T) == SumFunctionOnSet(room, T)
           M(T) == SumFunctionOnSet(more, T)
           T(x) == earlier[x] \cup {x}
           Bad == {x \in S : M(T(x)) # atMost(left, R(T(x)))}
<1> SUFFICES ASSUME Bad # {} PROVE FALSE
  OBVIOUS
<1>1. \A x \in S : earlier[x] \subseteq S /\ x \notin earlier[x] /\ IsFiniteSet(earlier[x]) /\ IsFiniteSet(T(x))
  <2>1. \A x \in S : earlier[x] \subseteq S /\ x \notin earlier[x] /\ T(x) \subseteq S
    BY DEF InOrder
  <2>2. QED  BY <2>1, FS_Subset
<1>2. \A x \in S : more[x] = IF left <= R(earlier[x]) THEN 0 ELSE smaller(room[x], left - R(earlier[x]))
  BY DEF handOut
<1>3. \A x \in S : R(earlier[x]) \in Nat
  <2>1. ASSUME NEW x \in S PROVE R(earlier[x]) \in Nat
    <3>1. IsFiniteSet(earlier[x]) /\ \A y \in earlier[x] : room[y] \in Nat
      BY <1>1
    <3>2. QED  BY <3>1, SumNat
  <2>2. QED  BY <2>1
<1>4. \A x \in S : more[x] \in Int
  BY <1>2, <1>3 DEF smaller
<1>5. PICK b \in Bad : \A y \in Bad : ~(earlier[y] \subseteq earlier[b] /\ earlier[y] # earlier[b])
  <2>1. Bad \subseteq S /\ IsFiniteSet(Bad)
    <3>1. Bad \subseteq S
      OBVIOUS
    <3>2. QED  BY <3>1, FS_Subset
  <2> DEFINE upper == [x \in Bad |-> earlier[x] \cap Bad]
  <2>2. \A x \in Bad : upper[x] \subseteq Bad
    OBVIOUS
  <2>3. PICK b \in Bad : \A y \in Bad : ~(upper[y] \subseteq upper[b] /\ upper[y] # upper[b])
    <3> HIDE DEF upper, Bad
    <3>1. QED  BY <2>1, <2>2, SmallestOf
  <2>4. ASSUME NEW y \in Bad, earlier[y] \subseteq earlier[b], earlier[y] # earlier[b] PROVE FALSE
    <3>1. y \in S /\ b \in S
      BY <2>1
    <3>2. y # b
      BY <2>4
    <3>3. y \in earlier[b]
      <4>1. b \in earlier[y] => b \in earlier[b]
        BY <2>4
      <4>2. QED  BY <3>1, <3>2, <4>1, <1>1 DEF InOrder
    <3>4. y \in upper[b] /\ y \notin upper[y] /\ upper[y] \subseteq upper[b]
      BY <1>1, <2>4, <3>1, <3>3
    <3>5. QED  BY <2>3, <3>4
  <2>5. QED  BY <2>4
<1>6. b \in S /\ M(T(b)) # atMost(left, R(T(b)))
  BY <1>5
<1>7. M(earlier[b]) = atMost(left, R(earlier[b]))
  <2>1. CASE earlier[b] = {}
    <3>1. M(earlier[b]) = 0 /\ R(earlier[b]) = 0
      BY <2>1, SumEmpty
    <3> HIDE DEF M, R
    <3>2. QED  BY <3>1 DEF atMost, smaller
  <2>2. CASE earlier[b] # {}
    <3>0. earlier[b] \subseteq S
      BY <1>1, <1>6
    <3>1. PICK y \in earlier[b] : \A w \in earlier[b] : w # y => w \in earlier[y]
      BY <2>2, <3>0, LastIn
    <3>2. y \in S /\ earlier[y] \subseteq earlier[b]
      BY <1>1, <1>6, <3>1 DEF InOrder
    <3>3. earlier[b] = T(y) /\ earlier[y] # earlier[b]
      BY <1>1, <3>1, <3>2
    <3>4. y \notin Bad
      BY <1>5, <3>2, <3>3
    <3>5. QED  BY <3>2, <3>3, <3>4
  <2>3. QED  BY <2>1, <2>2
<1>8. M(T(b)) = more[b] + M(earlier[b])
  <2>1. \A y \in earlier[b] \cup {b} : more[y] \in Int
    BY <1>1, <1>4, <1>6
  <2>2. QED  BY <1>1, <1>6, <2>1, SumAdd
<1>9. R(T(b)) = room[b] + R(earlier[b])
  <2>0. \A y \in earlier[b] \cup {b} : y \in S
    BY <1>1, <1>6
  <2>1. \A y \in earlier[b] \cup {b} : room[y] \in Int
    BY <2>0
  <2>2. QED  BY <1>1, <1>6, <2>1, SumAdd
<1>10. more[b] = (IF left <= R(earlier[b]) THEN 0 ELSE smaller(room[b], left - R(earlier[b]))) /\ R(earlier[b]) \in Nat /\ room[b] \in Nat
  BY <1>2, <1>3, <1>6
<1> HIDE DEF M, R, T, Bad
<1>11. more[b] + atMost(left, R(earlier[b])) = atMost(left, room[b] + R(earlier[b]))
  BY <1>10 DEF atMost, smaller
<1>12. QED  BY <1>6, <1>7, <1>8, <1>9, <1>11

\* What is handed out is all there is or all there is room for.
LEMMA HandedOut ==
  ASSUME NEW S, IsFiniteSet(S), NEW room, DOMAIN room = S, \A x \in S : room[x] \in Nat,
         NEW earlier, InOrder(S, earlier), NEW left \in Int, NEW more, more = handOut(room, earlier, left)
  PROVE  /\ DOMAIN more = S
         /\ \A x \in S : more[x] \in Nat /\ more[x] <= room[x]
         /\ SumFunction(more) = atMost(left, SumFunction(room))
         /\ SumFunction(more) = SumFunctionOnSet(more, S) /\ SumFunction(room) = SumFunctionOnSet(room, S)
<1>1. DOMAIN more = S
  BY DEF handOut
<1>2. SumFunction(more) = SumFunctionOnSet(more, S) /\ SumFunction(room) = SumFunctionOnSet(room, S)
  BY <1>1 DEF SumFunction
<1>3. \A x \in S : more[x] \in Nat /\ more[x] <= room[x]
  <2>1. ASSUME NEW x \in S PROVE more[x] \in Nat /\ more[x] <= room[x]
    <3>1. IsFiniteSet(earlier[x]) /\ \A y \in earlier[x] : room[y] \in Nat
      <4>1. earlier[x] \subseteq S
        BY DEF InOrder
      <4>2. QED  BY <4>1, FS_Subset
    <3>2. PICK g \in Nat : g = SumFunctionOnSet(room, earlier[x])
      BY <3>1, SumNat
    <3>3. more[x] = IF left <= g THEN 0 ELSE smaller(room[x], left - g)
      BY <3>2 DEF handOut
    <3>4. QED  BY <3>3 DEF smaller
  <2>2. QED  BY <2>1
<1>4. SumFunctionOnSet(more, S) = atMost(left, SumFunctionOnSet(room, S))
  <2>1. CASE S = {}
    <3>1. SumFunctionOnSet(more, S) = 0 /\ SumFunctionOnSet(room, S) = 0
      BY <2>1, SumEmpty
    <3>2. QED  BY <3>1 DEF atMost, smaller
  <2>2. CASE S # {}
    <3>1. PICK z \in S : \A y \in S : y # z => y \in earlier[z]
      BY <2>2, LastIn
    <3>2. earlier[z] \cup {z} = S
      BY <3>1 DEF InOrder
    <3>3. QED  BY <3>2, HandedUpTo
  <2>3. QED  BY <2>1, <2>2
<1>5. QED  BY <1>1, <1>2, <1>3, <1>4

\* Intents of one side: each has a place of its own and trades something.
SideHolds(C) ==
  /\ IsFiniteSet(C)
  /\ \A c \in C : c.size \in Nat \ {0} /\ c.index \in Nat
  /\ \A c, d \in C : c.index = d.index => c = d

LEMMA SidePart ==
  ASSUME NEW C, SideHolds(C), NEW D, D \subseteq C
  PROVE  SideHolds(D)
<1>1. IsFiniteSet(D)
  BY FS_Subset DEF SideHolds
<1>2. QED  BY <1>1 DEF SideHolds

LEMMA AtIs ==
  ASSUME NEW C, NEW c \in C, \A d, e \in C : d.index = e.index => d = e
  PROVE  At(C, c.index) = c
BY DEF At

\* The sum of an allotment, intent by intent.
LEMMA AllottedIs ==
  ASSUME NEW C, SideHolds(C), NEW f, DOMAIN f = Indices(C), NEW g,
         \A c \in C : f[c.index] \in Int /\ g[c] = f[c.index]
  PROVE  Allotted(f) = SumFunctionOnSet(g, C)
<1> DEFINE m == [c \in C |-> c.index]
<1>1. \A c \in C : m[c] = c.index
  OBVIOUS
<1>2. {m[c] : c \in C} = Indices(C)
  BY DEF Indices
<1>3. \A c, d \in C : m[c] = m[d] => c = d
  BY DEF SideHolds
<1> HIDE DEF m
<1>4. \A c \in C : g[c] \in Int /\ f[m[c]] = g[c]
  BY <1>1
<1>5. IsFiniteSet(C)
  BY DEF SideHolds
<1>6. SumFunctionOnSet(f, {m[c] : c \in C}) = SumFunctionOnSet(g, C)
  BY <1>3, <1>4, <1>5, SumRename
<1>7. QED  BY <1>2, <1>6 DEF Allotted, SumFunction

\* The sizes of a part of a side.
sizesIn(C) == [c \in C |-> c.size]

LEMMA SizesIs ==
  ASSUME NEW C, SideHolds(C), NEW D, D \subseteq C
  PROVE  /\ Sizes(D) = SumFunctionOnSet(sizesIn(C), D)
         /\ Sizes(D) \in Nat /\ Sizes(D) <= Sizes(C)
         /\ D # {} => Sizes(D) > 0
<1>1. IsFiniteSet(C) /\ IsFiniteSet(D)
  BY FS_Subset DEF SideHolds
<1>2. \A c \in C : sizesIn(C)[c] = c.size /\ c.size \in Nat \ {0}
  BY DEF sizesIn, SideHolds
<1>3. Sizes(D) = SumFunctionOnSet(sizesIn(D), D) /\ Sizes(C) = SumFunctionOnSet(sizesIn(C), C)
  BY DEF Sizes, SumFunction, sizesIn
<1>4. \A c \in D : sizesIn(D)[c] = sizesIn(C)[c]
  BY <1>2 DEF sizesIn
<1>5. Sizes(D) = SumFunctionOnSet(sizesIn(C), D)
  BY <1>1, <1>3, <1>4, SumSame
<1>6. Sizes(D) \in Nat
  <2>1. \A c \in D : sizesIn(C)[c] \in Nat
    BY <1>2
  <2>2. QED  BY <1>1, <1>5, <2>1, SumNat
<1>7. Sizes(D) <= Sizes(C)
  <2>1. \A c \in C : sizesIn(C)[c] \in Nat
    BY <1>2
  <2>2. QED  BY <1>1, <1>3, <1>5, <2>1, SumSubset
<1>8. ASSUME D # {} PROVE Sizes(D) > 0
  <2>1. PICK c \in D : TRUE
    BY <1>8
  <2>2. IsFiniteSet(D \ {c}) /\ \A x \in D : sizesIn(C)[x] \in Nat /\ sizesIn(C)[x] \in Int
    BY <1>1, <1>2, FS_Subset
  <2>3. SumFunctionOnSet(sizesIn(C), D) = sizesIn(C)[c] + SumFunctionOnSet(sizesIn(C), D \ {c})
    BY <1>1, <2>2, SumRemove
  <2>4. SumFunctionOnSet(sizesIn(C), D \ {c}) \in Nat
    BY <2>2, SumNat
  <2>5. QED  BY <1>2, <1>5, <2>3, <2>4
<1>9. QED  BY <1>5, <1>6, <1>7, <1>8

LEMMA WholeIs ==
  ASSUME NEW C, SideHolds(C)
  PROVE  /\ DOMAIN Whole(C) = Indices(C)
         /\ \A c \in C : Whole(C)[c.index] = c.size
         /\ Allotted(Whole(C)) = Sizes(C)
<1>1. DOMAIN Whole(C) = Indices(C)
  BY DEF Whole
<1>2. \A c \in C : Whole(C)[c.index] = c.size
  <2>1. \A c \in C : c.index \in Indices(C)
    BY DEF Indices
  <2>2. \A c \in C : At(C, c.index) = c
    BY AtIs DEF SideHolds
  <2>3. QED  BY <2>1, <2>2 DEF Whole
<1>3. \A c \in C : Whole(C)[c.index] \in Int /\ sizesIn(C)[c] = Whole(C)[c.index]
  BY <1>2 DEF sizesIn, SideHolds
<1>4. QED  BY <1>1, <1>2, <1>3, AllottedIs, SizesIs

\* What rationing promises of an allotment.
RationedTo(C, cap, a) ==
  /\ DOMAIN a = Indices(C)
  /\ \A c \in C : a[c.index] \in Nat /\ a[c.index] <= c.size /\ (a[c.index] \in {0, c.size} \/ c.partial)
  /\ Allotted(a) \in Nat /\ Allotted(a) <= cap
  /\ Allotted(a) < cap => \A c \in C : c.partial => a[c.index] = c.size

LEMMA SharedOut ==
  ASSUME NEW P, SideHolds(P), \A c \in P : c.partial, NEW rest \in Nat
  PROVE  RationedTo(P, rest, shareOut(P, rest))
<1> DEFINE T     == Sizes(P)
           fl    == [c \in P |-> (c.size * rest) \div T]
           share == [c \in P |-> smaller((c.size * rest) \div T, c.size)]
           room  == [c \in P |-> c.size - share[c]]
           earlier == [c \in P |-> {x \in P : x.index < c.index}]
           left  == rest - SumFunction(share)
           more  == handOut(room, earlier, left)
           a     == shareOut(P, rest)
<1>1. IsFiniteSet(P) /\ T \in Nat /\ \A c \in P : c.size \in Nat \ {0} /\ c.index \in Nat
  BY SizesIs DEF SideHolds
<1>2. \A c \in P : T \in Nat \ {0}
  BY SizesIs
<1>3. ASSUME NEW c \in P
      PROVE  /\ fl[c] \in Nat /\ T * fl[c] <= rest * c.size /\ rest * c.size < T * fl[c] + T
             /\ share[c] \in Nat /\ share[c] <= c.size /\ share[c] <= fl[c]
  <2>1. PICK s \in Nat, t \in Nat \ {0} : s = c.size /\ t = T
    BY <1>1, <1>2
  <2>2. PICK x \in Nat : x = s * rest /\ x = rest * s
    <3>1. s * rest \in Nat /\ s * rest = rest * s
      BY Z3
    <3>2. QED  BY <3>1
  <2>3. PICK q : q = x \div t
    OBVIOUS
  <2>4. q \in Nat /\ t * q <= x /\ x < t * q + t
    BY <2>3, QuotientNat, QuotientBounds
  <2>5. fl[c] = q /\ share[c] = smaller(q, s)
    BY <2>1, <2>2, <2>3
  <2>6. smaller(q, s) \in Nat /\ smaller(q, s) <= s /\ smaller(q, s) <= q
    BY <2>4 DEF smaller
  <2> HIDE DEF fl, share
  <2>7. QED  BY <2>1, <2>2, <2>4, <2>5, <2>6
<1>4. SumFunction(share) = SumFunctionOnSet(share, P)
  BY DEF SumFunction
<1>5. SumFunctionOnSet(share, P) \in Nat /\ SumFunctionOnSet(share, P) <= rest
  <2>1. \A c \in P : fl[c] \in Int /\ fl[c] \in Nat /\ share[c] \in Nat /\ share[c] \in Int /\ share[c] <= fl[c]
    BY <1>3
  <2>2. CASE P = {}
    BY <2>2, SumEmpty
  <2>3. CASE P # {}
    <3>1. SumFunctionOnSet(sizesIn(P), P) = T
      BY SizesIs
    <3>2. T \in Nat \ {0}
      BY <1>2, <2>3
    <3>3. \A c \in P : sizesIn(P)[c] \in Nat /\ fl[c] \in Nat /\ T * fl[c] <= rest * sizesIn(P)[c] /\ rest * sizesIn(P)[c] < T * fl[c] + T
      BY <1>1, <1>3 DEF sizesIn
    <3> HIDE DEF fl, share, T
    <3>4. SumFunctionOnSet(fl, P) <= rest
      BY <1>1, <2>3, <3>1, <3>2, <3>3, SharesOfAll
    <3>5. SumFunctionOnSet(share, P) <= SumFunctionOnSet(fl, P)
      BY <1>1, <2>1, SumMonotone
    <3>6. SumFunctionOnSet(share, P) \in Nat /\ SumFunctionOnSet(fl, P) \in Nat
      BY <1>1, <2>1, SumNat
    <3>7. QED  BY <3>4, <3>5, <3>6
  <2>4. QED  BY <2>2, <2>3
<1>6. left \in Nat /\ left = rest - SumFunctionOnSet(share, P)
  <2> HIDE DEF share
  <2>1. QED  BY <1>4, <1>5
<1>7. DOMAIN room = P /\ \A c \in P : room[c] = c.size - share[c] /\ room[c] \in Nat
  <2>1. \A c \in P : room[c] = c.size - share[c]
    OBVIOUS
  <2> HIDE DEF share
  <2>2. QED  BY <1>1, <1>3, <2>1
<1>8. InOrder(P, earlier)
  <2>1. \A c, d \in P : c.index \in Nat /\ d.index \in Nat /\ (c.index = d.index => c = d)
    BY DEF SideHolds
  <2>2. QED  BY <2>1 DEF InOrder
<1>9. a = [n \in Indices(P) |-> share[At(P, n)] + more[At(P, n)]]
  BY DEF shareOut
<1> HIDE DEF fl, share, room, earlier, left, more, T, a
<1>10. /\ DOMAIN more = P /\ \A c \in P : more[c] \in Nat /\ more[c] <= room[c]
       /\ SumFunctionOnSet(more, P) = atMost(left, SumFunctionOnSet(room, P))
  <2>1. more = handOut(room, earlier, left)
    BY DEF more
  <2>2. left \in Int
    BY <1>6
  <2>3. QED  BY <1>1, <1>7, <1>8, <2>1, <2>2, HandedOut
<1>11. DOMAIN a = Indices(P) /\ \A c \in P : a[c.index] = share[c] + more[c]
  <2>1. \A c \in P : c.index \in Indices(P)
    BY DEF Indices
  <2>2. \A c \in P : At(P, c.index) = c
    BY AtIs DEF SideHolds
  <2>3. QED  BY <1>9, <2>1, <2>2
<1>12. \A c \in P : a[c.index] \in Nat /\ a[c.index] <= c.size /\ share[c] \in Nat /\ more[c] \in Nat
  BY <1>1, <1>3, <1>7, <1>10, <1>11
<1> DEFINE g == [c \in P |-> a[c.index]]
<1>13. \A c \in P : a[c.index] \in Int /\ g[c] = a[c.index]
  BY <1>12
<1>14. \A c \in P : share[c] \in Int /\ more[c] \in Int /\ room[c] \in Int /\ sizesIn(P)[c] = share[c] + room[c] /\ g[c] = share[c] + more[c]
  BY <1>1, <1>7, <1>11, <1>12 DEF sizesIn
<1> HIDE DEF g
<1>15. Allotted(a) = SumFunctionOnSet(g, P)
  BY <1>11, <1>13, AllottedIs
<1>16. SumFunctionOnSet(g, P) = SumFunctionOnSet(share, P) + SumFunctionOnSet(more, P)
  BY <1>1, <1>14, SumPlus
<1>17. SumFunctionOnSet(room, P) \in Nat /\ SumFunctionOnSet(more, P) \in Nat
  BY <1>1, <1>7, <1>10, SumNat
<1>18. Allotted(a) \in Nat /\ Allotted(a) <= rest
  BY <1>5, <1>6, <1>10, <1>15, <1>16, <1>17 DEF atMost, smaller
<1>19. ASSUME Allotted(a) < rest, NEW c \in P PROVE a[c.index] = c.size
  <2>1. SumFunctionOnSet(more, P) = SumFunctionOnSet(room, P)
    BY <1>5, <1>6, <1>10, <1>15, <1>16, <1>17, <1>19 DEF atMost, smaller
  <2>2. more[c] = room[c]
    <3> SUFFICES ASSUME more[c] # room[c] PROVE FALSE
      OBVIOUS
    <3> DEFINE P1 == P \ {c}
    <3>1. IsFiniteSet(P1) /\ P1 \subseteq P
      BY <1>1, FS_Subset
    <3>2. \A x \in P : more[x] \in Int /\ room[x] \in Int
      BY <1>14
    <3>3. SumFunctionOnSet(more, P) = more[c] + SumFunctionOnSet(more, P1)
      BY <1>1, <3>2, SumRemove
    <3>4. SumFunctionOnSet(room, P) = room[c] + SumFunctionOnSet(room, P1)
      BY <1>1, <3>2, SumRemove
    <3>5. \A x \in P1 : more[x] \in Int /\ room[x] \in Int /\ more[x] <= room[x]
      BY <1>10, <3>2
    <3> HIDE DEF P1
    <3>6. SumFunctionOnSet(more, P1) <= SumFunctionOnSet(room, P1)
      BY <3>1, <3>5, SumMonotone
    <3>7. SumFunctionOnSet(more, P1) \in Int /\ SumFunctionOnSet(room, P1) \in Int
      BY <3>1, <3>5, SumInt
    <3>8. more[c] < room[c] /\ more[c] \in Int /\ room[c] \in Int
      BY <1>7, <1>10
    <3>9. PICK m \in Int, r \in Int, M \in Int, R \in Int :
            m = more[c] /\ r = room[c] /\ M = SumFunctionOnSet(more, P1) /\ R = SumFunctionOnSet(room, P1)
      BY <3>7, <3>8
    <3>10. m + M = r + R /\ m < r /\ M <= R
      BY <2>1, <3>3, <3>4, <3>6, <3>8, <3>9
    <3>11. QED  BY <3>10
  <2>3. QED  BY <1>1, <1>7, <1>11, <1>12, <2>2
<1>20. QED  BY <1>11, <1>12, <1>18, <1>19 DEF RationedTo, a

\* The whole intents taken fit the share.
LEMMA TakenWholeFits ==
  ASSUME NEW W, SideHolds(W), NEW share \in Nat
  PROVE  takenWhole(W, share) \subseteq W /\ Sizes(takenWhole(W, share)) <= share
<1> DEFINE taken == takenWhole(W, share)
           earlier == [c \in W |-> smallestUpTo(W, c) \ {c}]
<1>1. taken \subseteq W
  BY DEF takenWhole
<1>2. CASE taken = {}
  <2>1. Sizes(taken) = SumFunctionOnSet(sizesIn(W), taken)
    BY <1>1, SizesIs
  <2>2. Sizes(taken) = 0
    BY <1>2, <2>1, SumEmpty
  <2>3. QED  BY <1>1, <2>2
<1>3. CASE taken # {}
  <2>1. \A c, d \in W : c.index \in Nat /\ d.index \in Nat /\ c.size \in Nat /\ d.size \in Nat /\ (c.index = d.index => c = d)
    BY DEF SideHolds
  <2>2. InOrder(W, earlier)
    BY <2>1 DEF InOrder, smallestUpTo
  <2>3. IsFiniteSet(W)
    BY DEF SideHolds
  <2>4. PICK z \in taken : \A y \in taken : y # z => y \in earlier[z]
    <3> HIDE DEF earlier, taken
    <3>1. QED  BY <1>1, <1>3, <2>2, <2>3, LastIn
  <2>5. z \in W /\ z \in smallestUpTo(W, z) /\ Sizes(smallestUpTo(W, z)) <= share
    BY <1>1, <2>1, <2>4 DEF smallestUpTo, takenWhole
  <2>6. taken \subseteq smallestUpTo(W, z) /\ smallestUpTo(W, z) \subseteq W
    BY <2>4, <2>5 DEF smallestUpTo
  <2>7. SideHolds(smallestUpTo(W, z))
    BY <2>6, SidePart
  <2> HIDE DEF taken
  <2>8. Sizes(taken) \in Nat /\ Sizes(taken) <= Sizes(smallestUpTo(W, z)) /\ Sizes(smallestUpTo(W, z)) \in Nat
    BY <2>6, <2>7, SizesIs
  <2>9. QED  BY <1>1, <2>5, <2>8 DEF taken
<1>4. QED  BY <1>2, <1>3

LEMMA MergedIs ==
  ASSUME NEW f, NEW g, DOMAIN f \cap DOMAIN g = {}
  PROVE  /\ DOMAIN joined(f, g) = DOMAIN f \cup DOMAIN g
         /\ \A n \in DOMAIN f : joined(f, g)[n] = f[n]
         /\ \A n \in DOMAIN g : joined(f, g)[n] = g[n]
BY DEF joined

LEMMA AllottedMerged ==
  ASSUME NEW f, NEW g, DOMAIN f \cap DOMAIN g = {}, IsFiniteSet(DOMAIN f), IsFiniteSet(DOMAIN g),
         \A n \in DOMAIN f : f[n] \in Int, \A n \in DOMAIN g : g[n] \in Int
  PROVE  Allotted(joined(f, g)) = Allotted(f) + Allotted(g)
<1> DEFINE h == joined(f, g)
           F == DOMAIN f
           G == DOMAIN g
<1>1. /\ DOMAIN h = F \cup G
      /\ \A n \in F : h[n] = f[n]
      /\ \A n \in G : h[n] = g[n]
  BY MergedIs
<1>2. Allotted(h) = SumFunctionOnSet(h, F \cup G) /\ Allotted(f) = SumFunctionOnSet(f, F) /\ Allotted(g) = SumFunctionOnSet(g, G)
  BY <1>1 DEF Allotted, SumFunction
<1> HIDE DEF h
<1>3. \A n \in F \cup G : h[n] \in Int
  BY <1>1
<1>4. SumFunctionOnSet(h, F \cup G) = SumFunctionOnSet(h, F) + SumFunctionOnSet(h, G)
  <2> HIDE DEF F, G
  <2>1. F \cap G = {} /\ IsFiniteSet(F) /\ IsFiniteSet(G)
    BY DEF F, G
  <2>2. QED  BY <1>3, <2>1, SumUnion
<1>5. SumFunctionOnSet(h, F) = SumFunctionOnSet(f, F) /\ SumFunctionOnSet(h, G) = SumFunctionOnSet(g, G)
  BY <1>1, SumSame
<1>6. QED  BY <1>2, <1>4, <1>5 DEF h

\* Two parts of a side that are rationed make a side that is, when the first
\* leaves nothing behind.
LEMMA RationedMerged ==
  ASSUME NEW C, SideHolds(C), NEW D, D \subseteq C, NEW cap \in Nat, NEW f, NEW g,
         RationedTo(D, cap, f), RationedTo(C \ D, cap - Allotted(f), g)
  PROVE  RationedTo(C, cap, joined(f, g))
<1> DEFINE E == C \ D
           h == joined(f, g)
<1>1. DOMAIN f = Indices(D) /\ DOMAIN g = Indices(E)
  BY DEF RationedTo
<1>2. Indices(D) \cap Indices(E) = {} /\ Indices(D) \cup Indices(E) = Indices(C)
  BY DEF Indices, SideHolds
<1>3. \A n \in Indices(D) : \E c \in D : n = c.index
  BY DEF Indices
<1>4. \A n \in Indices(E) : \E c \in E : n = c.index
  BY DEF Indices
<1>5. (\A c \in D : c.index \in Indices(D)) /\ (\A c \in E : c.index \in Indices(E))
  BY DEF Indices
<1>6. SideHolds(D) /\ SideHolds(E)
  BY SidePart
<1>7. DOMAIN h = Indices(C) /\ (\A n \in Indices(D) : h[n] = f[n]) /\ (\A n \in Indices(E) : h[n] = g[n])
  <2>1. DOMAIN f \cap DOMAIN g = {}
    BY <1>1, <1>2
  <2> HIDE DEF E
  <2>2. /\ DOMAIN h = DOMAIN f \cup DOMAIN g
        /\ \A n \in DOMAIN f : h[n] = f[n]
        /\ \A n \in DOMAIN g : h[n] = g[n]
    BY <2>1, MergedIs
  <2> HIDE DEF h
  <2>3. QED  BY <1>1, <1>2, <2>2
<1>8. Allotted(h) = Allotted(f) + Allotted(g)
  <2>1. IsFiniteSet(Indices(D)) /\ IsFiniteSet(Indices(E))
    <3>1. ASSUME NEW K, IsFiniteSet(K) PROVE IsFiniteSet(Indices(K))
      <4> DEFINE m == [c \in K |-> c.index]
      <4>1. m \in Surjection(K, Indices(K))
        BY DEF Surjection, Indices
      <4> HIDE DEF m
      <4>2. QED  BY <3>1, <4>1, FS_Surjection
    <3>2. QED  BY <1>6, <3>1 DEF SideHolds
  <2>2. (\A n \in Indices(D) : f[n] \in Int) /\ (\A n \in Indices(E) : g[n] \in Int)
    <3>1. \A c \in D : f[c.index] \in Int
      BY DEF RationedTo
    <3>2. \A c \in E : g[c.index] \in Int
      BY DEF RationedTo
    <3>3. QED  BY <1>3, <1>4, <3>1, <3>2
  <2>3. QED  BY <1>1, <1>2, <2>1, <2>2, AllottedMerged
<1> HIDE DEF h
<1>9. Allotted(f) \in Nat /\ Allotted(g) \in Nat /\ Allotted(f) <= cap /\ Allotted(g) <= cap - Allotted(f)
  BY DEF RationedTo
<1>10. Allotted(h) \in Nat /\ Allotted(h) <= cap
  BY <1>8, <1>9
<1>11. \A c \in D : h[c.index] = f[c.index]
  BY <1>5, <1>7
<1>12. \A c \in E : h[c.index] = g[c.index]
  BY <1>5, <1>7
<1>13. ASSUME NEW c \in C
       PROVE  h[c.index] \in Nat /\ h[c.index] <= c.size /\ (h[c.index] \in {0, c.size} \/ c.partial)
  <2>1. CASE c \in D
    BY <1>11, <2>1 DEF RationedTo
  <2>2. CASE c \in E
    BY <1>12, <2>2 DEF RationedTo
  <2>3. QED  BY <2>1, <2>2
<1>14. ASSUME Allotted(h) < cap, NEW c \in C, c.partial PROVE h[c.index] = c.size
  <2>1. Allotted(f) < cap /\ Allotted(g) < cap - Allotted(f)
    BY <1>8, <1>9, <1>14
  <2>2. CASE c \in D
    BY <1>11, <1>14, <2>1, <2>2 DEF RationedTo
  <2>3. CASE c \in E
    BY <1>12, <1>14, <2>1, <2>3 DEF RationedTo
  <2>4. QED  BY <2>2, <2>3
<1>15. QED  BY <1>7, <1>10, <1>13, <1>14 DEF RationedTo, h

\* Everybody whole.
LEMMA WholeRationed ==
  ASSUME NEW C, SideHolds(C), NEW cap \in Nat, Sizes(C) <= cap
  PROVE  RationedTo(C, cap, Whole(C))
<1>1. DOMAIN Whole(C) = Indices(C) /\ Allotted(Whole(C)) = Sizes(C) /\ \A c \in C : Whole(C)[c.index] = c.size
  BY WholeIs
<1>2. Sizes(C) \in Nat /\ \A c \in C : c.size \in Nat
  BY SizesIs DEF SideHolds
<1>3. QED  BY <1>1, <1>2 DEF RationedTo

\* The whole intents of a tier, those taken and those not.
LEMMA WholesRationed ==
  ASSUME NEW W, SideHolds(W), \A c \in W : ~c.partial, NEW T, T \subseteq W, NEW cap \in Nat, Sizes(T) <= cap,
         NEW a, a = joined(Whole(T), [n \in Indices(W \ T) |-> 0])
  PROVE  RationedTo(W, cap, a) /\ Allotted(a) = Sizes(T)
<1> DEFINE z == [n \in Indices(W \ T) |-> 0]
<1>1. SideHolds(T) /\ SideHolds(W \ T)
  BY SidePart
<1>2. RationedTo(T, cap, Whole(T)) /\ Allotted(Whole(T)) = Sizes(T) /\ Sizes(T) \in Nat
  BY <1>1, WholeRationed, WholeIs, SizesIs
<1>3. \A c \in W \ T : z[c.index] = 0
  <2>1. \A c \in W \ T : c.index \in Indices(W \ T)
    BY DEF Indices
  <2>2. QED  BY <2>1
<1>4. Allotted(z) = 0
  <2> DEFINE g == [c \in W \ T |-> 0]
  <2>0. DOMAIN z = Indices(W \ T) /\ \A c \in W \ T : g[c] = 0
    OBVIOUS
  <2>1. DOMAIN z = Indices(W \ T) /\ \A c \in W \ T : z[c.index] \in Int /\ g[c] = z[c.index] /\ g[c] = 0
    <3> HIDE DEF z, g
    <3>1. QED  BY <1>3, <2>0
  <2> HIDE DEF z, g
  <2>2. Allotted(z) = SumFunctionOnSet(g, W \ T)
    BY <1>1, <2>1, AllottedIs
  <2>3. SumFunctionOnSet(g, W \ T) = 0
    BY <1>1, <2>1, SumZero DEF SideHolds
  <2>4. QED  BY <2>2, <2>3
<1>5. RationedTo(W \ T, cap - Sizes(T), z)
  <2>1. \A c \in W \ T : c.size \in Nat
    BY DEF SideHolds
  <2>2. cap - Sizes(T) \in Nat
    BY <1>2
  <2>3. DOMAIN z = Indices(W \ T)
    OBVIOUS
  <2> HIDE DEF z
  <2>4. \A c \in W \ T : z[c.index] \in Nat /\ z[c.index] <= c.size /\ z[c.index] \in {0, c.size}
    BY <1>3, <2>1
  <2>5. Allotted(z) \in Nat /\ Allotted(z) <= cap - Sizes(T)
    BY <1>4, <2>2
  <2>6. \A c \in W \ T : ~c.partial
    OBVIOUS
  <2>7. QED  BY <2>3, <2>4, <2>5, <2>6 DEF RationedTo
<1> HIDE DEF z
<1>6. RationedTo(W, cap, joined(Whole(T), z))
  BY <1>2, <1>5, RationedMerged
<1>7. Allotted(joined(Whole(T), z)) = Sizes(T)
  <2>1. DOMAIN Whole(T) \cap DOMAIN z = {}
    BY <1>2, <1>5 DEF RationedTo, Indices, SideHolds
  <2>2. IsFiniteSet(DOMAIN Whole(T)) /\ IsFiniteSet(DOMAIN z)
    <3>1. ASSUME NEW K, IsFiniteSet(K) PROVE IsFiniteSet(Indices(K))
      <4> DEFINE m == [c \in K |-> c.index]
      <4>1. m \in Surjection(K, Indices(K))
        BY DEF Surjection, Indices
      <4> HIDE DEF m
      <4>2. QED  BY <3>1, <4>1, FS_Surjection
    <3>2. QED  BY <1>1, <1>2, <1>5, <3>1 DEF SideHolds, RationedTo
  <2>3. \A n \in DOMAIN Whole(T) : Whole(T)[n] \in Int
    <3>1. \A c \in T : Whole(T)[c.index] \in Int
      BY <1>2 DEF RationedTo
    <3>2. \A n \in DOMAIN Whole(T) : \E c \in T : n = c.index
      BY <1>2 DEF RationedTo, Indices
    <3>3. QED  BY <3>1, <3>2
  <2>4. \A n \in DOMAIN z : z[n] \in Int
    BY DEF z
  <2>5. QED  BY <1>2, <1>4, <2>1, <2>2, <2>3, <2>4, AllottedMerged
<1>8. QED  BY <1>6, <1>7 DEF z

LEMMA TierRationed ==
  ASSUME NEW tier, SideHolds(tier), NEW cap \in Nat, Sizes(tier) > cap
  PROVE  RationedTo(tier, cap, rationTier(tier, cap))
<1> DEFINE whole == {c \in tier : ~c.partial}
           parts == tier \ whole
           share == (cap * Sizes(whole)) \div Sizes(tier)
           taken == takenWhole(whole, share)
           a     == joined(Whole(taken), [n \in Indices(whole \ taken) |-> 0])
<1>1. SideHolds(whole) /\ SideHolds(parts) /\ whole \subseteq tier
  BY SidePart
<1>2. share \in Nat /\ share <= cap
  <2>1. PICK W \in Nat, T \in Nat \ {0} : W = Sizes(whole) /\ T = Sizes(tier) /\ W <= T
    <3> HIDE DEF whole
    <3>1. Sizes(whole) \in Nat /\ Sizes(whole) <= Sizes(tier) /\ Sizes(tier) \in Nat
      BY <1>1, SizesIs
    <3>2. QED  BY <3>1
  <2>2. PICK x \in Nat : x = cap * W /\ x <= cap * T
    <3>1. cap * W \in Nat /\ cap * W <= cap * T
      BY <2>1, Z3
    <3>2. QED  BY <3>1
  <2>3. PICK q : q = x \div T
    OBVIOUS
  <2>4. q \in Nat /\ T * q <= x
    BY <2>3, QuotientNat, QuotientBounds
  <2>5. q <= cap
    <3>1. T * q <= cap * T
      <4>1. T * q \in Int /\ cap * T \in Int
        BY <2>4, Z3
      <4>2. QED  BY <2>2, <2>4, <4>1
    <3>2. QED  BY <2>4, <3>1, Z3
  <2>6. share = q
    BY <2>1, <2>2, <2>3
  <2>7. QED  BY <2>4, <2>5, <2>6
<1>3. taken \subseteq whole /\ Sizes(taken) <= share
  BY <1>1, <1>2, TakenWholeFits
<1>4. SideHolds(taken) /\ Sizes(taken) \in Nat /\ Sizes(taken) <= cap
  <2> HIDE DEF taken, share, whole
  <2>1. QED  BY <1>1, <1>2, <1>3, SidePart, SizesIs
<1>5. \A c \in whole : ~c.partial
  OBVIOUS
<1>6. RationedTo(whole, cap, a) /\ Allotted(a) = Sizes(taken)
  <2>1. a = joined(Whole(taken), [n \in Indices(whole \ taken) |-> 0])
    OBVIOUS
  <2> HIDE DEF a, taken, whole
  <2>2. QED  BY <1>1, <1>3, <1>4, <1>5, <2>1, WholesRationed
<1>7. RationedTo(parts, cap - Sizes(taken), shareOut(parts, cap - Sizes(taken)))
  <2>1. \A c \in parts : c.partial
    OBVIOUS
  <2>2. cap - Sizes(taken) \in Nat
    BY <1>4
  <2> HIDE DEF parts, taken
  <2>3. QED  BY <1>1, <2>1, <2>2, SharedOut
<1>8. rationTier(tier, cap) = joined(a, shareOut(parts, cap - Sizes(taken)))
  BY DEF rationTier, afterWhole
<1> HIDE DEF a, taken, whole
<1>9. RationedTo(tier, cap, joined(a, shareOut(parts, cap - Sizes(taken))))
  BY <1>1, <1>6, <1>7, RationedMerged DEF parts
<1>10. QED  BY <1>8, <1>9

LEMMA FittedRationed ==
  ASSUME NEW tier, SideHolds(tier), NEW cap \in Nat
  PROVE  RationedTo(tier, cap, fitted(tier, cap))
<1>1. Sizes(tier) \in Nat
  BY SizesIs
<1>2. CASE Sizes(tier) <= cap
  BY <1>2, WholeRationed DEF fitted
<1>3. CASE ~(Sizes(tier) <= cap)
  BY <1>1, <1>3, TierRationed DEF fitted
<1>4. QED  BY <1>2, <1>3

LEMMA SideRationed ==
  ASSUME NEW side, SideHolds(side), NEW capacity \in Nat
  PROVE  RationedTo(side, capacity, ration(side, capacity))
<1> DEFINE first == {c \in side : c.better}
           then  == {c \in side : ~c.better}
           one   == fitted(first, capacity)
           two   == fitted(then, capacity - Allotted(one))
<1>1. SideHolds(first) /\ SideHolds(then) /\ first \subseteq side /\ then = side \ first
  BY SidePart
<1>2. ration(side, capacity) = joined(one, two)
  BY DEF ration, secondTier
<1> HIDE DEF first, then
<1>3. RationedTo(first, capacity, one)
  BY <1>1, FittedRationed
<1>4. capacity - Allotted(one) \in Nat
  <2> HIDE DEF one
  <2>1. QED  BY <1>3 DEF RationedTo
<1>5. RationedTo(then, capacity - Allotted(one), two)
  <2> HIDE DEF one
  <2>1. QED  BY <1>1, <1>4, FittedRationed
<1> HIDE DEF one, two
<1>6. RationedTo(side, capacity, joined(one, two))
  BY <1>1, <1>3, <1>5, RationedMerged
<1>7. QED  BY <1>2, <1>6

\* What is left of an intent at the price: its place, its side, its base units.
candidateAt(intents, price, qp, bp, k) ==
  [index |-> k, buys |-> sellsQuote(intents[k]), partial |-> intents[k].partialFill,
   size |-> IF sellsQuote(intents[k]) THEN (intents[k].sellAmount * qp) \div bp ELSE intents[k].sellAmount,
   better |-> IF sellsQuote(intents[k])
              THEN intents[k].sellAmount * WAD # intents[k].minBuyAmount * price
              ELSE intents[k].minBuyAmount * WAD # intents[k].sellAmount * price]

LEMMA CandidatesAre ==
  ASSUME NEW intents, NEW price, NEW qp, NEW bp
  PROVE  \A c \in candidates(intents, price, qp, bp) :
           \E k \in DOMAIN intents : c = candidateAt(intents, price, qp, bp, k) /\ acceptsAt(intents[k], price) /\ c.size > 0
BY DEF candidates, candidateAt

LEMMA CandidatesHold ==
  ASSUME NEW intents, IntentsHold(intents), DOMAIN intents \subseteq Nat, NEW price, NEW qp \in Nat, NEW bp \in Nat \ {0}
  PROVE  /\ SideHolds(candidates(intents, price, qp, bp))
         /\ \A c \in candidates(intents, price, qp, bp) : c.index \in DOMAIN intents
<1> DEFINE C == candidates(intents, price, qp, bp)
           K == [k \in DOMAIN intents |-> candidateAt(intents, price, qp, bp, k)]
<1>1. \A c \in C : \E k \in DOMAIN intents : c = candidateAt(intents, price, qp, bp, k) /\ c.size > 0
  BY CandidatesAre
<1>2. \A k \in DOMAIN intents :
        /\ candidateAt(intents, price, qp, bp, k).index = k
        /\ candidateAt(intents, price, qp, bp, k).size =
             IF sellsQuote(intents[k]) THEN (intents[k].sellAmount * qp) \div bp ELSE intents[k].sellAmount
  BY DEF candidateAt
<1>3. ASSUME NEW k \in DOMAIN intents PROVE candidateAt(intents, price, qp, bp, k).size \in Nat
  <2>1. PICK x \in Nat : x = intents[k].sellAmount
    BY DEF IntentsHold
  <2>2. PICK y \in Nat : y = x * qp
    <3>1. x * qp \in Nat
      BY Z3
    <3>2. QED  BY <3>1
  <2>3. y \div bp \in Nat
    BY QuotientNat
  <2>4. QED  BY <1>2, <2>1, <2>2, <2>3
<1>4. IsFiniteSet(C)
  <2>1. DOMAIN intents = DOMAIN K /\ \A k \in DOMAIN intents : K[k] = candidateAt(intents, price, qp, bp, k)
    OBVIOUS
  <2> DEFINE I == {K[k] : k \in DOMAIN intents}
  <2>2. K \in Surjection(DOMAIN intents, I)
    BY DEF Surjection
  <2>3. C \subseteq I
    BY <1>1
  <2> HIDE DEF K, I, C
  <2>4. IsFiniteSet(I)
    BY <2>2, FS_Surjection DEF IntentsHold
  <2>5. QED  BY <2>3, <2>4, FS_Subset
<1> HIDE DEF C
<1>5. \A c \in C : c.size \in Nat \ {0} /\ c.index \in Nat /\ c.index \in DOMAIN intents
  BY <1>1, <1>2, <1>3
<1>6. \A c, d \in C : c.index = d.index => c = d
  BY <1>1, <1>2
<1>7. QED  BY <1>4, <1>5, <1>6 DEF SideHolds, C

\* The unit price the pair price stands for.
LEMMA UnitPriceNat ==
  ASSUME NEW p \in Nat, NEW ref, RefHolds(ref)
  PROVE  baseUnitPrice(p, ref) \in Nat
<1>1. PICK q \in Nat : q = ref.quotePrice
  BY DEF RefHolds
<1>2. PICK x \in Nat : x = p * q
  <2>1. p * q \in Nat
    BY Z3
  <2>2. QED  BY <2>1
<1>3. QED  BY <1>1, <1>2, QuotientNat, ScaleAssumption DEF baseUnitPrice

LEMMA RationBest == JobDone => RationExact
<1> SUFFICES ASSUME JobDone, NEW d \in {clearingDone} \ {<<>>},
                    NEW c \in {clear(d[1].intents, d[1].ref)},
                    NEW all \in {IF baseUnitPrice(c.price, d[1].ref) = 0 THEN {}
                                 ELSE candidates(d[1].intents, c.price, d[1].ref.quotePrice, baseUnitPrice(c.price, d[1].ref))}
             PROVE  LongSideRationed(all, {x \in all : x.buys})
  BY DEF RationExact
<1>1. PICK ref, intents : /\ ref = d[1].ref /\ intents = d[1].intents /\ RefHolds(ref) /\ IntentsHold(intents)
                          /\ DOMAIN intents \subseteq Nat
  BY RefOfJob, JobIntents DEF JobDone
<1>2. PICK bp \in Nat : bp = baseUnitPrice(c.price, ref)
  BY <1>1, ClearPrice, UnitPriceNat
<1>3. SideHolds(all)
  <2>1. CASE bp = 0
    <3>1. all = {}
      BY <1>1, <1>2, <2>1
    <3>2. QED  BY <3>1, FS_EmptySet DEF SideHolds
  <2>2. CASE bp # 0
    <3>1. all = candidates(intents, c.price, ref.quotePrice, bp)
      BY <1>1, <1>2, <2>2
    <3>2. ref.quotePrice \in Nat /\ bp \in Nat \ {0}
      BY <1>1, <2>2 DEF RefHolds
    <3>3. QED  BY <1>1, <3>1, <3>2, CandidatesHold
  <2>3. QED  BY <2>1, <2>2
<1> DEFINE buyers == {x \in all : x.buys}
           long   == IF Sizes(buyers) > Sizes(all \ buyers) THEN buyers ELSE all \ buyers
           cap    == Sizes(all \ long)
           a      == ration(long, cap)
<1>4. long \subseteq all /\ all \ long \subseteq all
  OBVIOUS
<1> HIDE DEF long
<1>5. SideHolds(long) /\ cap \in Nat
  BY <1>3, <1>4, SidePart, SizesIs
<1>6. RationedTo(long, cap, a)
  <2> HIDE DEF cap
  <2>1. QED  BY <1>5, SideRationed
<1> HIDE DEF a, cap
<1>7. Rationed(long, cap, a)
  BY <1>6 DEF RationedTo, Rationed
<1>8. QED  BY <1>7 DEF LongSideRationed, long, cap, a

LEMMA BestKept == JobDone => ClearingBest
BY EdgesExact, VolumeBest, RationBest DEF ClearingBest

----------------------------------------------------------------------------
(* The solver's clearing: plans the verifier takes.                        *)

FillsOf(intents, fills) ==
  /\ IsFiniteSet(fills)
  /\ \A f \in fills : f.index \in DOMAIN intents /\ f.executedSell \in Int /\ f.executedBuy \in Int
  /\ \A f, g \in fills : f.index = g.index => f = g

callsBring(calls, token) ==
  SumFunctionOnSet([v \in DOMAIN calls |-> calls[v].minOut], {v \in DOMAIN calls : calls[v].tokenOut = token})
  - SumFunctionOnSet([v \in DOMAIN calls |-> calls[v].amountIn], {v \in DOMAIN calls : calls[v].tokenIn = token})

\* What a plan must be for the verifier to take it.
PlanHolds(intents, ref, o) ==
  /\ FillsOf(intents, o.fills)
  /\ \A f \in o.fills :
       /\ f.executedSell <= intents[f.index].sellAmount
       /\ f.executedSell # intents[f.index].sellAmount => intents[f.index].partialFill
       /\ limitRespected(f.executedBuy, intents[f.index].sellAmount, intents[f.index].minBuyAmount, f.executedSell)
       /\ uniformAt(intents, f, ref.quotePrice, o.basePrice)
       /\ f.executedBuy >= o.baselines[f.index]
  /\ withinBand(o.basePrice, ref.basePrice, ref.maxDeviationBps)
  /\ \A token \in {"quote", "base"} :
       SoldIn(intents, o.fills, token) + callsBring(o.venueCalls, token) - BoughtIn(intents, o.fills, token) >= 0

LEMMA FillAt ==
  ASSUME NEW intents, NEW fills, FillsOf(intents, fills)
  PROVE  /\ \A f \in fills : f.index \in Indices(fills) /\ At(fills, f.index) = f
         /\ \A n \in Indices(fills) : At(fills, n) \in fills /\ At(fills, n).index = n
<1>1. \A f \in fills : f.index \in Indices(fills)
  BY DEF Indices
<1>2. \A f \in fills : At(fills, f.index) = f
  BY AtIs DEF FillsOf
<1>3. \A n \in Indices(fills) : \E f \in fills : n = f.index
  BY DEF Indices
<1>4. QED  BY <1>1, <1>2, <1>3

LEMMA PlanLegs ==
  ASSUME NEW j, NEW o, FillsOf(j.intents, o.fills), NEW s, s = assemble(j, o)
  PROVE  /\ Legs(s) = Indices(o.fills)
         /\ \A f \in o.fills :
              /\ f.index \in Legs(s)
              /\ Leg(s, f.index).intent = j.intents[f.index] /\ Leg(s, f.index).baseline = o.baselines[f.index]
              /\ Leg(s, f.index).executedSell = f.executedSell /\ Leg(s, f.index).executedBuy = f.executedBuy
         /\ \A k \in Legs(s) : \E f \in o.fills : k = f.index
<1>1. Legs(s) = Indices(o.fills)
  BY DEF assemble, Legs
<1>2. \A n \in Indices(o.fills) :
        /\ Leg(s, n).intent = j.intents[n] /\ Leg(s, n).baseline = o.baselines[n]
        /\ Leg(s, n).executedSell = At(o.fills, n).executedSell /\ Leg(s, n).executedBuy = At(o.fills, n).executedBuy
  BY DEF assemble, Leg
<1>3. \A f \in o.fills : f.index \in Indices(o.fills) /\ At(o.fills, f.index) = f
  BY FillAt
<1>4. \A k \in Legs(s) : \E f \in o.fills : k = f.index
  BY <1>1 DEF Indices
<1>5. QED  BY <1>1, <1>2, <1>3, <1>4

\* What the legs sell and buy is what the fills do.
LEMMA PlanSums ==
  ASSUME NEW j, NEW o, FillsOf(j.intents, o.fills), NEW s, s = assemble(j, o), NEW token
  PROVE  /\ pulled(s, token) = SoldIn(j.intents, o.fills, token)
         /\ delivered(s, token) = BoughtIn(j.intents, o.fills, token)
<1> DEFINE F == o.fills
           S == {f \in F : j.intents[f.index].sellToken = token}
           B == {f \in F : j.intents[f.index].buyToken = token}
           m == [f \in F |-> f.index]
           x == [f \in S |-> f.executedSell]
           y == [f \in B |-> f.executedBuy]
<1>1. /\ Legs(s) = Indices(F)
      /\ \A f \in F :
              /\ f.index \in Legs(s)
              /\ Leg(s, f.index).intent = j.intents[f.index]
              /\ Leg(s, f.index).executedSell = f.executedSell /\ Leg(s, f.index).executedBuy = f.executedBuy
      /\ \A k \in Legs(s) : \E f \in F : k = f.index
  BY PlanLegs
<1>2. \A f \in F : m[f] = f.index
  OBVIOUS
<1>3. \A f \in F : executedSells(s)[m[f]] = f.executedSell /\ executedBuys(s)[m[f]] = f.executedBuy
  BY <1>1, <1>2 DEF executedSells, executedBuys
<1>4. IsFiniteSet(S) /\ IsFiniteSet(B)
  <2>1. S \subseteq F /\ B \subseteq F /\ IsFiniteSet(F)
    BY DEF FillsOf
  <2>2. QED  BY <2>1, FS_Subset
<1>5. \A f, g \in F : m[f] = m[g] => f = g
  BY <1>2 DEF FillsOf
<1>6. \A f \in S : x[f] \in Int /\ executedSells(s)[m[f]] = x[f]
  <2>1. \A f \in S : x[f] = f.executedSell /\ f \in F
    OBVIOUS
  <2> HIDE DEF x, m, S
  <2>2. QED  BY <1>3, <2>1 DEF FillsOf
<1>7. \A f \in B : y[f] \in Int /\ executedBuys(s)[m[f]] = y[f]
  <2>1. \A f \in B : y[f] = f.executedBuy /\ f \in F
    OBVIOUS
  <2> HIDE DEF y, m, B
  <2>2. QED  BY <1>3, <2>1 DEF FillsOf
<1>8. {m[f] : f \in S} = {k \in Legs(s) : Leg(s, k).intent.sellToken = token}
  <2> DEFINE K == {k \in Legs(s) : Leg(s, k).intent.sellToken = token}
  <2>1. \A f \in S : f \in F /\ j.intents[f.index].sellToken = token
    OBVIOUS
  <2>2. \A f \in S : m[f] \in K
    <3> HIDE DEF m, S
    <3>1. QED  BY <1>1, <1>2, <2>1
  <2>3. \A k \in K : \E f \in S : k = m[f]
    <3>1. \A k \in K : \E f \in F : k = f.index /\ j.intents[f.index].sellToken = token
      BY <1>1
    <3> HIDE DEF m, K
    <3>2. QED  BY <1>2, <3>1
  <2> HIDE DEF m, S, K
  <2>4. {m[f] : f \in S} = K
    BY <2>2, <2>3
  <2>5. QED  BY <2>4 DEF K
<1>9. {m[f] : f \in B} = {k \in Legs(s) : Leg(s, k).intent.buyToken = token}
  <2> DEFINE K == {k \in Legs(s) : Leg(s, k).intent.buyToken = token}
  <2>1. \A f \in B : f \in F /\ j.intents[f.index].buyToken = token
    OBVIOUS
  <2>2. \A f \in B : m[f] \in K
    <3> HIDE DEF m, B
    <3>1. QED  BY <1>1, <1>2, <2>1
  <2>3. \A k \in K : \E f \in B : k = m[f]
    <3>1. \A k \in K : \E f \in F : k = f.index /\ j.intents[f.index].buyToken = token
      BY <1>1
    <3> HIDE DEF m, K
    <3>2. QED  BY <1>2, <3>1
  <2> HIDE DEF m, B, K
  <2>4. {m[f] : f \in B} = K
    BY <2>2, <2>3
  <2>5. QED  BY <2>4 DEF K
<1>10. SoldIn(j.intents, F, token) = SumFunctionOnSet(x, S) /\ BoughtIn(j.intents, F, token) = SumFunctionOnSet(y, B)
  BY DEF SoldIn, BoughtIn, SumFunction
<1>11. S \subseteq F /\ B \subseteq F
  OBVIOUS
<1> HIDE DEF x, y, m, S, B
<1>12. SumFunctionOnSet(executedSells(s), {m[f] : f \in S}) = SumFunctionOnSet(x, S)
  BY <1>4, <1>5, <1>6, <1>11, SumRename
<1>13. SumFunctionOnSet(executedBuys(s), {m[f] : f \in B}) = SumFunctionOnSet(y, B)
  BY <1>4, <1>5, <1>7, <1>11, SumRename
<1>14. QED  BY <1>8, <1>9, <1>10, <1>12, <1>13 DEF pulled, delivered, F

LEMMA PlanVerifies ==
  ASSUME NEW j \in ClearingJobs, NEW o, PlanHolds(j.intents, j.ref, o)
  PROVE  Verifies(assemble(j, o), [token \in {"quote", "base"} |-> IF token = "quote" THEN j.ref.quotePrice ELSE j.ref.basePrice],
                  j.ref.maxDeviationBps, SolverFeeBps)
<1> DEFINE s == assemble(j, o)
           q == j.ref.quotePrice
           oracle == [token \in {"quote", "base"} |-> IF token = "quote" THEN q ELSE j.ref.basePrice]
           dev == j.ref.maxDeviationBps
<1>1. TokensOf(s) = {"quote", "base"} /\ s.prices["quote"] = q /\ s.prices["base"] = o.basePrice /\ s.venueCalls = o.venueCalls
  BY DEF assemble, TokensOf
<1>a. DOMAIN s.repeats = {}
  BY DEF assemble
<1>2. FillsOf(j.intents, o.fills)
  BY DEF PlanHolds
<1>3. checkBand(s, oracle, dev)
  <2>1. oracle["quote"] = q /\ oracle["base"] = j.ref.basePrice
    OBVIOUS
  <2>2. withinBand(q, q, dev)
    <3>1. PICK x \in Nat, d \in Nat, b \in Nat : x = q /\ d = dev /\ b = BPS
      BY RefOfJob, ScaleAssumption DEF RefHolds
    <3>2. x * d \in Nat /\ 0 * b = 0
      BY Z3
    <3>3. ~(x > x) /\ x - x = 0
      OBVIOUS
    <3>4. QED  BY <3>1, <3>2, <3>3 DEF withinBand
  <2>3. withinBand(o.basePrice, j.ref.basePrice, dev)
    BY DEF PlanHolds
  <2> HIDE DEF oracle, s, q, dev
  <2>4. QED  BY <1>1, <1>a, <2>1, <2>2, <2>3 DEF checkBand, q
<1>4. \A f \in o.fills :
        /\ f.index \in Legs(s)
        /\ Leg(s, f.index).intent = j.intents[f.index] /\ Leg(s, f.index).baseline = o.baselines[f.index]
        /\ Leg(s, f.index).executedSell = f.executedSell /\ Leg(s, f.index).executedBuy = f.executedBuy
  BY <1>2, PlanLegs
<1>5. \A k \in Legs(s) : \E f \in o.fills : k = f.index
  BY <1>2, PlanLegs
<1> HIDE DEF s
<1>6. ASSUME NEW f \in o.fills PROVE checkExecution(s, Leg(s, f.index), SolverFeeBps)
  <2>1. PICK i : i = j.intents[f.index] /\ {i.sellToken, i.buyToken} = {"quote", "base"}
    BY <1>2, ClearingAssumption DEF FillsOf
  <2>2. i.sellToken \in TokensOf(s) /\ i.buyToken \in TokensOf(s)
    BY <1>1, <2>1
  <2>3. /\ f.executedSell <= i.sellAmount /\ (f.executedSell # i.sellAmount => i.partialFill)
        /\ limitRespected(f.executedBuy, i.sellAmount, i.minBuyAmount, f.executedSell)
        /\ uniformAt(j.intents, f, q, o.basePrice) /\ f.executedBuy >= o.baselines[f.index]
    BY <2>1 DEF PlanHolds
  <2>4. feeWithinBand(f.executedSell * s.prices[i.sellToken], f.executedBuy * s.prices[i.buyToken], SolverFeeBps)
    <3>1. CASE i.sellToken = "quote"
      <4>1. i.buyToken = "base"
        BY <2>1, <3>1
      <4>2. QED  BY <1>1, <2>1, <2>3, <3>1, <4>1 DEF uniformAt, sellsQuote
    <3>2. CASE i.sellToken # "quote"
      <4>1. i.buyToken = "quote" /\ i.sellToken = "base"
        BY <2>1, <3>2
      <4>2. QED  BY <1>1, <2>1, <2>3, <3>2, <4>1 DEF uniformAt, sellsQuote
    <3>3. QED  BY <3>1, <3>2
  <2>5. QED  BY <1>4, <2>1, <2>2, <2>3, <2>4 DEF checkExecution, checkUniformPrice
<1>7. ASSUME NEW token \in {"quote", "base"} PROVE conserved(pulled(s, token), venueDeltas(s, token), delivered(s, token)) >= 0
  <2>1. pulled(s, token) = SoldIn(j.intents, o.fills, token) /\ delivered(s, token) = BoughtIn(j.intents, o.fills, token)
    BY <1>2, PlanSums DEF s
  <2>2. venueDeltas(s, token) = callsBring(o.venueCalls, token)
    BY <1>1 DEF venueDeltas, callsBring
  <2>3. QED  BY <2>1, <2>2 DEF PlanHolds, conserved
<1>8. checkConservation(s)
  BY <1>1, <1>7 DEF checkConservation
<1>9. \A k \in Legs(s) : checkExecution(s, Leg(s, k), SolverFeeBps)
  BY <1>5, <1>6
<1>10. QED  BY <1>3, <1>8, <1>9 DEF Verifies, s

\* What calls bring in and take out.
LEMMA NoCalls == ASSUME NEW token PROVE callsBring(<<>>, token) = 0
<1>1. DOMAIN <<>> = {}
  OBVIOUS
<1>2. {v \in DOMAIN <<>> : <<>>[v].tokenOut = token} = {} /\ {v \in DOMAIN <<>> : <<>>[v].tokenIn = token} = {}
  BY <1>1
<1>3. QED  BY <1>2, SumEmpty DEF callsBring

brings(call, token) ==
  (IF call.tokenOut = token THEN call.minOut ELSE 0) - (IF call.tokenIn = token THEN call.amountIn ELSE 0)

\* The members of 1..n that count, one by one.
LEMMA SumOne ==
  ASSUME NEW f, f[1] \in Int, NEW P \in BOOLEAN, NEW S, S = IF P THEN {1} ELSE {}
  PROVE  SumFunctionOnSet(f, S) = IF P THEN f[1] ELSE 0
<1>1. SumFunctionOnSet(f, {}) = 0
  BY SumEmpty
<1>2. SumFunctionOnSet(f, {1}) = f[1]
  <2>1. IsFiniteSet({1}) /\ {1} \ {1} = {} /\ 1 \in {1} /\ \A x \in {1} : f[x] \in Int
    BY FS_Singleton
  <2>2. SumFunctionOnSet(f, {1}) = f[1] + SumFunctionOnSet(f, {1} \ {1})
    BY <2>1, SumRemove
  <2>3. SumFunctionOnSet(f, {1} \ {1}) = 0
    BY <1>1, <2>1
  <2>4. QED  BY <2>2, <2>3
<1>3. QED  BY <1>1, <1>2

LEMMA OneCall ==
  ASSUME NEW c, c.minOut \in Int, c.amountIn \in Int, NEW token
  PROVE  callsBring(<<c>>, token) = brings(c, token)
<1> DEFINE f == [v \in DOMAIN <<c>> |-> <<c>>[v].minOut]
           g == [v \in DOMAIN <<c>> |-> <<c>>[v].amountIn]
           S == {v \in DOMAIN <<c>> : <<c>>[v].tokenOut = token}
           T == {v \in DOMAIN <<c>> : <<c>>[v].tokenIn = token}
<1>1. DOMAIN <<c>> = {1} /\ <<c>>[1] = c
  OBVIOUS
<1>2. f[1] = c.minOut /\ g[1] = c.amountIn
  BY <1>1
<1>3. S = (IF c.tokenOut = token THEN {1} ELSE {}) /\ T = (IF c.tokenIn = token THEN {1} ELSE {})
  BY <1>1
<1>4. callsBring(<<c>>, token) = SumFunctionOnSet(f, S) - SumFunctionOnSet(g, T)
  BY DEF callsBring
<1> HIDE DEF f, g, S, T
<1>5. SumFunctionOnSet(f, S) = IF c.tokenOut = token THEN c.minOut ELSE 0
  BY <1>2, <1>3, SumOne
<1>6. SumFunctionOnSet(g, T) = IF c.tokenIn = token THEN c.amountIn ELSE 0
  BY <1>2, <1>3, SumOne
<1>7. QED  BY <1>4, <1>5, <1>6 DEF brings

LEMMA JoinedNat ==
  ASSUME NEW C, SideHolds(C), NEW D, D \subseteq C, NEW f, NEW g, DOMAIN f = Indices(D), DOMAIN g = Indices(C \ D),
         \A c \in D : f[c.index] \in Nat, \A c \in C \ D : g[c.index] \in Nat
  PROVE  \A c \in C : joined(f, g)[c.index] \in Nat
<1> DEFINE E == C \ D
<1>1. (\A c \in D : c.index \in Indices(D)) /\ (\A c \in E : c.index \in Indices(E))
  BY DEF Indices
<1>2. Indices(D) \cap Indices(E) = {}
  BY DEF Indices, SideHolds
<1>3. /\ \A n \in DOMAIN f : joined(f, g)[n] = f[n]
      /\ \A n \in DOMAIN g : joined(f, g)[n] = g[n]
  <2>1. DOMAIN f \cap DOMAIN g = {}
    BY <1>2
  <2>2. QED  BY <2>1, MergedIs
<1>4. QED  BY <1>1, <1>3

LEMMA AllotmentsNat ==
  ASSUME NEW live, SideHolds(live), NEW venueBase \in Nat
  PROVE  \A c \in live : allotments({x \in live : x.buys}, {x \in live : ~x.buys}, venueBase)[c.index] \in Nat
<1> DEFINE buyers  == {x \in live : x.buys}
           sellers == {x \in live : ~x.buys}
<1>1. SideHolds(buyers) /\ SideHolds(sellers) /\ sellers = live \ buyers /\ buyers = live \ sellers
      /\ buyers \subseteq live /\ sellers \subseteq live
  BY SidePart
<1> HIDE DEF buyers, sellers
<1>2. Sizes(buyers) + venueBase \in Nat /\ Sizes(sellers) + venueBase \in Nat
  BY <1>1, SizesIs
<1>3. ASSUME NEW K, SideHolds(K) PROVE DOMAIN Whole(K) = Indices(K) /\ \A c \in K : Whole(K)[c.index] \in Nat
  <2>1. DOMAIN Whole(K) = Indices(K) /\ \A c \in K : Whole(K)[c.index] = c.size
    BY <1>3, WholeIs
  <2>2. QED  BY <1>3, <2>1 DEF SideHolds
<1>4. ASSUME NEW K, SideHolds(K), NEW cap \in Nat
      PROVE  DOMAIN ration(K, cap) = Indices(K) /\ \A c \in K : ration(K, cap)[c.index] \in Nat
  BY <1>4, SideRationed DEF RationedTo
<1>5. CASE Sizes(buyers) > Sizes(sellers)
  <2>1. allotments(buyers, sellers, venueBase) = joined(Whole(sellers), ration(buyers, Sizes(sellers) + venueBase))
    BY <1>5 DEF allotments
  <2>2. \A c \in live : joined(Whole(sellers), ration(buyers, Sizes(sellers) + venueBase))[c.index] \in Nat
    BY <1>1, <1>2, <1>3, <1>4, JoinedNat
  <2>3. QED  BY <2>1, <2>2 DEF buyers, sellers
<1>6. CASE ~(Sizes(buyers) > Sizes(sellers))
  <2>1. allotments(buyers, sellers, venueBase) = joined(Whole(buyers), ration(sellers, Sizes(buyers) + venueBase))
    BY <1>6 DEF allotments
  <2>2. \A c \in live : joined(Whole(buyers), ration(sellers, Sizes(buyers) + venueBase))[c.index] \in Nat
    BY <1>1, <1>2, <1>3, <1>4, JoinedNat
  <2>3. QED  BY <2>1, <2>2 DEF buyers, sellers
<1>7. QED  BY <1>5, <1>6

\* What the verifier asks of one fill.
FillTaken(i, f, buys, qp, bp) ==
  /\ f.executedSell <= i.sellAmount
  /\ f.executedSell # i.sellAmount => i.partialFill
  /\ limitRespected(f.executedBuy, i.sellAmount, i.minBuyAmount, f.executedSell)
  /\ IF buys THEN feeWithinBand(f.executedSell * qp, f.executedBuy * bp, SolverFeeBps)
             ELSE feeWithinBand(f.executedSell * bp, f.executedBuy * qp, SolverFeeBps)

\* A fill trades amounts, and one that is not bad is one the verifier takes.
LEMMA ExecutionIs ==
  ASSUME NEW i, i.sellAmount \in Nat, NEW c, c.buys \in BOOLEAN, NEW a \in Nat, NEW qp \in Nat \ {0}, NEW bp \in Nat \ {0},
         NEW f, f = execution(i, c, a, qp, bp)
  PROVE  /\ f.index = c.index /\ f.executedSell \in Nat /\ f.executedBuy \in Nat
         /\ f.executedSell > 0 /\ ~f.bad => FillTaken(i, f, c.buys, qp, bp)
<1> DEFINE sell == IF ~c.buys THEN a ELSE IF a = c.size THEN i.sellAmount ELSE ceilDiv(a * bp, qp)
           buy  == IF c.buys THEN a ELSE (a * bp) \div qp
           bad  == IF c.buys THEN refused(i, sell, buy, qp, bp) ELSE refused(i, sell, buy, bp, qp)
<1>1. CASE a = 0
  BY <1>1 DEF execution
<1>2. CASE a # 0
  <2>1. f = [index |-> c.index, executedSell |-> sell, executedBuy |-> buy, bad |-> bad]
    BY <1>2 DEF execution
  <2>2. PICK x \in Nat : x = a * bp
    <3>1. a * bp \in Nat
      BY Z3
    <3>2. QED  BY <3>1
  <2>3. x \div qp \in Nat
    BY QuotientNat
  <2>4. (x + qp - 1) \div qp \in Nat
    <3>1. x + qp - 1 \in Nat
      OBVIOUS
    <3>2. QED  BY <3>1, QuotientNat
  <2>5. sell \in Nat /\ buy \in Nat
    BY <2>2, <2>3, <2>4 DEF ceilDiv
  <2> HIDE DEF sell, buy
  <2>6. ASSUME ~bad
        PROVE  /\ sell <= i.sellAmount
               /\ sell # i.sellAmount => i.partialFill
               /\ limitRespected(buy, i.sellAmount, i.minBuyAmount, sell)
               /\ IF c.buys THEN feeWithinBand(sell * qp, buy * bp, SolverFeeBps)
                            ELSE feeWithinBand(sell * bp, buy * qp, SolverFeeBps)
    <3>1. CASE c.buys
      <4>1. ~refused(i, sell, buy, qp, bp)
        BY <2>6, <3>1
      <4>2. QED  BY <2>5, <3>1, <4>1 DEF refused
    <3>2. CASE ~c.buys
      <4>1. ~refused(i, sell, buy, bp, qp)
        BY <2>6, <3>2
      <4>2. QED  BY <2>5, <3>2, <4>1 DEF refused
    <3>3. QED  BY <3>1, <3>2
  <2> HIDE DEF bad
  <2>7. f.index = c.index /\ f.executedSell = sell /\ f.executedBuy = buy /\ (f.bad <=> bad)
    BY <2>1
  <2>8. QED  BY <2>5, <2>6, <2>7 DEF FillTaken
<1>3. QED  BY <1>1, <1>2

\* The intents still in a pass: some of the candidates.
LiveHolds(intents, price, qp, bp, live) ==
  /\ IntentsHold(intents) /\ DOMAIN intents \subseteq Nat
  /\ qp \in Nat \ {0} /\ bp \in Nat \ {0}
  /\ live \subseteq candidates(intents, price, qp, bp)

LEMMA LiveIs ==
  ASSUME NEW intents, NEW price, NEW qp, NEW bp, NEW live, LiveHolds(intents, price, qp, bp, live)
  PROVE  /\ SideHolds(live)
         /\ \A c \in live : c.index \in DOMAIN intents /\ c.buys = sellsQuote(intents[c.index]) /\ c.buys \in BOOLEAN
<1> DEFINE C == candidates(intents, price, qp, bp)
<1>1. SideHolds(C) /\ \A c \in C : c.index \in DOMAIN intents
  BY CandidatesHold DEF LiveHolds
<1>2. \A c \in C : c.buys = sellsQuote(intents[c.index]) /\ c.buys \in BOOLEAN
  <2>1. \A k \in DOMAIN intents : /\ candidateAt(intents, price, qp, bp, k).index = k
                                  /\ candidateAt(intents, price, qp, bp, k).buys = sellsQuote(intents[k])
    BY DEF candidateAt
  <2>2. \A k \in DOMAIN intents : sellsQuote(intents[k]) \in BOOLEAN
    BY DEF sellsQuote
  <2>3. QED  BY <2>1, <2>2, CandidatesAre
<1>3. live \subseteq C
  BY DEF LiveHolds
<1> HIDE DEF C
<1>4. QED  BY <1>1, <1>2, <1>3, SidePart

LEMMA FillsForAre ==
  ASSUME NEW intents, NEW price, NEW qp, NEW bp, NEW live, LiveHolds(intents, price, qp, bp, live), NEW venueBase \in Nat,
         NEW F, F = fillsFor(intents, live, qp, bp, venueBase)
  PROVE  /\ FillsOf(intents, F)
         /\ \A f \in F : \E c \in live : f.index = c.index
         /\ \A f \in F : f.executedSell \in Nat /\ f.executedBuy \in Nat
         /\ \A f \in F : f.executedSell > 0 /\ ~f.bad =>
              /\ f.executedSell <= intents[f.index].sellAmount
              /\ f.executedSell # intents[f.index].sellAmount => intents[f.index].partialFill
              /\ limitRespected(f.executedBuy, intents[f.index].sellAmount, intents[f.index].minBuyAmount, f.executedSell)
              /\ uniformAt(intents, f, qp, bp)
<1> DEFINE allot == allotments({c \in live : c.buys}, {c \in live : ~c.buys}, venueBase)
           e == [c \in live |-> execution(intents[c.index], c, allot[c.index], qp, bp)]
<1>1. \A c \in live : allot[c.index] \in Nat
  BY LiveIs, AllotmentsNat
<1> HIDE DEF allot
<1>2. F = {e[c] : c \in live}
  BY DEF fillsFor, allot
<1>3. \A c \in live : e[c] = execution(intents[c.index], c, allot[c.index], qp, bp)
  OBVIOUS
<1>4. e \in Surjection(live, F)
  BY <1>2 DEF Surjection
<1> HIDE DEF e
<1>5. IsFiniteSet(F)
  BY <1>4, LiveIs, FS_Surjection DEF SideHolds
<1>6. ASSUME NEW c \in live, NEW f, f = e[c]
      PROVE  /\ f.index = c.index /\ f.executedSell \in Nat /\ f.executedBuy \in Nat /\ f.index \in DOMAIN intents
             /\ f.executedSell > 0 /\ ~f.bad =>
              /\ f.executedSell <= intents[f.index].sellAmount
              /\ f.executedSell # intents[f.index].sellAmount => intents[f.index].partialFill
              /\ limitRespected(f.executedBuy, intents[f.index].sellAmount, intents[f.index].minBuyAmount, f.executedSell)
              /\ uniformAt(intents, f, qp, bp)
  <2>1. PICK i : i = intents[c.index] /\ i.sellAmount \in Nat
    BY LiveIs DEF LiveHolds, IntentsHold
  <2>2. c.buys \in BOOLEAN /\ c.buys = sellsQuote(i) /\ c.index \in DOMAIN intents
    BY <2>1, LiveIs
  <2>3. PICK a \in Nat : a = allot[c.index]
    BY <1>1
  <2>4. f = execution(i, c, a, qp, bp)
    BY <1>3, <1>6, <2>1, <2>3
  <2>5. /\ f.index = c.index /\ f.executedSell \in Nat /\ f.executedBuy \in Nat
        /\ f.executedSell > 0 /\ ~f.bad => FillTaken(i, f, c.buys, qp, bp)
    <3>1. qp \in Nat \ {0} /\ bp \in Nat \ {0}
      BY DEF LiveHolds
    <3>2. i.sellAmount \in Nat /\ c.buys \in BOOLEAN
      BY <2>1, <2>2
    <3>3. QED  BY <2>4, <3>1, <3>2, ExecutionIs
  <2>6. i = intents[f.index]
    BY <2>1, <2>5
  <2>7. uniformAt(intents, f, qp, bp) <=>
          IF c.buys THEN feeWithinBand(f.executedSell * qp, f.executedBuy * bp, SolverFeeBps)
                    ELSE feeWithinBand(f.executedSell * bp, f.executedBuy * qp, SolverFeeBps)
    BY <2>2, <2>6 DEF uniformAt
  <2>8. QED  BY <2>1, <2>2, <2>5, <2>6, <2>7 DEF FillTaken
<1>7. \A f \in F : \E c \in live : f = e[c]
  BY <1>2
<1>8. \A f, g \in F : f.index = g.index => f = g
  <2>1. \A c, d \in live : c.index = d.index => c = d
    BY LiveIs DEF SideHolds
  <2>2. QED  BY <1>6, <1>7, <2>1
<1>9. \A f \in F : f.index \in DOMAIN intents /\ f.executedSell \in Int /\ f.executedBuy \in Int
  BY <1>6, <1>7
<1>10. FillsOf(intents, F)
  BY <1>5, <1>8, <1>9 DEF FillsOf
<1>11. QED  BY <1>6, <1>7, <1>10

\* What the verifier takes of some fills.
FillsTaken(intents, F, qp, bp) ==
  /\ FillsOf(intents, F)
  /\ \A f \in F :
       /\ f.executedSell <= intents[f.index].sellAmount
       /\ f.executedSell # intents[f.index].sellAmount => intents[f.index].partialFill
       /\ limitRespected(f.executedBuy, intents[f.index].sellAmount, intents[f.index].minBuyAmount, f.executedSell)
       /\ uniformAt(intents, f, qp, bp)

\* h solves the recursion over the first n passes.
PassSolves(intents, price, qp, bp, venueBase, n, h) ==
  h = [m \in 0..n |-> IF m = 0 THEN candidates(intents, price, qp, bp)
                      ELSE withoutRefused(intents, h[m - 1], qp, bp, venueBase)]

LEMMA PassUnfold ==
  ASSUME NEW intents, NEW price, NEW qp, NEW bp, NEW venueBase
  PROVE  LET h == CHOOSE h : PassSolves(intents, price, qp, bp, venueBase, Len(intents), h)
         IN  allocateAt(intents, price, qp, bp, venueBase)
             = {f \in fillsFor(intents, h[Len(intents)], qp, bp, venueBase) : f.executedSell > 0}
BY DEF allocateAt, PassSolves

LEMMA PassStep ==
  ASSUME NEW intents, NEW price, NEW qp, NEW bp, NEW venueBase, NEW n \in Nat, NEW h,
         PassSolves(intents, price, qp, bp, venueBase, n, h)
  PROVE  /\ h[0] = candidates(intents, price, qp, bp)
         /\ \A m \in 1..n : h[m] = withoutRefused(intents, h[m - 1], qp, bp, venueBase)
BY DEF PassSolves

LEMMA PassExists ==
  ASSUME NEW intents, NEW price, NEW qp, NEW bp, NEW venueBase, NEW n \in Nat
  PROVE  \E h : PassSolves(intents, price, qp, bp, venueBase, n, h)
<1> DEFINE first == candidates(intents, price, qp, bp)
           Solves(m, h) == PassSolves(intents, price, qp, bp, venueBase, m, h)
           Bad == {m \in 0..n : ~ \E h : Solves(m, h)}
<1> SUFFICES ASSUME Bad # {} PROVE FALSE
  OBVIOUS
<1>1. PICK m \in Bad : \A j \in Bad : m <= j
  <2>1. Bad \subseteq 0..n
    OBVIOUS
  <2> HIDE DEF Bad
  <2>2. QED  BY <2>1, FirstOf
<1>2. CASE m = 0
  <2>1. [k \in 0..0 |-> IF k = 0 THEN first ELSE withoutRefused(intents, [i \in 0..0 |-> first][k - 1], qp, bp, venueBase)]
        = [i \in 0..0 |-> first]
    OBVIOUS
  <2>2. Solves(0, [i \in 0..0 |-> first])
    BY <2>1 DEF PassSolves
  <2>3. QED  BY <1>1, <1>2, <2>2
<1>3. CASE m # 0
  <2>1. m - 1 \in 0..n /\ m \in Nat /\ ~(m - 1 \in Bad)
    BY <1>1, <1>3
  <2>2. PICK g : Solves(m - 1, g)
    BY <2>1
  <2>3. g[0] = first /\ \A k \in 1..(m - 1) : g[k] = withoutRefused(intents, g[k - 1], qp, bp, venueBase)
    <3>1. m - 1 \in Nat
      BY <2>1
    <3>2. QED  BY <2>2, <3>1, PassStep
  <2> DEFINE h == [k \in 0..m |-> IF k = m THEN withoutRefused(intents, g[m - 1], qp, bp, venueBase) ELSE g[k]]
  <2>4. \A k \in 0..m : h[k] = IF k = 0 THEN first ELSE withoutRefused(intents, h[k - 1], qp, bp, venueBase)
    <3> SUFFICES ASSUME NEW k \in 0..m
                 PROVE  h[k] = IF k = 0 THEN first ELSE withoutRefused(intents, h[k - 1], qp, bp, venueBase)
      OBVIOUS
    <3>1. CASE k = 0
      BY <1>3, <2>1, <2>3, <3>1
    <3>2. CASE k = m
      <4>1. h[m] = withoutRefused(intents, g[m - 1], qp, bp, venueBase) /\ h[m - 1] = g[m - 1]
        BY <2>1
      <4>2. QED  BY <1>3, <3>2, <4>1
    <3>3. CASE k # 0 /\ k # m
      <4>1. k \in 1..(m - 1) /\ h[k] = g[k] /\ h[k - 1] = g[k - 1]
        BY <2>1, <3>3
      <4>2. QED  BY <2>3, <3>3, <4>1
    <3>4. QED  BY <3>1, <3>2, <3>3
  <2>5. h = [k \in 0..m |-> h[k]]
    OBVIOUS
  <2> HIDE DEF h
  <2>6. Solves(m, h)
    BY <2>4, <2>5 DEF PassSolves
  <2>7. QED  BY <1>1, <2>6
<1>4. QED  BY <1>2, <1>3

\* The intents whose fills the verifier would refuse.
refusedIn(intents, live, qp, bp, venueBase) ==
  {f.index : f \in {f \in fillsFor(intents, live, qp, bp, venueBase) : f.bad}}

\* A pass leaves everybody or takes one out.
LEMMA PassTakesOne ==
  ASSUME NEW intents, NEW price, NEW qp, NEW bp, NEW live, LiveHolds(intents, price, qp, bp, live), NEW venueBase \in Nat,
         NEW next, next = withoutRefused(intents, live, qp, bp, venueBase)
  PROVE  /\ LiveHolds(intents, price, qp, bp, next)
         /\ \/ refusedIn(intents, live, qp, bp, venueBase) = {} /\ next = live
            \/ next # live /\ next \subseteq live
<1> DEFINE F == fillsFor(intents, live, qp, bp, venueBase)
           bad == refusedIn(intents, live, qp, bp, venueBase)
<1>1. next = IF bad = {} THEN live ELSE {c \in live : c.index # Min(bad)}
  BY DEF withoutRefused, refusedIn
<1>2. CASE bad = {}
  BY <1>1, <1>2
<1>3. CASE bad # {}
  <2>1. FillsOf(intents, F) /\ \A f \in F : \E c \in live : f.index = c.index
    BY FillsForAre
  <2> HIDE DEF F
  <2>2. IsFiniteSet(bad)
    <3> DEFINE B == {f \in F : f.bad}
               m == [f \in B |-> f.index]
    <3>1. IsFiniteSet(B)
      BY <2>1, FS_Subset DEF FillsOf
    <3>2. m \in Surjection(B, bad)
      BY DEF Surjection, refusedIn, F
    <3> HIDE DEF B, m, bad
    <3>3. QED  BY <3>1, <3>2, FS_Surjection
  <2>3. \A n \in bad : \E c \in live : n = c.index
    BY <2>1 DEF refusedIn, F
  <2>4. \A c \in live : c.index \in Nat
    BY LiveIs DEF SideHolds
  <2>5. Min(bad) \in bad
    <3> HIDE DEF bad
    <3>1. QED  BY <1>3, <2>2, <2>3, <2>4, FirstPosition
  <2>6. PICK c \in live : Min(bad) = c.index
    BY <2>3, <2>5
  <2>7. next \subseteq live /\ c \notin next
    BY <1>1, <1>3, <2>6
  <2>8. QED  BY <2>7 DEF LiveHolds
<1>4. QED  BY <1>2, <1>3

\* As many passes as there are intents are enough.
LEMMA PassesEnough ==
  ASSUME NEW intents, NEW price, NEW qp, NEW bp, LiveHolds(intents, price, qp, bp, {}), NEW venueBase \in Nat,
         NEW n \in Nat, DOMAIN intents = 1..n, NEW h, PassSolves(intents, price, qp, bp, venueBase, n, h)
  PROVE  /\ LiveHolds(intents, price, qp, bp, h[n])
         /\ refusedIn(intents, h[n], qp, bp, venueBase) = {}
<1> DEFINE C == candidates(intents, price, qp, bp)
           Out(m) == refusedIn(intents, h[m], qp, bp, venueBase)
           Good(m) == /\ h[m] \subseteq C
                      /\ Cardinality(h[m]) <= n - m \/ Out(m) = {}
           Bad == {m \in 0..n : ~Good(m)}
<1>1. h[0] = C /\ \A m \in 1..n : h[m] = withoutRefused(intents, h[m - 1], qp, bp, venueBase)
  <2> HIDE DEF Out, Good, Bad
  <2>1. QED  BY DEF PassSolves
<1>2. \A L \in SUBSET C : LiveHolds(intents, price, qp, bp, L)
  BY DEF LiveHolds
<1>3. \A L \in SUBSET C : IsFiniteSet(L) /\ Cardinality(L) \in Nat
  <2>1. \A L \in SUBSET C : IsFiniteSet(L)
    BY <1>2, LiveIs DEF SideHolds
  <2>2. QED  BY <2>1, FS_CardinalityType
<1>4. Cardinality(C) <= n
  <2> DEFINE m == [c \in C |-> c.index]
  <2>1. SideHolds(C) /\ \A c \in C : c.index \in 1..n
    BY <1>2, LiveIs
  <2>2. \A c \in C : m[c] = c.index
    OBVIOUS
  <2>3. m \in [C -> 1..n]
    BY <2>1
  <2> HIDE DEF C
  <2>4. \A c, d \in C : m[c] = m[d] => c = d
    BY <2>1, <2>2 DEF SideHolds
  <2> HIDE DEF m
  <2>5. m \in Injection(C, 1..n)
    BY <2>3, <2>4 DEF Injection, IsInjective
  <2>6. IsFiniteSet(1..n) /\ Cardinality(1..n) = n
    <3>1. 1 \in Int /\ n \in Int
      OBVIOUS
    <3>2. IsFiniteSet(1..n) /\ Cardinality(1..n) = IF 1 > n THEN 0 ELSE n - 1 + 1
      BY <3>1, FS_Interval
    <3>3. QED  BY <3>2
  <2>7. QED  BY <2>5, <2>6, FS_Injection
<1>5. Bad = {}
  <2> SUFFICES ASSUME Bad # {} PROVE FALSE
    OBVIOUS
  <2>1. PICK m \in Bad : \A k \in Bad : m <= k
    <3>1. Bad \subseteq 0..n
      OBVIOUS
    <3> HIDE DEF Bad
    <3>2. QED  BY <3>1, FirstOf
  <2>2. m # 0
    <3>1. Good(0)
      BY <1>1, <1>4
    <3> HIDE DEF Good
    <3>2. QED  BY <2>1, <3>1
  <2>3. m \in 1..n /\ m - 1 \in 0..n /\ ~(m - 1 \in Bad)
    <3>1. Bad \subseteq 0..n
      OBVIOUS
    <3> HIDE DEF Bad, Good
    <3>2. m \in 1..n /\ m - 1 \in 0..n /\ m - 1 < m
      BY <2>1, <2>2, <3>1
    <3>3. ~(m - 1 \in Bad)
      BY <2>1, <3>2
    <3>4. QED  BY <3>2, <3>3
  <2>4. Good(m - 1) /\ ~Good(m)
    <3> HIDE DEF Good
    <3>1. QED  BY <2>1, <2>3
  <2>5. PICK L, N : L = h[m - 1] /\ N = h[m] /\ N = withoutRefused(intents, L, qp, bp, venueBase)
    BY <1>1, <2>3
  <2>6. L \subseteq C /\ (Cardinality(L) <= n - (m - 1) \/ refusedIn(intents, L, qp, bp, venueBase) = {})
    BY <2>4, <2>5
  <2>7. LiveHolds(intents, price, qp, bp, L)
    BY <1>2, <2>6
  <2>8. /\ LiveHolds(intents, price, qp, bp, N)
        /\ \/ refusedIn(intents, L, qp, bp, venueBase) = {} /\ N = L
           \/ N # L /\ N \subseteq L
    <3> HIDE DEF C, Out, Good, Bad
    <3>1. N = withoutRefused(intents, L, qp, bp, venueBase)
      BY <2>5
    <3>2. QED  BY <2>7, <3>1, PassTakesOne
  <2>9. N \subseteq C
    BY <2>8 DEF LiveHolds
  <2>10. CASE refusedIn(intents, L, qp, bp, venueBase) = {}
    <3>1. N = L
      BY <2>5, <2>10 DEF withoutRefused, refusedIn
    <3>2. Out(m) = {}
      BY <2>5, <2>10, <3>1
    <3>3. QED  BY <2>4, <2>5, <2>9, <3>2
  <2>11. CASE refusedIn(intents, L, qp, bp, venueBase) # {}
    <3>1. N # L /\ N \subseteq L /\ Cardinality(L) <= n - (m - 1)
      BY <2>6, <2>8, <2>11
    <3>2. IsFiniteSet(L)
      BY <1>3, <2>6
    <3>3. Cardinality(N) < Cardinality(L)
      <4>1. Cardinality(N) <= Cardinality(L) /\ (Cardinality(N) = Cardinality(L) => N = L)
        BY <3>1, <3>2, FS_Subset
      <4>2. Cardinality(N) \in Nat /\ Cardinality(L) \in Nat
        BY <1>3, <2>6, <2>9
      <4>3. QED  BY <3>1, <4>1, <4>2
    <3>4. Cardinality(N) \in Nat /\ Cardinality(L) \in Nat
      BY <1>3, <2>6, <2>9
    <3>5. Cardinality(N) <= n - m
      BY <2>3, <3>1, <3>3, <3>4
    <3>6. QED  BY <2>4, <2>5, <2>9, <3>5
  <2>12. QED  BY <2>10, <2>11
<1>6. Good(n)
  <2>1. n \in 0..n
    OBVIOUS
  <2> HIDE DEF Good
  <2>2. QED  BY <1>5, <2>1
<1>7. LiveHolds(intents, price, qp, bp, h[n])
  BY <1>2, <1>6
<1>8. CASE Out(n) # {}
  <2>1. Cardinality(h[n]) = 0 /\ IsFiniteSet(h[n])
    <3>1. h[n] \subseteq C /\ Cardinality(h[n]) <= n - n
      BY <1>6, <1>8
    <3>2. Cardinality(h[n]) \in Nat /\ IsFiniteSet(h[n])
      BY <1>3, <3>1
    <3>3. QED  BY <3>1, <3>2
  <2>2. h[n] = {}
    BY <2>1, FS_EmptySet
  <2>3. fillsFor(intents, h[n], qp, bp, venueBase) = {}
    BY <2>2 DEF fillsFor
  <2>4. QED  BY <1>8, <2>3 DEF refusedIn
<1>9. QED  BY <1>7, <1>8

\* What allocate hands over the verifier takes, fill by fill.
LEMMA AllocateTaken ==
  ASSUME NEW intents, IntentsHold(intents), NEW n \in Nat, n = Len(intents), DOMAIN intents = 1..n,
         NEW ref, RefHolds(ref), NEW price \in Nat, NEW venueBase \in Nat,
         NEW F, F = allocate(intents, price, ref, venueBase)
  PROVE  FillsTaken(intents, F, ref.quotePrice, baseUnitPrice(price, ref))
<1>1. PICK bp \in Nat : bp = baseUnitPrice(price, ref)
  BY UnitPriceNat
<1>2. PICK qp \in Nat \ {0} : qp = ref.quotePrice
  BY DEF RefHolds
<1>3. CASE bp = 0
  <2>1. F = {}
    BY <1>1, <1>3 DEF allocate
  <2>2. QED  BY <2>1, FS_EmptySet DEF FillsTaken, FillsOf
<1>4. CASE bp # 0
  <2>1. F = allocateAt(intents, price, qp, bp, venueBase)
    BY <1>1, <1>2, <1>4 DEF allocate
  <2>2. PICK h : h = CHOOSE g : PassSolves(intents, price, qp, bp, venueBase, n, g)
    OBVIOUS
  <2>3. PassSolves(intents, price, qp, bp, venueBase, n, h)
    BY <2>2, PassExists
  <2>4. F = {f \in fillsFor(intents, h[n], qp, bp, venueBase) : f.executedSell > 0}
    BY <2>1, <2>2, PassUnfold
  <2>5. LiveHolds(intents, price, qp, bp, {})
    <3>1. DOMAIN intents \subseteq Nat
      OBVIOUS
    <3>2. QED  BY <1>4, <3>1 DEF LiveHolds
  <2>6. PICK live : live = h[n] /\ LiveHolds(intents, price, qp, bp, live) /\ refusedIn(intents, live, qp, bp, venueBase) = {}
    BY <2>3, <2>5, PassesEnough
  <2>7. PICK G : G = fillsFor(intents, live, qp, bp, venueBase)
    OBVIOUS
  <2>8. /\ FillsOf(intents, G)
        /\ \A f \in G : f.executedSell > 0 /\ ~f.bad =>
             /\ f.executedSell <= intents[f.index].sellAmount
             /\ f.executedSell # intents[f.index].sellAmount => intents[f.index].partialFill
             /\ limitRespected(f.executedBuy, intents[f.index].sellAmount, intents[f.index].minBuyAmount, f.executedSell)
             /\ uniformAt(intents, f, qp, bp)
    BY <2>6, <2>7, FillsForAre
  <2>9. \A f \in G : ~f.bad
    BY <2>6, <2>7 DEF refusedIn
  <2>10. F \subseteq G /\ \A f \in F : f.executedSell > 0
    BY <2>4, <2>6, <2>7
  <2>11. FillsOf(intents, F)
    BY <2>8, <2>10, FS_Subset DEF FillsOf
  <2>12. QED  BY <1>1, <1>2, <2>8, <2>9, <2>10, <2>11 DEF FillsTaken
<1>5. QED  BY <1>3, <1>4

\* A plan the verifier takes, with the venue's floors under its baselines and
\* no call that asks for more than the venue gives.
PlanFits(j, o) ==
  /\ PlanHolds(j.intents, j.ref, o)
  /\ \A token \in {j.intents[f.index].sellToken : f \in o.fills} :
       SumFunction([f \in {f \in o.fills : j.intents[f.index].sellToken = token} |-> o.baselines[f.index]])
         >= venueQuote(j.venue, token, SoldIn(j.intents, o.fills, token))
  /\ \A k \in DOMAIN o.venueCalls :
       o.venueCalls[k].minOut <= venueQuote(j.venue, o.venueCalls[k].tokenIn, o.venueCalls[k].amountIn)

LEMMA QuoteInt ==
  ASSUME NEW j \in ClearingJobs, NEW token \in {"quote", "base"}, NEW amount \in Int
  PROVE  venueQuote(j.venue, token, amount) \in Int
<1>1. PICK n \in Nat, d \in Nat \ {0} : n = j.venue[token].num /\ d = j.venue[token].den
  BY ClearingAssumption
<1>2. PICK x \in Int : x = amount * n
  <2>1. amount * n \in Int
    BY Z3
  <2>2. QED  BY <2>1
<1>3. x \div d \in Int
  BY QuotientInt
<1>4. QED  BY <1>1, <1>2, <1>3 DEF venueQuote

LEMMA SumsInt ==
  ASSUME NEW intents, NEW fills, FillsOf(intents, fills), NEW token
  PROVE  SoldIn(intents, fills, token) \in Int /\ BoughtIn(intents, fills, token) \in Int
<1> DEFINE S == {f \in fills : intents[f.index].sellToken = token}
           B == {f \in fills : intents[f.index].buyToken = token}
           x == [f \in S |-> f.executedSell]
           y == [f \in B |-> f.executedBuy]
<1>1. IsFiniteSet(S) /\ IsFiniteSet(B)
  <2>1. S \subseteq fills /\ B \subseteq fills /\ IsFiniteSet(fills)
    BY DEF FillsOf
  <2>2. QED  BY <2>1, FS_Subset
<1>2. (\A f \in S : x[f] = f.executedSell /\ f \in fills) /\ (\A f \in B : y[f] = f.executedBuy /\ f \in fills)
  OBVIOUS
<1>3. SoldIn(intents, fills, token) = SumFunctionOnSet(x, S) /\ BoughtIn(intents, fills, token) = SumFunctionOnSet(y, B)
  BY DEF SoldIn, BoughtIn, SumFunction
<1> HIDE DEF x, y, S, B
<1>4. (\A f \in S : x[f] \in Int) /\ (\A f \in B : y[f] \in Int)
  BY <1>2 DEF FillsOf
<1>5. QED  BY <1>1, <1>3, <1>4, SumInt

\* What route asks the venue for covers what is lacking.
LEMMA RouteBrings ==
  ASSUME NEW j \in ClearingJobs, NEW fills, FillsOf(j.intents, fills),
         NEW calls, calls = route(j.intents, fills, j.venue), calls # <<NoCall>>
  PROVE  /\ \A token \in {"quote", "base"} :
              SoldIn(j.intents, fills, token) + callsBring(calls, token) - BoughtIn(j.intents, fills, token) >= 0
         /\ \A k \in DOMAIN calls : calls[k].minOut <= venueQuote(j.venue, calls[k].tokenIn, calls[k].amountIn)
<1>1. PICK sq \in Int, bq \in Int, sb \in Int, bb \in Int :
        /\ sq = SoldIn(j.intents, fills, "quote") /\ bq = BoughtIn(j.intents, fills, "quote")
        /\ sb = SoldIn(j.intents, fills, "base") /\ bb = BoughtIn(j.intents, fills, "base")
  BY SumsInt
<1>2. PICK rq \in Int, rb \in Int : rq = sq - bq /\ rb = sb - bb
  OBVIOUS
<1>3. rq = residual(j.intents, fills, "quote") /\ rb = residual(j.intents, fills, "base")
  BY <1>1, <1>2 DEF residual
<1> DEFINE tin == IF rq < 0 THEN "base" ELSE "quote"
           amt == IF rq < 0 THEN rb ELSE rq
           lack == IF rq < 0 THEN rq ELSE rb
           out == venueQuote(j.venue, tin, amt)
           call == [tokenIn |-> tin, tokenOut |-> Other(tin), amountIn |-> amt, minOut |-> out]
<1>4. calls = IF rb >= 0 /\ rq >= 0 THEN <<>> ELSE <<call>>
  <2>1. residual(j.intents, fills, tin) = amt /\ residual(j.intents, fills, Other(tin)) = lack
    BY <1>3 DEF Other
  <2>2. calls = IF rb >= 0 /\ rq >= 0 THEN <<>> ELSE IF rb < 0 /\ rq < 0 THEN <<NoCall>>
                ELSE IF out < -lack THEN <<NoCall>> ELSE <<call>>
    BY <1>3, <2>1 DEF route
  <2>3. QED  BY <2>2
<1>5. CASE rb >= 0 /\ rq >= 0
  <2>1. calls = <<>> /\ DOMAIN calls = {}
    BY <1>4, <1>5
  <2>2. ASSUME NEW token PROVE callsBring(calls, token) = 0
    BY <2>1, NoCalls
  <2>3. QED  BY <1>1, <1>2, <1>5, <2>1, <2>2
<1>6. CASE ~(rb >= 0 /\ rq >= 0)
  <2>1. calls = <<call>> /\ DOMAIN calls = {1} /\ calls[1] = call
    BY <1>4, <1>6
  <2>2. ~(rb < 0 /\ rq < 0) /\ ~(out < -lack)
    <3>1. residual(j.intents, fills, tin) = amt /\ residual(j.intents, fills, Other(tin)) = lack
      BY <1>3 DEF Other
    <3>2. calls = IF rb >= 0 /\ rq >= 0 THEN <<>> ELSE IF rb < 0 /\ rq < 0 THEN <<NoCall>>
                ELSE IF out < -lack THEN <<NoCall>> ELSE <<call>>
      BY <1>3, <3>1 DEF route
    <3> HIDE DEF out, lack, call, amt, tin
    <3>3. QED  BY <1>6, <3>2
  <2>3. call.tokenIn = tin /\ call.tokenOut = Other(tin) /\ call.amountIn = amt /\ call.minOut = out
    OBVIOUS
  <2>4. tin \in {"quote", "base"} /\ amt \in Int /\ lack \in Int
    OBVIOUS
  <2> HIDE DEF call
  <2>5. out \in Int
    <3> HIDE DEF tin, amt
    <3>1. QED  BY <2>4, QuoteInt
  <2> HIDE DEF out
  <2>6. ASSUME NEW token PROVE callsBring(calls, token) = brings(call, token)
    BY <2>1, <2>3, <2>4, <2>5, OneCall
  <2>7. ASSUME NEW token \in {"quote", "base"}
        PROVE  SoldIn(j.intents, fills, token) + callsBring(calls, token) - BoughtIn(j.intents, fills, token) >= 0
    <3>1. callsBring(calls, token) = (IF Other(tin) = token THEN out ELSE 0) - (IF tin = token THEN amt ELSE 0)
      BY <2>3, <2>6 DEF brings
    <3>2. CASE rq < 0
      <4>1. tin = "base" /\ Other(tin) = "quote" /\ amt = rb /\ lack = rq
        BY <3>2 DEF Other
      <4>2. CASE token = "base"
        <5>1. callsBring(calls, token) = -rb
          BY <2>5, <3>1, <4>1, <4>2
        <5>2. QED  BY <1>1, <1>2, <4>2, <5>1
      <4>3. CASE token = "quote"
        <5>1. callsBring(calls, token) = out
          BY <2>5, <3>1, <4>1, <4>3
        <5>2. QED  BY <1>1, <1>2, <2>2, <2>5, <4>1, <4>3, <5>1
      <4>4. QED  BY <4>2, <4>3
    <3>3. CASE ~(rq < 0)
      <4>1. tin = "quote" /\ Other(tin) = "base" /\ amt = rq /\ lack = rb
        BY <3>3 DEF Other
      <4>2. CASE token = "quote"
        <5>1. callsBring(calls, token) = -rq
          BY <2>5, <3>1, <4>1, <4>2
        <5>2. QED  BY <1>1, <1>2, <4>2, <5>1
      <4>3. CASE token = "base"
        <5>1. callsBring(calls, token) = out
          BY <2>5, <3>1, <4>1, <4>3
        <5>2. QED  BY <1>1, <1>2, <2>2, <2>5, <4>1, <4>3, <5>1
      <4>4. QED  BY <4>2, <4>3
    <3>4. QED  BY <3>2, <3>3
  <2>8. \A k \in DOMAIN calls : calls[k].minOut <= venueQuote(j.venue, calls[k].tokenIn, calls[k].amountIn)
    <3>1. out <= out
      BY <2>5
    <3>2. QED  BY <2>1, <2>3, <3>1 DEF out
  <2>9. QED  BY <2>7, <2>8
<1>7. QED  BY <1>5, <1>6

\* Raised baselines stay under what their fills get and reach the floor.
LEMMA RaisedFits ==
  ASSUME NEW intents, DOMAIN intents \subseteq Nat, NEW fills, FillsOf(intents, fills),
         NEW alone, \A f \in fills : alone[f.index] \in Int /\ alone[f.index] <= f.executedBuy,
         NEW floor \in Int, NEW r, r = raiseToFloor(fills, alone, floor), r # <<>>
  PROVE  /\ \A f \in fills : r[f.index] \in Int /\ r[f.index] <= f.executedBuy
         /\ SumFunctionOnSet([f \in fills |-> r[f.index]], fills) >= floor
<1> DEFINE room  == [f \in fills |-> f.executedBuy - alone[f.index]]
           earlier == [f \in fills |-> {g \in fills : room[g] > room[f] \/ (room[g] = room[f] /\ g.index < f.index)}]
           a == [f \in fills |-> alone[f.index]]
           lacking == floor - SumFunction(a)
           more  == handOut(room, earlier, lacking)
           b == [f \in fills |-> r[f.index]]
<1>1. r = IF SumFunction(more) < lacking THEN <<>> ELSE [n \in Indices(fills) |-> alone[n] + more[At(fills, n)]]
  BY DEF raiseToFloor
<1>2. IsFiniteSet(fills) /\ \A f \in fills : f.executedBuy \in Int /\ f.index \in Nat
  BY DEF FillsOf
<1>3. \A f \in fills : room[f] = f.executedBuy - alone[f.index] /\ a[f] = alone[f.index]
  OBVIOUS
<1>4. \A f \in fills : room[f] \in Nat /\ a[f] \in Int
  <2> HIDE DEF room, a
  <2>1. QED  BY <1>2, <1>3
<1>5. InOrder(fills, earlier)
  <2>1. \A f, g \in fills : room[f] \in Nat /\ room[g] \in Nat /\ f.index \in Nat /\ g.index \in Nat /\ (f.index = g.index => f = g)
    BY <1>2, <1>4 DEF FillsOf
  <2>2. \A f \in fills : earlier[f] = {g \in fills : room[g] > room[f] \/ (room[g] = room[f] /\ g.index < f.index)}
    OBVIOUS
  <2> HIDE DEF room, earlier
  <2>3. \A f \in fills : earlier[f] \subseteq fills /\ f \notin earlier[f]
    BY <2>1, <2>2
  <2>4. \A f, g \in fills : f # g => f \in earlier[g] \/ g \in earlier[f]
    <3> SUFFICES ASSUME NEW f \in fills, NEW g \in fills, f # g PROVE f \in earlier[g] \/ g \in earlier[f]
      OBVIOUS
    <3>1. room[f] \in Nat /\ room[g] \in Nat /\ f.index \in Nat /\ g.index \in Nat /\ f.index # g.index
      BY <2>1
    <3>2. QED  BY <2>2, <3>1
  <2>5. \A f, g \in fills : f \in earlier[g] => earlier[f] \subseteq earlier[g]
    <3> SUFFICES ASSUME NEW f \in fills, NEW g \in fills, f \in earlier[g], NEW x \in earlier[f] PROVE x \in earlier[g]
      OBVIOUS
    <3>0. x \in fills
      BY <2>3
    <3>1. room[f] \in Nat /\ room[g] \in Nat /\ room[x] \in Nat /\ f.index \in Nat /\ g.index \in Nat /\ x.index \in Nat
      BY <2>1, <3>0
    <3>2. QED  BY <2>2, <3>0, <3>1
  <2>6. QED  BY <2>3, <2>4, <2>5 DEF InOrder
<1>6. DOMAIN room = fills /\ SumFunction(a) = SumFunctionOnSet(a, fills)
  BY DEF SumFunction
<1>7. SumFunctionOnSet(a, fills) \in Int
  <2> HIDE DEF a
  <2>1. QED  BY <1>2, <1>4, SumInt
<1>8. lacking \in Int /\ lacking = floor - SumFunctionOnSet(a, fills)
  <2> HIDE DEF a
  <2>1. QED  BY <1>6, <1>7
<1> HIDE DEF room, earlier, a, lacking
<1>9. /\ \A f \in fills : more[f] \in Nat /\ more[f] <= room[f]
      /\ SumFunction(more) = SumFunctionOnSet(more, fills)
  <2>1. more = handOut(room, earlier, lacking)
    OBVIOUS
  <2> HIDE DEF more
  <2>2. QED  BY <1>2, <1>4, <1>5, <1>6, <1>8, <2>1, HandedOut
<1> HIDE DEF more
<1>10. ~(SumFunction(more) < lacking) /\ r = [n \in Indices(fills) |-> alone[n] + more[At(fills, n)]]
  BY <1>1
<1>11. \A f \in fills : f.index \in Indices(fills) /\ At(fills, f.index) = f
  BY FillAt
<1>12. \A f \in fills : r[f.index] = alone[f.index] + more[f]
  BY <1>10, <1>11
<1>13. \A f \in fills : r[f.index] \in Int /\ r[f.index] <= f.executedBuy
  BY <1>2, <1>3, <1>4, <1>9, <1>12
<1>14. \A f \in fills : b[f] = r[f.index]
  OBVIOUS
<1> HIDE DEF b
<1>15. \A f \in fills : a[f] \in Int /\ more[f] \in Int /\ b[f] = a[f] + more[f]
  BY <1>3, <1>4, <1>9, <1>12, <1>14
<1>16. SumFunctionOnSet(b, fills) = SumFunctionOnSet(a, fills) + SumFunctionOnSet(more, fills)
  BY <1>2, <1>15, SumPlus
<1>17. SumFunctionOnSet(more, fills) \in Int
  BY <1>2, <1>15, SumInt
<1>18. SumFunctionOnSet(b, fills) >= floor
  BY <1>7, <1>8, <1>9, <1>10, <1>16, <1>17
<1>19. QED  BY <1>13, <1>18 DEF b

byFill(r, fills) == [f \in fills |-> r[f.index]]

\* One direction's baselines.
LEMMA LiftedFits ==
  ASSUME NEW j \in ClearingJobs, NEW fills, FillsOf(j.intents, fills),
         NEW alone, \A f \in fills : alone[f.index] \in Int /\ alone[f.index] <= f.executedBuy,
         NEW token \in {"quote", "base"}, NEW toward, toward = {f \in fills : j.intents[f.index].sellToken = token},
         NEW floor, floor = venueQuote(j.venue, token, SoldIn(j.intents, fills, token)),
         NEW r, r = liftedToward(j.intents, fills, alone, token, floor), r # <<>>
  PROVE  /\ \A f \in toward : r[f.index] \in Int /\ r[f.index] <= f.executedBuy
         /\ SumFunctionOnSet(byFill(r, toward), toward) >= floor
<1>1. floor \in Int
  <2>1. SoldIn(j.intents, fills, token) \in Int
    BY SumsInt
  <2>2. QED  BY <2>1, QuoteInt
<1>2. r = IF floor = -1 THEN <<>> ELSE raiseToFloor(toward, alone, floor)
  BY DEF liftedToward
<1>3. r = raiseToFloor(toward, alone, floor)
  BY <1>2
<1>4. FillsOf(j.intents, toward)
  BY FS_Subset DEF FillsOf
<1>5. DOMAIN j.intents \subseteq Nat
  <2>1. Len(j.intents) \in Nat /\ DOMAIN j.intents = 1..Len(j.intents)
    BY JobIntents
  <2>2. QED  BY <2>1
<1>6. \A f \in toward : alone[f.index] \in Int /\ alone[f.index] <= f.executedBuy
  OBVIOUS
<1>7. QED  BY <1>1, <1>3, <1>4, <1>5, <1>6, RaisedFits DEF byFill

\* The netted plan is skipped or fits.
LEMMA NettedFits ==
  ASSUME NEW j \in ClearingJobs, NEW basePrice, NEW fills, FillsTaken(j.intents, fills, j.ref.quotePrice, basePrice),
         withinBand(basePrice, j.ref.basePrice, j.ref.maxDeviationBps),
         NEW o, o = netted(j.intents, j.venue, basePrice, fills, venueAlone(j.intents, j.venue, fills)), o # Skipped
  PROVE  PlanFits(j, o)
<1> DEFINE alone == venueAlone(j.intents, j.venue, fills)
           tokens == {j.intents[f.index].sellToken : f \in fills}
           floor(token) == venueQuote(j.venue, token, SoldIn(j.intents, fills, token))
           toward(token) == {f \in fills : j.intents[f.index].sellToken = token}
           lifted == lift(j.intents, j.venue, fills, alone)
           calls == route(j.intents, fills, j.venue)
           base == [n \in Indices(fills) |-> lifted[j.intents[n].sellToken][n]]
<1>1. FillsOf(j.intents, fills)
  BY DEF FillsTaken
<1>2. /\ ~ \E f \in fills : alone[f.index] = -1 \/ f.executedBuy < alone[f.index]
      /\ o = nettedWith(j.intents, fills, basePrice, lifted, calls)
  BY DEF netted
<1>3. DOMAIN lifted = tokens /\ \A token \in tokens : lifted[token] = liftedToward(j.intents, fills, alone, token, floor(token))
  BY DEF lift
<1>4. \A f \in fills : f.index \in Indices(fills) /\ At(fills, f.index) = f
  BY <1>1, FillAt
<1>5. \A f \in fills : alone[f.index] = venueQuote(j.venue, j.intents[f.index].sellToken, f.executedSell)
  BY <1>4 DEF venueAlone
<1>6. tokens \subseteq {"quote", "base"}
  <2>1. \A k \in DOMAIN j.intents : {j.intents[k].sellToken, j.intents[k].buyToken} = {"quote", "base"}
    BY ClearingAssumption
  <2>2. QED  BY <1>1, <2>1 DEF FillsOf
<1>7. \A f \in fills : j.intents[f.index].sellToken \in tokens /\ f.executedSell \in Int /\ f.executedBuy \in Int
  BY <1>1 DEF FillsOf
<1> HIDE DEF alone, tokens, lifted, calls, floor
<1>8. \A f \in fills : alone[f.index] \in Int
  BY <1>5, <1>6, <1>7, QuoteInt
<1>9. \A f \in fills : alone[f.index] \in Int /\ alone[f.index] <= f.executedBuy
  BY <1>2, <1>7, <1>8
<1>10. /\ \A token \in tokens : lifted[token] # <<>>
       /\ calls # <<NoCall>>
       /\ o = [mode |-> "netted", fills |-> fills, basePrice |-> basePrice, venueCalls |-> calls, baselines |-> base]
  BY <1>2, <1>3 DEF nettedWith
<1> HIDE DEF base
<1>11. o.fills = fills /\ o.basePrice = basePrice /\ o.venueCalls = calls /\ o.baselines = base
  BY <1>10
<1>12. ASSUME NEW token \in tokens
       PROVE  /\ \A f \in toward(token) : lifted[token][f.index] \in Int /\ lifted[token][f.index] <= f.executedBuy
              /\ SumFunctionOnSet(byFill(lifted[token], toward(token)), toward(token)) >= floor(token)
  <2>1. token \in {"quote", "base"}
    BY <1>6
  <2>2. PICK T : T = toward(token)
    OBVIOUS
  <2>3. PICK fl : fl = floor(token) /\ fl = venueQuote(j.venue, token, SoldIn(j.intents, fills, token))
    BY DEF floor
  <2>4. PICK r : r = lifted[token] /\ r = liftedToward(j.intents, fills, alone, token, fl) /\ r # <<>>
    <3>1. lifted[token] = liftedToward(j.intents, fills, alone, token, floor(token)) /\ lifted[token] # <<>>
      BY <1>3, <1>10
    <3>2. QED  BY <2>3, <3>1
  <2>5. T = {f \in fills : j.intents[f.index].sellToken = token}
    BY <2>2
  <2> HIDE DEF toward
  <2>6. /\ \A f \in T : r[f.index] \in Int /\ r[f.index] <= f.executedBuy
        /\ SumFunctionOnSet(byFill(r, T), T) >= fl
    <3>1. fl = venueQuote(j.venue, token, SoldIn(j.intents, fills, token))
      BY <2>3
    <3>2. r = liftedToward(j.intents, fills, alone, token, fl) /\ r # <<>>
      BY <2>4
    <3>3. (\A f \in T : r[f.index] \in Int /\ r[f.index] <= f.executedBuy)
      BY <1>1, <1>9, <2>1, <2>5, <3>1, <3>2, LiftedFits
    <3>4. SumFunctionOnSet(byFill(r, T), T) >= fl
      BY <1>1, <1>9, <2>1, <2>5, <3>1, <3>2, LiftedFits
    <3>5. QED  BY <3>3, <3>4
  <2>7. QED  BY <2>2, <2>3, <2>4, <2>6
<1>13. \A f \in fills : base[f.index] = lifted[j.intents[f.index].sellToken][f.index]
  BY <1>4 DEF base
<1>14. \A f \in fills : base[f.index] \in Int /\ base[f.index] <= f.executedBuy
  <2> SUFFICES ASSUME NEW f \in fills PROVE base[f.index] \in Int /\ base[f.index] <= f.executedBuy
    OBVIOUS
  <2>1. PICK token \in tokens : token = j.intents[f.index].sellToken
    BY <1>7
  <2>2. f \in toward(token)
    BY <2>1
  <2>3. lifted[token][f.index] \in Int /\ lifted[token][f.index] <= f.executedBuy
    BY <1>12, <2>2
  <2>4. QED  BY <1>13, <2>1, <2>3
<1>15. ASSUME NEW token \in tokens PROVE SumFunction([f \in toward(token) |-> base[f.index]]) >= floor(token)
  <2>1. [f \in toward(token) |-> base[f.index]] = byFill(lifted[token], toward(token))
    <3>1. \A f \in toward(token) : base[f.index] = lifted[token][f.index]
      BY <1>13
    <3>2. QED  BY <3>1 DEF byFill
  <2>2. SumFunction([f \in toward(token) |-> base[f.index]])
        = SumFunctionOnSet([f \in toward(token) |-> base[f.index]], toward(token))
    BY DEF SumFunction
  <2> HIDE DEF toward
  <2>3. QED  BY <1>12, <2>1, <2>2
<1>16. calls = route(j.intents, fills, j.venue)
  BY DEF calls
<1>17. /\ \A token \in {"quote", "base"} :
              SoldIn(j.intents, fills, token) + callsBring(calls, token) - BoughtIn(j.intents, fills, token) >= 0
       /\ \A k \in DOMAIN calls : calls[k].minOut <= venueQuote(j.venue, calls[k].tokenIn, calls[k].amountIn)
  BY <1>1, <1>10, <1>16, RouteBrings
<1>18. \A f \in fills : f.executedBuy >= base[f.index]
  BY <1>7, <1>14
<1>19. PlanHolds(j.intents, j.ref, o)
  BY <1>11, <1>17, <1>18 DEF FillsTaken, PlanHolds
<1>20. \A token \in {j.intents[f.index].sellToken : f \in o.fills} :
         SumFunction([f \in {f \in o.fills : j.intents[f.index].sellToken = token} |-> o.baselines[f.index]])
         >= venueQuote(j.venue, token, SoldIn(j.intents, o.fills, token))
  BY <1>11, <1>15 DEF tokens, floor
<1>21. QED  BY <1>11, <1>17, <1>19, <1>20 DEF PlanFits

LEMMA TryNettedFits ==
  ASSUME NEW j \in ClearingJobs, NEW o, o = tryNetted(j.intents, j.ref, j.venue)
  PROVE  o = Skipped \/ PlanFits(j, o)
<1> SUFFICES ASSUME o # Skipped PROVE PlanFits(j, o)
  OBVIOUS
<1>1. PICK c : c = clear(j.intents, j.ref)
  OBVIOUS
<1>2. IntentsHold(j.intents) /\ Len(j.intents) \in Nat /\ DOMAIN j.intents = 1..Len(j.intents) /\ RefHolds(j.ref)
  BY JobIntents, RefOfJob
<1>3. c.price \in Nat /\ (c = NoClearing \/ inBand(c.price, j.ref))
  BY <1>1, <1>2, ClearPrice
<1> DEFINE F == allocate(j.intents, c.price, j.ref, 0)
           bp == baseUnitPrice(c.price, j.ref)
<1>4. c.executable # 0 /\ o = nettedFills(j.intents, j.venue, bp, F)
  BY <1>1 DEF tryNetted, nettedAt
<1>5. withinBand(bp, j.ref.basePrice, j.ref.maxDeviationBps)
  BY <1>3, <1>4 DEF NoClearing, inBand
<1>6. FillsTaken(j.intents, F, j.ref.quotePrice, bp)
  <2>1. 0 \in Nat
    OBVIOUS
  <2>2. QED  BY <1>2, <1>3, <2>1, AllocateTaken
<1> HIDE DEF F, bp
<1>7. o = netted(j.intents, j.venue, bp, F, venueAlone(j.intents, j.venue, F))
  BY <1>4 DEF nettedFills
<1>8. QED  BY <1>5, <1>6, <1>7, NettedFits

\* A recursion from a set to smaller ones: on to w[V] while go[V] holds, then r[V].
ChainSolves(go, w, r, S, h) == h = [V \in SUBSET S |-> IF go[V] THEN h[w[V]] ELSE r[V]]
Shrinks(go, w, S) == \A V \in SUBSET S : go[V] => w[V] \subseteq V /\ w[V] # V

LEMMA ChainStep ==
  ASSUME NEW S, NEW go, NEW w, NEW r, NEW h, ChainSolves(go, w, r, S, h), NEW V \in SUBSET S
  PROVE  h[V] = IF go[V] THEN h[w[V]] ELSE r[V]
BY DEF ChainSolves

LEMMA ChainsAgree ==
  ASSUME NEW S, IsFiniteSet(S), NEW go, NEW w, NEW r, Shrinks(go, w, S), NEW h, NEW k, NEW U \in SUBSET S, NEW X \in SUBSET S,
         ChainSolves(go, w, r, U, h), ChainSolves(go, w, r, X, k), NEW T, T \subseteq U, T \subseteq X
  PROVE  h[T] = k[T]
<1> DEFINE Bad == {V \in SUBSET T : h[V] # k[V]}
<1> SUFFICES ASSUME Bad # {} PROVE FALSE
  OBVIOUS
<1>1. PICK V \in Bad : \A W \in Bad : ~(W \subseteq V /\ W # V)
  <2>1. Bad \subseteq SUBSET S
    OBVIOUS
  <2> HIDE DEF Bad
  <2>2. QED  BY <2>1, SmallestSet
<1>2. V \in SUBSET U /\ V \in SUBSET X /\ V \in SUBSET S /\ V \in SUBSET T /\ h[V] # k[V]
  OBVIOUS
<1>3. h[V] = (IF go[V] THEN h[w[V]] ELSE r[V]) /\ k[V] = (IF go[V] THEN k[w[V]] ELSE r[V])
  BY <1>2, ChainStep
<1>4. go[V] /\ h[w[V]] # k[w[V]]
  BY <1>2, <1>3
<1>5. w[V] \subseteq V /\ w[V] # V
  BY <1>2, <1>4 DEF Shrinks
<1>6. w[V] \in Bad
  BY <1>2, <1>4, <1>5
<1>7. QED  BY <1>1, <1>5, <1>6

LEMMA ChainExists ==
  ASSUME NEW S, IsFiniteSet(S), NEW go, NEW w, NEW r, Shrinks(go, w, S)
  PROVE  \E h : ChainSolves(go, w, r, S, h)
<1> DEFINE Bad == {V \in SUBSET S : ~ \E h : ChainSolves(go, w, r, V, h)}
<1> SUFFICES ASSUME Bad # {} PROVE FALSE
  OBVIOUS
<1>1. PICK T \in Bad : \A W \in Bad : ~(W \subseteq T /\ W # T)
  <2>1. Bad \subseteq SUBSET S
    OBVIOUS
  <2> HIDE DEF Bad
  <2>2. QED  BY <2>1, SmallestSet
<1> DEFINE val(V) == (CHOOSE h : ChainSolves(go, w, r, V, h))[V]
           H == [V \in SUBSET T |-> IF go[V] THEN val(w[V]) ELSE r[V]]
<1>2. ASSUME NEW V \in SUBSET T, V # T
      PROVE  \E h : ChainSolves(go, w, r, V, h) /\ val(V) = h[V]
  <2>1. \E h : ChainSolves(go, w, r, V, h)
    BY <1>1, <1>2
  <2>2. ChainSolves(go, w, r, V, CHOOSE h : ChainSolves(go, w, r, V, h))
    BY <2>1
  <2>3. QED  BY <2>2
<1>3. T \in SUBSET S
  OBVIOUS
<1>4. \A V \in SUBSET T : go[V] => w[V] \subseteq V /\ w[V] # V
  BY <1>3 DEF Shrinks
<1>5. \A V \in SUBSET T : H[V] = IF go[V] THEN val(w[V]) ELSE r[V]
  OBVIOUS
<1> HIDE DEF val
<1>6. ASSUME NEW V \in SUBSET T, go[V]
      PROVE  H[w[V]] = val(w[V])
  <2> DEFINE W == w[V]
             X == w[W]
  <2>1. W \in SUBSET T /\ W # T
    BY <1>4, <1>6
  <2>2. PICK h : ChainSolves(go, w, r, W, h) /\ val(W) = h[W]
    <3> HIDE DEF W
    <3>1. QED  BY <1>2, <2>1
  <2>3. H[W] = IF go[W] THEN val(X) ELSE r[W]
    BY <1>5, <2>1
  <2>4. h[W] = IF go[W] THEN h[X] ELSE r[W]
    <3> HIDE DEF W
    <3>1. W \in SUBSET W
      OBVIOUS
    <3>2. QED  BY <2>2, <3>1, ChainStep
  <2>5. CASE ~go[W]
    BY <2>2, <2>3, <2>4, <2>5
  <2>6. CASE go[W]
    <3>1. X \subseteq W /\ X # W
      BY <1>4, <2>1, <2>6
    <3>2. X \in SUBSET T /\ X # T
      BY <2>1, <3>1
    <3> HIDE DEF X, W, H
    <3>3. PICK k : ChainSolves(go, w, r, X, k) /\ val(X) = k[X]
      BY <1>2, <3>2
    <3>4. h[X] = k[X]
      BY <1>3, <2>1, <2>2, <3>1, <3>2, <3>3, ChainsAgree
    <3>5. QED  BY <2>2, <2>3, <2>4, <2>6, <3>3, <3>4 DEF W
  <2>7. QED  BY <2>5, <2>6
<1>7. \A V \in SUBSET T : H[V] = IF go[V] THEN H[w[V]] ELSE r[V]
  BY <1>5, <1>6
<1>8. H = [V \in SUBSET T |-> H[V]]
  OBVIOUS
<1> HIDE DEF H
<1>9. ChainSolves(go, w, r, T, H)
  BY <1>7, <1>8 DEF ChainSolves
<1>10. QED  BY <1>1, <1>9

\* The recursion ends where it does not go on.
LEMMA ChainEnds ==
  ASSUME NEW S, IsFiniteSet(S), NEW go, NEW w, NEW r, Shrinks(go, w, S), NEW h, ChainSolves(go, w, r, S, h)
  PROVE  \E V \in SUBSET S : ~go[V] /\ h[S] = r[V]
<1> DEFINE K == {V \in SUBSET S : h[V] = h[S]}
<1>1. PICK V \in K : \A W \in K : ~(W \subseteq V /\ W # V)
  <2>1. K \subseteq SUBSET S /\ K # {}
    OBVIOUS
  <2> HIDE DEF K
  <2>2. QED  BY <2>1, SmallestSet
<1>2. V \in SUBSET S /\ h[V] = h[S]
  OBVIOUS
<1>3. h[V] = IF go[V] THEN h[w[V]] ELSE r[V]
  BY <1>2, ChainStep
<1>4. CASE go[V]
  <2>1. w[V] \subseteq V /\ w[V] # V
    BY <1>2, <1>4 DEF Shrinks
  <2>2. w[V] \in K
    BY <1>2, <1>3, <1>4, <2>1
  <2>3. QED  BY <1>1, <2>1, <2>2
<1>5. CASE ~go[V]
  BY <1>2, <1>3, <1>5
<1>6. QED  BY <1>4, <1>5

\* One side's quote, fills and broken limits.
sideQuote(intents, venue, tokenIn, side) == venueQuote(venue, tokenIn, TotalSell(intents, side))
sideFills(intents, venue, tokenIn, side) == routedFills(intents, side, sideQuote(intents, venue, tokenIn, side))
sideBroken(intents, venue, tokenIn, side) == brokenIn(intents, sideFills(intents, venue, tokenIn, side))
sideCall(intents, venue, tokenIn, side) ==
  [tokenIn |-> tokenIn, tokenOut |-> Other(tokenIn), amountIn |-> TotalSell(intents, side),
   minOut |-> sideQuote(intents, venue, tokenIn, side)]
sidePlan(intents, ref, venue, tokenIn, side) ==
  routedAt(intents, ref, sideFills(intents, venue, tokenIn, side),
           impliedPrice(sideFills(intents, venue, tokenIn, side), tokenIn = "quote", ref.quotePrice),
           sideCall(intents, venue, tokenIn, side))

\* What one intent of a side gets.
shareOf(intents, side, out) == [n \in side |-> (out * intents[n].sellAmount) \div TotalSell(intents, side)]
shareBuys(intents, side, out) ==
  [n \in side |-> IF n = Max(side) THEN out - SumFunctionOnSet(shareOf(intents, side, out), side \ {n})
                  ELSE shareOf(intents, side, out)[n]]
routedFill(intents, side, out, n) ==
  [index |-> n, executedSell |-> intents[n].sellAmount, bad |-> FALSE, executedBuy |-> shareBuys(intents, side, out)[n]]

LEMMA RoutedAre ==
  ASSUME NEW intents, NEW side, NEW out
  PROVE  routedFills(intents, side, out) = {routedFill(intents, side, out, n) : n \in side}
<1>1. \A n \in side : shareBuys(intents, side, out)[n]
                       = IF n = Max(side) THEN out - SumFunctionOnSet(shareOf(intents, side, out), side \ {n})
                         ELSE shareOf(intents, side, out)[n]
  BY DEF shareBuys
<1>2. routedFills(intents, side, out)
      = {[index |-> n, executedSell |-> intents[n].sellAmount, bad |-> FALSE,
          executedBuy |-> IF n = Max(side) THEN out - SumFunctionOnSet(shareOf(intents, side, out), side \ {n})
                          ELSE shareOf(intents, side, out)[n]] : n \in side}
  BY DEF routedFills, shareOf
<1>3. QED  BY <1>1, <1>2 DEF routedFill

LEMMA RoutedFillIs ==
  ASSUME NEW intents, NEW side, NEW out, NEW n
  PROVE  /\ routedFill(intents, side, out, n).index = n
         /\ routedFill(intents, side, out, n).executedSell = intents[n].sellAmount
         /\ routedFill(intents, side, out, n).executedBuy = shareBuys(intents, side, out)[n]
BY DEF routedFill

\* h solves the recursion over the sides of all.
RouteSolves(intents, ref, venue, all, tokenIn, h) ==
  h = [side \in SUBSET all |->
         IF side = {} \/ sideQuote(intents, venue, tokenIn, side) = -1 THEN Skipped
         ELSE IF TotalSell(intents, side) = 0 /\ side # {Max(side)} THEN Thrown
         ELSE IF sideBroken(intents, venue, tokenIn, side) # {} THEN h[side \ {Min(sideBroken(intents, venue, tokenIn, side))}]
         ELSE IF tokenIn = "base" /\ \E f \in sideFills(intents, venue, tokenIn, side) : f.executedSell = 0 THEN Thrown
         ELSE sidePlan(intents, ref, venue, tokenIn, side)]

LEMMA RouteUnfold ==
  ASSUME NEW intents, NEW ref, NEW venue, NEW all, NEW tokenIn
  PROVE  routeSide(intents, ref, venue, all, tokenIn)
         = (CHOOSE h : RouteSolves(intents, ref, venue, all, tokenIn, h))[all]
BY DEF routeSide, RouteSolves, sideQuote, sideFills, sideBroken, sideCall, sidePlan

\* A plan made of one side.
RoutedOn(j, token, all, o) ==
  \E side \in SUBSET all :
    /\ side # {}
    /\ TotalSell(j.intents, side) = 0 => side = {Max(side)}
    /\ sideBroken(j.intents, j.venue, token, side) = {}
    /\ o = sidePlan(j.intents, j.ref, j.venue, token, side)

LEMMA RouteSideEnds ==
  ASSUME NEW j \in ClearingJobs, NEW all, all \subseteq DOMAIN j.intents, NEW token,
         NEW o, o = routeSide(j.intents, j.ref, j.venue, all, token)
  PROVE  o \in {Skipped, Thrown} \/ RoutedOn(j, token, all, o)
<1> DEFINE quote(side)  == sideQuote(j.intents, j.venue, token, side)
           fills(side)  == sideFills(j.intents, j.venue, token, side)
           broken(side) == sideBroken(j.intents, j.venue, token, side)
           total(side)  == TotalSell(j.intents, side)
           on(side) == /\ ~(side = {} \/ quote(side) = -1)
                       /\ ~(total(side) = 0 /\ side # {Max(side)})
                       /\ broken(side) # {}
           end(side) == IF side = {} \/ quote(side) = -1 THEN Skipped
                        ELSE IF total(side) = 0 /\ side # {Max(side)} THEN Thrown
                        ELSE IF token = "base" /\ \E f \in fills(side) : f.executedSell = 0 THEN Thrown
                        ELSE sidePlan(j.intents, j.ref, j.venue, token, side)
           go == [side \in SUBSET all |-> on(side)]
           w  == [side \in SUBSET all |-> side \ {Min(broken(side))}]
           r  == [side \in SUBSET all |-> end(side)]
           Solves(h) == RouteSolves(j.intents, j.ref, j.venue, all, token, h)
<1>1. IsFiniteSet(all) /\ all \subseteq Nat
  <2>1. IsFiniteSet(DOMAIN j.intents) /\ Len(j.intents) \in Nat /\ DOMAIN j.intents = 1..Len(j.intents)
    BY JobIntents DEF IntentsHold
  <2>2. QED  BY <2>1, FS_Subset
<1>2. ASSUME NEW side \in SUBSET all PROVE \A b \in broken(side) : b \in side
  <2>1. \A f \in fills(side) : f.index \in side
    BY RoutedAre, RoutedFillIs DEF sideFills
  <2> HIDE DEF fills
  <2>2. QED  BY <2>1 DEF sideBroken, brokenIn, fills
<1> HIDE DEF quote, fills, broken, total
<1>3. ASSUME NEW side \in SUBSET all, broken(side) # {} PROVE Min(broken(side)) \in side
  <2>1. broken(side) \subseteq side
    BY <1>2
  <2>2. IsFiniteSet(broken(side)) /\ \A b \in broken(side) : b \in Nat
    BY <1>1, <2>1, FS_Subset
  <2>3. Min(broken(side)) \in broken(side)
    BY <1>3, <2>2, FirstPosition
  <2>4. QED  BY <2>1, <2>3
<1>4. Shrinks(go, w, all)
  <2> SUFFICES ASSUME NEW side \in SUBSET all, go[side] PROVE w[side] \subseteq side /\ w[side] # side
    BY DEF Shrinks
  <2>1. broken(side) # {} /\ w[side] = side \ {Min(broken(side))}
    OBVIOUS
  <2>2. Min(broken(side)) \in side
    BY <1>3, <2>1
  <2>3. QED  BY <2>1, <2>2
<1>5. ASSUME NEW h PROVE Solves(h) <=> ChainSolves(go, w, r, all, h)
  <2>1. ASSUME NEW side \in SUBSET all
        PROVE  (IF side = {} \/ quote(side) = -1 THEN Skipped
                ELSE IF total(side) = 0 /\ side # {Max(side)} THEN Thrown
                ELSE IF broken(side) # {} THEN h[side \ {Min(broken(side))}]
                ELSE IF token = "base" /\ \E f \in fills(side) : f.executedSell = 0 THEN Thrown
                ELSE sidePlan(j.intents, j.ref, j.venue, token, side))
               = (IF go[side] THEN h[w[side]] ELSE r[side])
    OBVIOUS
  <2>2. [side \in SUBSET all |->
                IF side = {} \/ quote(side) = -1 THEN Skipped
                ELSE IF total(side) = 0 /\ side # {Max(side)} THEN Thrown
                ELSE IF broken(side) # {} THEN h[side \ {Min(broken(side))}]
                ELSE IF token = "base" /\ \E f \in fills(side) : f.executedSell = 0 THEN Thrown
                ELSE sidePlan(j.intents, j.ref, j.venue, token, side)]
        = [side \in SUBSET all |-> IF go[side] THEN h[w[side]] ELSE r[side]]
    <3> HIDE DEF go, w, r
    <3>1. QED  BY <2>1
  <2> HIDE DEF go, w, r
  <2>3. QED  BY <2>2 DEF RouteSolves, ChainSolves, quote, total, broken, fills
<1> HIDE DEF go, w, r
<1>6. PICK h : h = CHOOSE g : Solves(g)
  OBVIOUS
<1>7. ChainSolves(go, w, r, all, h)
  <2> HIDE DEF Solves
  <2>1. \E k : Solves(k)
    BY <1>1, <1>4, <1>5, ChainExists
  <2>2. Solves(h)
    BY <1>6, <2>1
  <2>3. QED  BY <1>5, <2>2
<1>8. o = h[all]
  BY <1>6, RouteUnfold
<1>9. PICK side \in SUBSET all : ~go[side] /\ o = r[side]
  BY <1>1, <1>4, <1>7, <1>8, ChainEnds
<1>10. ~on(side) /\ o = end(side)
  BY <1>9 DEF go, r
<1>11. CASE side = {} \/ quote(side) = -1 \/ (total(side) = 0 /\ side # {Max(side)})
           \/ (token = "base" /\ \E f \in fills(side) : f.executedSell = 0)
  BY <1>10, <1>11
<1>12. CASE ~(side = {} \/ quote(side) = -1 \/ (total(side) = 0 /\ side # {Max(side)})
           \/ (token = "base" /\ \E f \in fills(side) : f.executedSell = 0))
  <2>1. broken(side) = {} /\ o = sidePlan(j.intents, j.ref, j.venue, token, side) /\ side # {}
        /\ (total(side) = 0 => side = {Max(side)})
    BY <1>10, <1>12
  <2>2. QED  BY <2>1 DEF RoutedOn, broken, total
<1>13. QED  BY <1>11, <1>12

\* The shares of a side are amounts and make up what the venue gives.
LEMMA SharesAre ==
  ASSUME NEW intents, NEW side, IsFiniteSet(side), side # {}, \A n \in side : n \in Nat /\ intents[n].sellAmount \in Nat,
         TotalSell(intents, side) = 0 => side = {Max(side)}, NEW out \in Int
  PROVE  /\ TotalSell(intents, side) \in Nat
         /\ \A n \in side : shareBuys(intents, side, out)[n] \in Int
         /\ SumFunctionOnSet(shareBuys(intents, side, out), side) = out
<1> DEFINE sold == [n \in side |-> intents[n].sellAmount]
           share == shareOf(intents, side, out)
           buys == shareBuys(intents, side, out)
           last == Max(side)
           rest == side \ {last}
<1>1. last \in side
  <2>1. \E k \in side : \A j \in side : j <= k
    BY LastPosition
  <2>2. \E k \in side : \A j \in side : k >= j
    BY <2>1
  <2>3. QED  BY <2>2 DEF Max
<1>2. TotalSell(intents, side) \in Nat
  <2>1. TotalSell(intents, side) = SumFunctionOnSet(sold, side) /\ \A n \in side : sold[n] \in Nat
    BY DEF TotalSell, SumFunction
  <2> HIDE DEF sold
  <2>2. QED  BY <2>1, SumNat
<1>3. PICK T \in Nat : T = TotalSell(intents, side)
  BY <1>2
<1>4. \A n \in side : share[n] = (out * intents[n].sellAmount) \div T
  BY <1>3 DEF shareOf
<1>5. \A n \in side : buys[n] = IF n = last THEN out - SumFunctionOnSet(share, side \ {n}) ELSE share[n]
  BY DEF shareBuys
<1> HIDE DEF last, share, buys
<1>6. ASSUME NEW n \in rest PROVE share[n] \in Int
  <2>1. T \in Nat \ {0}
    BY <1>3, <1>6 DEF last
  <2>2. PICK a \in Nat : a = intents[n].sellAmount
    OBVIOUS
  <2>3. PICK x \in Int : x = out * a
    <3>1. out * a \in Int
      BY Z3
    <3>2. QED  BY <3>1
  <2>4. x \div T \in Int
    BY <2>1, QuotientInt
  <2>5. n \in side
    OBVIOUS
  <2>6. QED  BY <1>4, <2>2, <2>3, <2>4, <2>5
<1>7. IsFiniteSet(rest) /\ rest \subseteq side
  BY FS_Subset
<1>8. PICK R \in Int : R = SumFunctionOnSet(share, rest)
  <2> HIDE DEF rest
  <2>1. QED  BY <1>6, <1>7, SumInt
<1>9. buys[last] = out - R
  BY <1>1, <1>5, <1>8
<1>10. \A n \in rest : buys[n] = share[n] /\ buys[n] \in Int
  BY <1>5, <1>6
<1>11. \A n \in side : buys[n] \in Int
  <2>1. \A n \in side : n = last \/ n \in rest
    OBVIOUS
  <2> HIDE DEF rest
  <2>2. QED  BY <1>9, <1>10, <2>1
<1>12. SumFunctionOnSet(buys, rest) = R
  <2> HIDE DEF rest
  <2>1. QED  BY <1>7, <1>8, <1>10, SumSame
<1>13. SumFunctionOnSet(buys, side) = buys[last] + SumFunctionOnSet(buys, rest)
  BY <1>1, <1>11, SumRemove
<1>14. SumFunctionOnSet(buys, side) = out
  <2> HIDE DEF rest
  <2>1. QED  BY <1>9, <1>12, <1>13
<1>15. QED  BY <1>2, <1>11, <1>14 DEF buys

\* A routed plan of one side: all of it in one call, each fill its own baseline.
SidePlan(j, token, o) ==
  /\ o.mode = "routed"
  /\ FillsOf(j.intents, o.fills)
  /\ \A f \in o.fills :
       /\ j.intents[f.index].sellToken = token
       /\ f.executedSell = j.intents[f.index].sellAmount
       /\ limitRespected(f.executedBuy, j.intents[f.index].sellAmount, j.intents[f.index].minBuyAmount, f.executedSell)
       /\ uniformAt(j.intents, f, j.ref.quotePrice, o.basePrice)
       /\ o.baselines[f.index] = f.executedBuy
  /\ DOMAIN o.baselines = Indices(o.fills)
  /\ withinBand(o.basePrice, j.ref.basePrice, j.ref.maxDeviationBps)
  /\ o.venueCalls = <<[tokenIn |-> token, tokenOut |-> Other(token), amountIn |-> SoldIn(j.intents, o.fills, token),
                       minOut |-> BoughtIn(j.intents, o.fills, Other(token))]>>
  /\ BoughtIn(j.intents, o.fills, Other(token)) = venueQuote(j.venue, token, SoldIn(j.intents, o.fills, token))

LEMMA TokensOfJob ==
  ASSUME NEW j \in ClearingJobs, NEW k \in DOMAIN j.intents
  PROVE  /\ j.intents[k].sellToken \in {"quote", "base"}
         /\ j.intents[k].buyToken = Other(j.intents[k].sellToken)
         /\ \A token \in {"quote", "base"} :
              /\ j.intents[k].sellToken = token <=> j.intents[k].buyToken = Other(token)
              /\ j.intents[k].buyToken = token <=> j.intents[k].sellToken = Other(token)
              /\ Other(token) \in {"quote", "base"} /\ Other(token) # token /\ Other(Other(token)) = token
<1>1. {j.intents[k].sellToken, j.intents[k].buyToken} = {"quote", "base"}
  BY ClearingAssumption
<1>2. QED  BY <1>1 DEF Other

LEMMA RoutedPlanIs ==
  ASSUME NEW j \in ClearingJobs, NEW token \in {"quote", "base"}, NEW all, all \subseteq DOMAIN j.intents,
         \A n \in all : sellsQuote(j.intents[n]) = (token = "quote"),
         NEW o, RoutedOn(j, token, all, o), o # Skipped
  PROVE  SidePlan(j, token, o)
<1>1. PICK side \in SUBSET all : /\ side # {}
                                 /\ TotalSell(j.intents, side) = 0 => side = {Max(side)}
                                 /\ sideBroken(j.intents, j.venue, token, side) = {}
                                 /\ o = sidePlan(j.intents, j.ref, j.venue, token, side)
  BY DEF RoutedOn
<1>2. IsFiniteSet(side) /\ \A n \in side : n \in DOMAIN j.intents /\ n \in Nat /\ j.intents[n].sellAmount \in Nat
  <2>1. IsFiniteSet(DOMAIN j.intents) /\ Len(j.intents) \in Nat /\ DOMAIN j.intents = 1..Len(j.intents)
    BY JobIntents DEF IntentsHold
  <2>2. \A n \in DOMAIN j.intents : n \in Nat /\ j.intents[n].sellAmount \in Nat
    BY <2>1, JobIntents DEF IntentsHold
  <2>3. side \subseteq DOMAIN j.intents
    OBVIOUS
  <2>4. QED  BY <2>1, <2>2, <2>3, FS_Subset
<1>3. PICK T \in Nat : T = TotalSell(j.intents, side)
  <2>1. 0 \in Int
    OBVIOUS
  <2>2. QED  BY <1>1, <1>2, <2>1, SharesAre
<1>4. PICK out \in Int : out = venueQuote(j.venue, token, T) /\ out = sideQuote(j.intents, j.venue, token, side)
  BY <1>3, QuoteInt DEF sideQuote
<1> DEFINE F == routedFills(j.intents, side, out)
           fill(n) == routedFill(j.intents, side, out, n)
           m == [n \in side |-> fill(n)]
           buys == shareBuys(j.intents, side, out)
           price == impliedPrice(F, token = "quote", j.ref.quotePrice)
           call == [tokenIn |-> token, tokenOut |-> Other(token), amountIn |-> T, minOut |-> out]
           base == [n \in Indices(F) |-> At(F, n).executedBuy]
           sold == [n \in side |-> j.intents[n].sellAmount]
           x == [f \in F |-> f.executedSell]
           y == [f \in F |-> f.executedBuy]
<1>5. F = {m[n] : n \in side}
  BY RoutedAre
<1>6. \A n \in side : m[n].index = n /\ m[n].executedSell = j.intents[n].sellAmount /\ m[n].executedBuy = buys[n]
  BY RoutedFillIs
<1>7. (\A n \in side : buys[n] \in Int) /\ SumFunctionOnSet(buys, side) = out
  BY <1>1, <1>2, SharesAre
<1>8. brokenIn(j.intents, F) = {} /\ o = routedAt(j.intents, j.ref, F, price, call)
  BY <1>1, <1>3, <1>4 DEF sideBroken, sideFills, sidePlan, sideCall
<1>9. /\ withinBand(price, j.ref.basePrice, j.ref.maxDeviationBps)
      /\ \A f \in F : uniformAt(j.intents, f, j.ref.quotePrice, price)
      /\ o = [mode |-> "routed", fills |-> F, basePrice |-> price, venueCalls |-> <<call>>, baselines |-> base]
  BY <1>8 DEF routedAt
<1>10. \A f \in F : limitRespected(f.executedBuy, j.intents[f.index].sellAmount, j.intents[f.index].minBuyAmount, f.executedSell)
  BY <1>8 DEF brokenIn
<1>11. \A n \in side : x[m[n]] = m[n].executedSell /\ y[m[n]] = m[n].executedBuy /\ sold[n] = j.intents[n].sellAmount
  <2>1. \A n \in side : m[n] \in F
    BY <1>5
  <2> HIDE DEF m, F
  <2>2. QED  BY <2>1
<1>12. DOMAIN base = Indices(F)
  OBVIOUS
<1> HIDE DEF m, price, base
<1>13. o.mode = "routed" /\ o.fills = F /\ o.basePrice = price /\ o.venueCalls = <<call>> /\ o.baselines = base
  BY <1>9
<1>14. FillsOf(j.intents, F)
  <2>1. IsFiniteSet(F)
    <3>1. m \in Surjection(side, F)
      BY <1>5 DEF Surjection, m
    <3> HIDE DEF F
    <3>2. QED  BY <1>2, <3>1, FS_Surjection
  <2> HIDE DEF F
  <2>2. \A f \in F : \E n \in side : f = m[n]
    BY <1>5
  <2>3. \A f \in F : f.index \in DOMAIN j.intents /\ f.executedSell \in Int /\ f.executedBuy \in Int
    BY <1>2, <1>6, <1>7, <2>2
  <2>4. \A f, g \in F : f.index = g.index => f = g
    BY <1>6, <2>2
  <2>5. QED  BY <2>1, <2>3, <2>4 DEF FillsOf
<1>15. \A f \in F : base[f.index] = f.executedBuy
  <2>1. \A f \in F : f.index \in Indices(F) /\ At(F, f.index) = f
    BY <1>14, FillAt
  <2>2. QED  BY <2>1 DEF base
<1>16. \A f \in F : j.intents[f.index].sellToken = token /\ j.intents[f.index].buyToken = Other(token) /\ f.executedSell = j.intents[f.index].sellAmount
  <2>1. \A n \in side : j.intents[n].sellToken = token /\ j.intents[n].buyToken = Other(token)
    <3> SUFFICES ASSUME NEW n \in side PROVE j.intents[n].sellToken = token /\ j.intents[n].buyToken = Other(token)
      OBVIOUS
    <3>1. sellsQuote(j.intents[n]) = (token = "quote") /\ n \in DOMAIN j.intents
      BY <1>2
    <3>2. j.intents[n].sellToken \in {"quote", "base"} /\ j.intents[n].buyToken = Other(j.intents[n].sellToken)
      BY <3>1, TokensOfJob
    <3>3. QED  BY <3>1, <3>2 DEF sellsQuote
  <2> HIDE DEF F
  <2>2. QED  BY <1>5, <1>6, <2>1
<1>17. SoldIn(j.intents, F, token) = SumFunctionOnSet(x, F) /\ BoughtIn(j.intents, F, Other(token)) = SumFunctionOnSet(y, F)
  <2>1. {f \in F : j.intents[f.index].sellToken = token} = F /\ {f \in F : j.intents[f.index].buyToken = Other(token)} = F
    BY <1>16
  <2> HIDE DEF F
  <2>2. QED  BY <2>1 DEF SoldIn, BoughtIn, SumFunction
<1>18. \A n \in side : sold[n] \in Int /\ x[m[n]] = sold[n] /\ buys[n] \in Int /\ y[m[n]] = buys[n]
  BY <1>2, <1>6, <1>7, <1>11
<1>19. \A n, k \in side : m[n] = m[k] => n = k
  BY <1>6
<1>20. TotalSell(j.intents, side) = SumFunctionOnSet(sold, side)
  BY DEF TotalSell, SumFunction
<1> HIDE DEF x, y, sold, buys, F
<1>21. SumFunctionOnSet(x, {m[n] : n \in side}) = SumFunctionOnSet(sold, side)
  BY <1>2, <1>18, <1>19, SumRename
<1>22. SumFunctionOnSet(y, {m[n] : n \in side}) = SumFunctionOnSet(buys, side)
  BY <1>2, <1>18, <1>19, SumRename
<1>23. SoldIn(j.intents, F, token) = T /\ BoughtIn(j.intents, F, Other(token)) = out
  BY <1>3, <1>5, <1>7, <1>17, <1>20, <1>21, <1>22
<1>24. QED  BY <1>4, <1>9, <1>10, <1>12, <1>13, <1>14, <1>15, <1>16, <1>23 DEF SidePlan

LEMMA NobodySells ==
  ASSUME NEW intents, NEW fills, NEW token, \A f \in fills : intents[f.index].sellToken # token
  PROVE  SoldIn(intents, fills, token) = 0
<1>1. {f \in fills : intents[f.index].sellToken = token} = {}
  OBVIOUS
<1>2. SoldIn(intents, fills, token) = SumFunctionOnSet([f \in {} |-> f.executedSell], {})
  BY <1>1 DEF SoldIn, SumFunction
<1>3. QED  BY <1>2, SumEmpty

LEMMA NobodyBuys ==
  ASSUME NEW intents, NEW fills, NEW token, \A f \in fills : intents[f.index].buyToken # token
  PROVE  BoughtIn(intents, fills, token) = 0
<1>1. {f \in fills : intents[f.index].buyToken = token} = {}
  OBVIOUS
<1>2. BoughtIn(intents, fills, token) = SumFunctionOnSet([f \in {} |-> f.executedBuy], {})
  BY <1>1 DEF BoughtIn, SumFunction
<1>3. QED  BY <1>2, SumEmpty

ownSum(intents, fills, base, token) ==
  SumFunction([f \in {f \in fills : intents[f.index].sellToken = token} |-> base[f.index]])

\* A direction's baselines are what it gets when each fill is its own.
LEMMA OwnBaselines ==
  ASSUME NEW j \in ClearingJobs, NEW fills, FillsOf(j.intents, fills), NEW base,
         \A f \in fills : base[f.index] = f.executedBuy, NEW token \in {"quote", "base"}
  PROVE  ownSum(j.intents, fills, base, token) = BoughtIn(j.intents, fills, Other(token))
<1> DEFINE S == {f \in fills : j.intents[f.index].sellToken = token}
           B == {f \in fills : j.intents[f.index].buyToken = Other(token)}
<1>1. S = B
  <2>1. \A f \in fills : j.intents[f.index].sellToken = token <=> j.intents[f.index].buyToken = Other(token)
    BY TokensOfJob DEF FillsOf
  <2>2. QED  BY <2>1
<1>2. [f \in S |-> base[f.index]] = [f \in B |-> f.executedBuy]
  <2>1. \A f \in S : base[f.index] = f.executedBuy
    OBVIOUS
  <2> HIDE DEF S, B
  <2>2. QED  BY <1>1, <2>1
<1>3. QED  BY <1>2 DEF BoughtIn, ownSum

\* One side's plan fits.
LEMMA SidePlanFits ==
  ASSUME NEW j \in ClearingJobs, NEW token \in {"quote", "base"}, NEW o, SidePlan(j, token, o)
  PROVE  PlanFits(j, o)
<1>1. PICK other : other = Other(token)
  OBVIOUS
<1>2. other \in {"quote", "base"} /\ other # token /\ Other(other) = token
  BY <1>1 DEF Other
<1>3. FillsOf(j.intents, o.fills)
  BY DEF SidePlan
<1>4. \A f \in o.fills : j.intents[f.index].sellToken = token /\ j.intents[f.index].buyToken = other
  <2>1. \A f \in o.fills : j.intents[f.index].sellToken = token /\ f.index \in DOMAIN j.intents
    BY <1>3 DEF SidePlan, FillsOf
  <2>2. QED  BY <1>1, <2>1, TokensOfJob
<1>5. PICK s \in Int, b \in Int : s = SoldIn(j.intents, o.fills, token) /\ b = BoughtIn(j.intents, o.fills, other)
  BY <1>3, SumsInt
<1>6. SoldIn(j.intents, o.fills, other) = 0 /\ BoughtIn(j.intents, o.fills, token) = 0
  BY <1>2, <1>4, NobodySells, NobodyBuys
<1>7. PICK call : call = [tokenIn |-> token, tokenOut |-> other, amountIn |-> s, minOut |-> b]
  OBVIOUS
<1>8. o.venueCalls = <<call>>
  BY <1>1, <1>5, <1>7 DEF SidePlan
<1>9. call.tokenIn = token /\ call.tokenOut = other /\ call.amountIn = s /\ call.minOut = b
  BY <1>7
<1>10. b = venueQuote(j.venue, token, s)
  BY <1>1, <1>5 DEF SidePlan
<1>11. ASSUME NEW t \in {"quote", "base"}
       PROVE  SoldIn(j.intents, o.fills, t) + callsBring(o.venueCalls, t) - BoughtIn(j.intents, o.fills, t) >= 0
  <2>1. callsBring(o.venueCalls, t) = (IF other = t THEN b ELSE 0) - (IF token = t THEN s ELSE 0)
    BY <1>8, <1>9, OneCall DEF brings
  <2>2. CASE t = token
    <3>1. callsBring(o.venueCalls, t) = -s
      BY <1>2, <2>1, <2>2
    <3>2. QED  BY <1>5, <1>6, <2>2, <3>1
  <2>3. CASE t = other
    <3>1. callsBring(o.venueCalls, t) = b
      BY <1>2, <2>1, <2>3
    <3>2. QED  BY <1>5, <1>6, <2>3, <3>1
  <2>4. QED  BY <1>2, <2>2, <2>3
<1>12. ASSUME NEW f \in o.fills
       PROVE  /\ f.executedSell <= j.intents[f.index].sellAmount
              /\ f.executedSell = j.intents[f.index].sellAmount
              /\ f.executedBuy >= o.baselines[f.index]
  <2>1. f.executedSell = j.intents[f.index].sellAmount /\ o.baselines[f.index] = f.executedBuy
    BY DEF SidePlan
  <2>2. f.executedSell \in Int /\ f.executedBuy \in Int
    BY <1>3 DEF FillsOf
  <2>3. QED  BY <2>1, <2>2
<1>13. PlanHolds(j.intents, j.ref, o)
  BY <1>3, <1>11, <1>12 DEF SidePlan, PlanHolds
<1>14. ASSUME NEW t \in {j.intents[f.index].sellToken : f \in o.fills}
       PROVE  SumFunction([f \in {f \in o.fills : j.intents[f.index].sellToken = t} |-> o.baselines[f.index]])
              >= venueQuote(j.venue, t, SoldIn(j.intents, o.fills, t))
  <2>1. t = token
    BY <1>4
  <2>2. \A f \in o.fills : o.baselines[f.index] = f.executedBuy
    BY DEF SidePlan
  <2>3. ownSum(j.intents, o.fills, o.baselines, t) = b
    <3>1. ownSum(j.intents, o.fills, o.baselines, t) = BoughtIn(j.intents, o.fills, Other(t))
      BY <1>3, <2>1, <2>2, OwnBaselines
    <3>2. QED  BY <1>1, <1>5, <2>1, <3>1
  <2>4. b >= b
    BY <1>5
  <2>5. QED  BY <1>5, <1>10, <2>1, <2>3, <2>4 DEF ownSum
<1>15. \A k \in DOMAIN o.venueCalls :
         o.venueCalls[k].minOut <= venueQuote(j.venue, o.venueCalls[k].tokenIn, o.venueCalls[k].amountIn)
  <2>1. DOMAIN o.venueCalls = {1} /\ o.venueCalls[1] = call
    BY <1>8
  <2>2. b <= b
    BY <1>5
  <2>3. QED  BY <1>9, <1>10, <2>1, <2>2
<1>16. QED  BY <1>13, <1>14, <1>15 DEF PlanFits

LEMMA TwoCalls ==
  ASSUME NEW c, c.minOut \in Int, c.amountIn \in Int, NEW d, d.minOut \in Int, d.amountIn \in Int, NEW token
  PROVE  callsBring(<<c, d>>, token) = brings(c, token) + brings(d, token)
<1> DEFINE cs == <<c, d>>
           f == [v \in DOMAIN cs |-> cs[v].minOut]
           g == [v \in DOMAIN cs |-> cs[v].amountIn]
           S == {v \in DOMAIN cs : cs[v].tokenOut = token}
           T == {v \in DOMAIN cs : cs[v].tokenIn = token}
<1>1. DOMAIN cs = {1, 2} /\ cs[1] = c /\ cs[2] = d
  OBVIOUS
<1>2. callsBring(cs, token) = SumFunctionOnSet(f, S) - SumFunctionOnSet(g, T)
  BY DEF callsBring
<1>3. f[1] = c.minOut /\ f[2] = d.minOut /\ g[1] = c.amountIn /\ g[2] = d.amountIn
  BY <1>1
<1>4. S \subseteq {1, 2} /\ T \subseteq {1, 2} /\ (1 \in S <=> c.tokenOut = token) /\ (2 \in S <=> d.tokenOut = token)
      /\ (1 \in T <=> c.tokenIn = token) /\ (2 \in T <=> d.tokenIn = token)
  BY <1>1
<1> HIDE DEF f, g, S, T, cs
<1>5. ASSUME NEW h, h[1] \in Int, h[2] \in Int, NEW K, K \subseteq {1, 2}
      PROVE  SumFunctionOnSet(h, K) = (IF 1 \in K THEN h[1] ELSE 0) + (IF 2 \in K THEN h[2] ELSE 0)
  <2> DEFINE A == K \ {2}
  <2>2. SumFunctionOnSet(h, A) = IF 1 \in K THEN h[1] ELSE 0
    <3>1. CASE 1 \in K
      <4>1. A = {1}
        <5>1. 1 \in A
          BY <3>1
        <5>2. \A x \in A : x = 1
          BY <1>5
        <5> HIDE DEF A
        <5>3. QED  BY <5>1, <5>2
      <4> HIDE DEF A
      <4>2. SumFunctionOnSet(h, {1}) = h[1]
        <5>1. SumFunctionOnSet(h, {1}) = IF TRUE THEN h[1] ELSE 0
          BY <1>5, SumOne
        <5>2. QED  BY <5>1
      <4>3. QED  BY <3>1, <4>1, <4>2
    <3>2. CASE 1 \notin K
      <4>1. A = {}
        BY <1>5, <3>2
      <4> HIDE DEF A
      <4>2. QED  BY <3>2, <4>1, SumEmpty
    <3>3. QED  BY <3>1, <3>2
  <2>3. CASE 2 \in K
    <3>1. IsFiniteSet(K) /\ \A x \in K : h[x] \in Int
      <4>1. IsFiniteSet({1, 2})
        <5>1. 1 \in Int /\ 2 \in Int /\ 1..2 = {1, 2}
          OBVIOUS
        <5>2. IsFiniteSet(1..2)
          BY <5>1, FS_Interval
        <5>3. QED  BY <5>1, <5>2
      <4>2. QED  BY <1>5, <4>1, FS_Subset
    <3>2. SumFunctionOnSet(h, K) = h[2] + SumFunctionOnSet(h, A)
      BY <2>3, <3>1, SumRemove
    <3> HIDE DEF A
    <3>3. QED  BY <1>5, <2>2, <2>3, <3>2
  <2>4. CASE 2 \notin K
    <3>1. A = K
      BY <2>4
    <3> HIDE DEF A
    <3>2. QED  BY <1>5, <2>2, <2>4, <3>1
  <2>5. QED  BY <2>3, <2>4
<1>6. /\ SumFunctionOnSet(f, S) = (IF 1 \in S THEN f[1] ELSE 0) + (IF 2 \in S THEN f[2] ELSE 0)
      /\ SumFunctionOnSet(g, T) = (IF 1 \in T THEN g[1] ELSE 0) + (IF 2 \in T THEN g[2] ELSE 0)
  BY <1>3, <1>4, <1>5
<1>7. PICK a, b, x, y :
        /\ a = (IF c.tokenOut = token THEN c.minOut ELSE 0) /\ b = (IF d.tokenOut = token THEN d.minOut ELSE 0)
        /\ x = (IF c.tokenIn = token THEN c.amountIn ELSE 0) /\ y = (IF d.tokenIn = token THEN d.amountIn ELSE 0)
  OBVIOUS
<1>12. a \in Int /\ b \in Int /\ x \in Int /\ y \in Int
  BY <1>7
<1>8. SumFunctionOnSet(f, S) = a + b /\ SumFunctionOnSet(g, T) = x + y
  BY <1>3, <1>4, <1>6, <1>7
<1>9. brings(c, token) = a - x /\ brings(d, token) = b - y
  BY <1>7 DEF brings
<1>10. (a + b) - (x + y) = (a - x) + (b - y)
  BY <1>12
<1>11. QED  BY <1>2, <1>8, <1>9, <1>10 DEF cs

\* What sells one token and what sells the other, put together.
LEMMA UnitedFills ==
  ASSUME NEW j \in ClearingJobs, NEW A, FillsOf(j.intents, A), NEW B, FillsOf(j.intents, B),
         \A f \in A : j.intents[f.index].sellToken = "quote", \A f \in B : j.intents[f.index].sellToken = "base"
  PROVE  /\ FillsOf(j.intents, A \cup B)
         /\ Indices(A) \cap Indices(B) = {}
         /\ SoldIn(j.intents, A \cup B, "quote") = SoldIn(j.intents, A, "quote")
         /\ SoldIn(j.intents, A \cup B, "base") = SoldIn(j.intents, B, "base")
         /\ BoughtIn(j.intents, A \cup B, "base") = BoughtIn(j.intents, A, "base")
         /\ BoughtIn(j.intents, A \cup B, "quote") = BoughtIn(j.intents, B, "quote")
<1> DEFINE U == A \cup B
<1>1. "quote" # "base"
  OBVIOUS
<1>2. \A f \in A, g \in B : f.index # g.index
  BY <1>1
<1>3. FillsOf(j.intents, U)
  <2>1. IsFiniteSet(U)
    BY FS_Union DEF FillsOf
  <2>2. \A f \in U : f.index \in DOMAIN j.intents /\ f.executedSell \in Int /\ f.executedBuy \in Int
    BY DEF FillsOf
  <2>3. \A f, g \in U : f.index = g.index => f = g
    BY <1>2 DEF FillsOf
  <2> HIDE DEF U
  <2>4. QED  BY <2>1, <2>2, <2>3 DEF FillsOf
<1>4. Indices(A) \cap Indices(B) = {}
  BY <1>2 DEF Indices
<1>5. \A f \in A : j.intents[f.index].buyToken = "base"
  BY TokensOfJob DEF FillsOf, Other
<1>6. \A f \in B : j.intents[f.index].buyToken = "quote"
  BY TokensOfJob DEF FillsOf, Other
<1>7. {f \in U : j.intents[f.index].sellToken = "quote"} = {f \in A : j.intents[f.index].sellToken = "quote"}
  BY <1>1
<1>8. {f \in U : j.intents[f.index].sellToken = "base"} = {f \in B : j.intents[f.index].sellToken = "base"}
  BY <1>1
<1>9. {f \in U : j.intents[f.index].buyToken = "base"} = {f \in A : j.intents[f.index].buyToken = "base"}
  BY <1>1, <1>6
<1>10. {f \in U : j.intents[f.index].buyToken = "quote"} = {f \in B : j.intents[f.index].buyToken = "quote"}
  BY <1>1, <1>5
<1>11. SoldIn(j.intents, U, "quote") = SoldIn(j.intents, A, "quote") /\ SoldIn(j.intents, U, "base") = SoldIn(j.intents, B, "base")
  BY <1>7, <1>8 DEF SoldIn
<1>12. BoughtIn(j.intents, U, "base") = BoughtIn(j.intents, A, "base") /\ BoughtIn(j.intents, U, "quote") = BoughtIn(j.intents, B, "quote")
  BY <1>9, <1>10 DEF BoughtIn
<1>13. QED  BY <1>3, <1>4, <1>11, <1>12

LEMMA ConcatOne ==
  ASSUME NEW c, NEW d
  PROVE  <<c>> \o <<d>> = <<c, d>>
<1>1. <<c>> \in Seq({c, d}) /\ <<d>> \in Seq({c, d}) /\ <<c, d>> \in Seq({c, d})
  OBVIOUS
<1>2. /\ Len(<<c>> \o <<d>>) = 2 /\ (<<c>> \o <<d>>)[1] = c /\ (<<c>> \o <<d>>)[2] = d
      /\ <<c>> \o <<d>> \in Seq({c, d})
  BY <1>1
<1>3. \A k \in 1..2 : k = 1 \/ k = 2
  OBVIOUS
<1>4. PICK e, w : e = <<c>> \o <<d>> /\ w = <<c, d>>
  OBVIOUS
<1>5. e \in Seq({c, d}) /\ w \in Seq({c, d}) /\ Len(e) = 2 /\ Len(w) = 2
  BY <1>1, <1>2, <1>4
<1>6. e[1] = w[1] /\ e[2] = w[2]
  BY <1>2, <1>4
<1>7. \A k \in 1..Len(e) : e[k] = w[k]
  BY <1>3, <1>5, <1>6
<1>8. e = w
  BY <1>5, <1>7, SeqEqual
<1>9. QED  BY <1>4, <1>8

\* Two sides at one price fit.
LEMMA UnitedFit ==
  ASSUME NEW j \in ClearingJobs, NEW a, SidePlan(j, "quote", a), NEW b, SidePlan(j, "base", b), NEW o,
         o.fills = a.fills \cup b.fills, o.basePrice = a.basePrice, o.baselines = joined(a.baselines, b.baselines),
         o.venueCalls = a.venueCalls \o b.venueCalls,
         \A f \in a.fills \cup b.fills : uniformAt(j.intents, f, j.ref.quotePrice, a.basePrice)
  PROVE  PlanFits(j, o)
<1>1. /\ FillsOf(j.intents, a.fills) /\ \A f \in a.fills : j.intents[f.index].sellToken = "quote"
      /\ FillsOf(j.intents, b.fills) /\ \A f \in b.fills : j.intents[f.index].sellToken = "base"
  BY DEF SidePlan
<1>2. Other("quote") = "base" /\ Other("base") = "quote" /\ "quote" # "base"
  BY DEF Other
<1>3. PICK p \in Int, q \in Int, x \in Int, y \in Int :
        /\ p = SoldIn(j.intents, a.fills, "quote") /\ q = BoughtIn(j.intents, a.fills, "base")
        /\ x = SoldIn(j.intents, b.fills, "base") /\ y = BoughtIn(j.intents, b.fills, "quote")
  BY <1>1, SumsInt
<1>4. /\ SoldIn(j.intents, o.fills, "quote") = p /\ BoughtIn(j.intents, o.fills, "base") = q
      /\ SoldIn(j.intents, o.fills, "base") = x /\ BoughtIn(j.intents, o.fills, "quote") = y
      /\ FillsOf(j.intents, o.fills) /\ Indices(a.fills) \cap Indices(b.fills) = {}
  <2>1. PICK U : U = a.fills \cup b.fills
    OBVIOUS
  <2>2. /\ FillsOf(j.intents, a.fills \cup b.fills) /\ Indices(a.fills) \cap Indices(b.fills) = {}
        /\ SoldIn(j.intents, a.fills \cup b.fills, "quote") = SoldIn(j.intents, a.fills, "quote")
        /\ SoldIn(j.intents, a.fills \cup b.fills, "base") = SoldIn(j.intents, b.fills, "base")
        /\ BoughtIn(j.intents, a.fills \cup b.fills, "base") = BoughtIn(j.intents, a.fills, "base")
        /\ BoughtIn(j.intents, a.fills \cup b.fills, "quote") = BoughtIn(j.intents, b.fills, "quote")
    BY <1>1, UnitedFills
  <2>3. QED  BY <1>3, <2>1, <2>2
<1>5. PICK c, d : /\ c = [tokenIn |-> "quote", tokenOut |-> "base", amountIn |-> p, minOut |-> q]
                  /\ d = [tokenIn |-> "base", tokenOut |-> "quote", amountIn |-> x, minOut |-> y]
  OBVIOUS
<1>6. a.venueCalls = <<c>> /\ b.venueCalls = <<d>>
  BY <1>2, <1>3, <1>5 DEF SidePlan
<1>7. o.venueCalls = <<c, d>>
  <2>1. <<c>> \o <<d>> = <<c, d>>
    BY ConcatOne
  <2>2. QED  BY <1>6, <2>1
<1>8. /\ c.tokenIn = "quote" /\ c.tokenOut = "base" /\ c.amountIn = p /\ c.minOut = q
      /\ d.tokenIn = "base" /\ d.tokenOut = "quote" /\ d.amountIn = x /\ d.minOut = y
  BY <1>5
<1>9. q = venueQuote(j.venue, "quote", p) /\ y = venueQuote(j.venue, "base", x)
  BY <1>2, <1>3 DEF SidePlan
<1>10. ASSUME NEW t \in {"quote", "base"}
       PROVE  SoldIn(j.intents, o.fills, t) + callsBring(o.venueCalls, t) - BoughtIn(j.intents, o.fills, t) >= 0
  <2>1. callsBring(o.venueCalls, t) = brings(c, t) + brings(d, t)
    BY <1>7, <1>8, TwoCalls
  <2>2. CASE t = "quote"
    <3>1. brings(c, t) = -p /\ brings(d, t) = y
      BY <1>2, <1>8, <2>2 DEF brings
    <3>2. QED  BY <1>4, <2>1, <2>2, <3>1
  <2>3. CASE t = "base"
    <3>1. brings(c, t) = q /\ brings(d, t) = -x
      BY <1>2, <1>8, <2>3 DEF brings
    <3>2. QED  BY <1>4, <2>1, <2>3, <3>1
  <2>4. QED  BY <2>2, <2>3
<1>11. DOMAIN a.baselines = Indices(a.fills) /\ DOMAIN b.baselines = Indices(b.fills)
  BY DEF SidePlan
<1>12. \A f \in a.fills : f.index \in DOMAIN a.baselines
  BY <1>11 DEF Indices
<1>13. \A f \in b.fills : f.index \in DOMAIN b.baselines
  BY <1>11 DEF Indices
<1>14. /\ \A n \in DOMAIN a.baselines : o.baselines[n] = a.baselines[n]
       /\ \A n \in DOMAIN b.baselines : o.baselines[n] = b.baselines[n]
  <2>1. DOMAIN a.baselines \cap DOMAIN b.baselines = {}
    BY <1>4, <1>11
  <2>2. PICK f, g : f = a.baselines /\ g = b.baselines
    OBVIOUS
  <2>3. (\A n \in DOMAIN f : joined(f, g)[n] = f[n]) /\ \A n \in DOMAIN g : joined(f, g)[n] = g[n]
    <3>1. DOMAIN f \cap DOMAIN g = {}
      BY <2>1, <2>2
    <3>2. QED  BY <3>1 DEF joined
  <2>4. QED  BY <2>2, <2>3
<1>15. \A f \in a.fills : o.baselines[f.index] = f.executedBuy
  BY <1>12, <1>14 DEF SidePlan
<1>16. \A f \in b.fills : o.baselines[f.index] = f.executedBuy
  BY <1>13, <1>14 DEF SidePlan
<1>17. ASSUME NEW f \in o.fills
       PROVE  /\ f.executedSell = j.intents[f.index].sellAmount
              /\ limitRespected(f.executedBuy, j.intents[f.index].sellAmount, j.intents[f.index].minBuyAmount, f.executedSell)
              /\ uniformAt(j.intents, f, j.ref.quotePrice, o.basePrice)
              /\ f.executedSell \in Int /\ f.executedBuy \in Int
              /\ o.baselines[f.index] = f.executedBuy
  <2>1. uniformAt(j.intents, f, j.ref.quotePrice, o.basePrice)
    OBVIOUS
  <2>2. f.executedSell \in Int /\ f.executedBuy \in Int
    BY <1>4 DEF FillsOf
  <2>3. /\ f.executedSell = j.intents[f.index].sellAmount
        /\ limitRespected(f.executedBuy, j.intents[f.index].sellAmount, j.intents[f.index].minBuyAmount, f.executedSell)
    BY DEF SidePlan
  <2>4. o.baselines[f.index] = f.executedBuy
    BY <1>15, <1>16
  <2>5. QED  BY <2>1, <2>2, <2>3, <2>4
<1>18. ASSUME NEW f \in o.fills
       PROVE  f.executedSell <= j.intents[f.index].sellAmount /\ f.executedBuy >= o.baselines[f.index]
  BY <1>17
<1>19. withinBand(o.basePrice, j.ref.basePrice, j.ref.maxDeviationBps)
  BY DEF SidePlan
<1>20. PlanHolds(j.intents, j.ref, o)
  BY <1>4, <1>10, <1>17, <1>18, <1>19 DEF PlanHolds
<1>21. ASSUME NEW t \in {j.intents[f.index].sellToken : f \in o.fills}
       PROVE  SumFunction([f \in {f \in o.fills : j.intents[f.index].sellToken = t} |-> o.baselines[f.index]])
              >= venueQuote(j.venue, t, SoldIn(j.intents, o.fills, t))
  <2>1. t \in {"quote", "base"}
    BY <1>1
  <2>2. ownSum(j.intents, o.fills, o.baselines, t) = BoughtIn(j.intents, o.fills, Other(t))
    BY <1>4, <1>17, <2>1, OwnBaselines
  <2>3. BoughtIn(j.intents, o.fills, Other(t)) = venueQuote(j.venue, t, SoldIn(j.intents, o.fills, t))
    BY <1>2, <1>4, <1>9, <2>1
  <2>4. BoughtIn(j.intents, o.fills, Other(t)) \in Int
    BY <1>2, <1>4, <2>1
  <2>5. QED  BY <2>2, <2>3, <2>4 DEF ownSum
<1>22. \A k \in DOMAIN o.venueCalls :
         o.venueCalls[k].minOut <= venueQuote(j.venue, o.venueCalls[k].tokenIn, o.venueCalls[k].amountIn)
  <2>1. DOMAIN o.venueCalls = {1, 2} /\ o.venueCalls[1] = c /\ o.venueCalls[2] = d
    BY <1>7
  <2>2. q <= q /\ y <= y
    BY <1>3
  <2>3. QED  BY <1>8, <1>9, <2>1, <2>2
<1>23. QED  BY <1>20, <1>21, <1>22 DEF PlanFits

\* Both directions at one price, or the larger one.
LEMMA BothFit ==
  ASSUME NEW j \in ClearingJobs, NEW a, SidePlan(j, "quote", a), NEW b, SidePlan(j, "base", b),
         NEW o, o = bothDirections(j.intents, j.ref, a, b)
  PROVE  PlanFits(j, o)
<1>1. CASE \E f \in a.fills \cup b.fills : ~uniformAt(j.intents, f, j.ref.quotePrice, a.basePrice)
  <2>1. o = a \/ o = b
    BY <1>1 DEF bothDirections
  <2>2. QED  BY <2>1, SidePlanFits
<1>2. CASE ~\E f \in a.fills \cup b.fills : ~uniformAt(j.intents, f, j.ref.quotePrice, a.basePrice)
  <2>1. PICK calls, together : calls = a.venueCalls \o b.venueCalls /\ together = joined(a.baselines, b.baselines)
    OBVIOUS
  <2>2. o = [mode |-> "routed", fills |-> a.fills \cup b.fills, basePrice |-> a.basePrice,
             baselines |-> together, venueCalls |-> calls]
    BY <1>2, <2>1 DEF bothDirections
  <2>3. o.fills = a.fills \cup b.fills /\ o.basePrice = a.basePrice /\ o.baselines = together /\ o.venueCalls = calls
    BY <2>2
  <2>4. QED  BY <1>2, <2>1, <2>3, UnitedFit
<1>3. QED  BY <1>1, <1>2

\* What one call of tryRouted ends in.
LEMMA TryRoutedEnds ==
  ASSUME NEW j \in ClearingJobs, NEW entries, entries \subseteq DOMAIN j.intents,
         NEW o, o = tryRouted(j.intents, entries, j.ref, j.venue)
  PROVE  \/ o \in {Skipped, Thrown}
         \/ \E token \in {"quote", "base"} :
              SidePlan(j, token, o) /\ \E n \in entries : sellsQuote(j.intents[n]) = (token = "quote")
<1> DEFINE on(buy) == {n \in entries : sellsQuote(j.intents[n]) = buy}
           usd(S, price) == SumFunction([n \in S |-> (j.intents[n].sellAmount * price) \div WAD])
           buying == usd(on(TRUE), j.ref.quotePrice) >= usd(on(FALSE), j.ref.basePrice)
           token == IF buying THEN "quote" ELSE "base"
<1>1. o = routeSide(j.intents, j.ref, j.venue, on(buying), token)
  BY DEF tryRouted
<1>2. buying \in BOOLEAN
  OBVIOUS
<1> HIDE DEF buying
<1>3. token \in {"quote", "base"} /\ (token = "quote") = buying
  BY <1>2
<1> HIDE DEF token
<1>4. PICK all : all = on(buying)
  OBVIOUS
<1>5. all \subseteq DOMAIN j.intents /\ all \subseteq entries /\ \A n \in all : sellsQuote(j.intents[n]) = (token = "quote")
  BY <1>3, <1>4
<1>6. o = routeSide(j.intents, j.ref, j.venue, all, token)
  BY <1>1, <1>4
<1>7. o \in {Skipped, Thrown} \/ RoutedOn(j, token, all, o)
  BY <1>5, <1>6, RouteSideEnds
<1>8. CASE RoutedOn(j, token, all, o) /\ o # Skipped
  <2>1. SidePlan(j, token, o)
    BY <1>3, <1>5, <1>8, RoutedPlanIs
  <2>2. PICK n \in all : TRUE
    BY <1>8 DEF RoutedOn
  <2>3. QED  BY <1>3, <1>5, <2>1, <2>2
<1>9. QED  BY <1>7, <1>8

\* A plan of one side, or none, fits.
LEMMA TryRoutedFits ==
  ASSUME NEW j \in ClearingJobs, NEW entries, entries \subseteq DOMAIN j.intents,
         NEW o, o = tryRouted(j.intents, entries, j.ref, j.venue)
  PROVE  o \in {Skipped, Thrown} \/ PlanFits(j, o)
BY TryRoutedEnds, SidePlanFits

\* Profile b's side over the intents that sell one token.
LEMMA RoutedAlone ==
  ASSUME NEW j \in ClearingJobs, NEW buy \in BOOLEAN,
         NEW o, o = tryRouted(j.intents, {n \in DOMAIN j.intents : sellsQuote(j.intents[n]) = buy}, j.ref, j.venue)
  PROVE  o \in {Skipped, Thrown} \/ SidePlan(j, IF buy THEN "quote" ELSE "base", o)
<1> DEFINE entries == {n \in DOMAIN j.intents : sellsQuote(j.intents[n]) = buy}
<1>1. entries \subseteq DOMAIN j.intents /\ \A n \in entries : sellsQuote(j.intents[n]) = buy
  OBVIOUS
<1> HIDE DEF entries
<1>2. \/ o \in {Skipped, Thrown}
      \/ \E token \in {"quote", "base"} :
           SidePlan(j, token, o) /\ \E n \in entries : sellsQuote(j.intents[n]) = (token = "quote")
  BY <1>1, TryRoutedEnds DEF entries
<1>3. ASSUME NEW token \in {"quote", "base"}, SidePlan(j, token, o),
             NEW n \in entries, sellsQuote(j.intents[n]) = (token = "quote")
      PROVE  SidePlan(j, IF buy THEN "quote" ELSE "base", o)
  <2>1. (token = "quote") = buy
    BY <1>1, <1>3
  <2>2. token = IF buy THEN "quote" ELSE "base"
    BY <2>1
  <2>3. QED  BY <1>3, <2>2
<1>4. QED  BY <1>2, <1>3

LEMMA ModesOf ==
  /\ Skipped.mode = "skipped" /\ Thrown.mode = "thrown"
  /\ \A j, token, o : SidePlan(j, token, o) => o.mode = "routed"
BY DEF Skipped, Thrown, SidePlan

\* Profile b fits.
LEMMA RouteEverythingFits ==
  ASSUME NEW j \in ClearingJobs, NEW o, o = routeEverything(j.intents, j.ref, j.venue)
  PROVE  o \in {Skipped, Thrown} \/ PlanFits(j, o)
<1>1. PICK a, b :
        /\ a = tryRouted(j.intents, {n \in DOMAIN j.intents : sellsQuote(j.intents[n]) = TRUE}, j.ref, j.venue)
        /\ b = tryRouted(j.intents, {n \in DOMAIN j.intents : sellsQuote(j.intents[n]) = FALSE}, j.ref, j.venue)
  OBVIOUS
<1>2. o = routedSides(j.intents, j.ref, a, b)
  BY <1>1 DEF routeEverything
<1>3. a \in {Skipped, Thrown} \/ SidePlan(j, "quote", a)
  BY <1>1, RoutedAlone
<1>4. b \in {Skipped, Thrown} \/ SidePlan(j, "base", b)
  BY <1>1, RoutedAlone
<1>5. CASE "thrown" \in {a.mode, b.mode}
  BY <1>2, <1>5 DEF routedSides
<1>6. CASE "thrown" \notin {a.mode, b.mode}
  <2>1. a = Skipped \/ SidePlan(j, "quote", a)
    BY <1>3, <1>6, ModesOf
  <2>2. b = Skipped \/ SidePlan(j, "base", b)
    BY <1>4, <1>6, ModesOf
  <2>3. CASE b.mode = "skipped"
    <3>1. o = a
      BY <1>2, <1>6, <2>3 DEF routedSides
    <3>2. QED  BY <2>1, <3>1, SidePlanFits
  <2>4. CASE b.mode # "skipped"
    <3>1. SidePlan(j, "base", b)
      BY <2>2, <2>4, ModesOf
    <3>2. CASE a.mode = "skipped"
      <4>1. o = b
        BY <1>2, <1>6, <2>4, <3>2 DEF routedSides
      <4>2. QED  BY <3>1, <4>1, SidePlanFits
    <3>3. CASE a.mode # "skipped"
      <4>1. SidePlan(j, "quote", a)
        BY <2>1, <3>3, ModesOf
      <4>2. o = bothDirections(j.intents, j.ref, a, b)
        BY <1>2, <1>6, <2>4, <3>3 DEF routedSides
      <4>3. QED  BY <3>1, <4>1, <4>2, BothFit
    <3>4. QED  BY <3>2, <3>3
  <2>5. QED  BY <2>3, <2>4
<1>7. QED  BY <1>5, <1>6

\* Whatever solve ends in, it is no plan or a plan that fits.
LEMMA SolvedFits ==
  ASSUME NEW j \in ClearingJobs, NEW o, o = solved(j)
  PROVE  o \in {Skipped, Thrown} \/ PlanFits(j, o)
<1>1. CASE j.profile = "b"
  <2>1. o = routeEverything(j.intents, j.ref, j.venue)
    BY <1>1 DEF solved
  <2>2. QED  BY <2>1, RouteEverythingFits
<1>2. CASE j.profile # "b"
  <2>1. PICK netting : netting = tryNetted(j.intents, j.ref, j.venue)
    OBVIOUS
  <2>2. o = nettedOrRouted(j, netting)
    BY <1>2, <2>1 DEF solved
  <2>3. CASE netting.mode = "netted"
    <3>1. o = netting /\ netting # Skipped
      BY <2>2, <2>3, ModesOf DEF nettedOrRouted
    <3>2. QED  BY <2>1, <3>1, TryNettedFits
  <2>4. CASE netting.mode # "netted"
    <3>1. o = tryRouted(j.intents, DOMAIN j.intents, j.ref, j.venue)
      BY <2>2, <2>4 DEF nettedOrRouted
    <3>2. QED  BY <3>1, TryRoutedFits
  <2>5. QED  BY <2>3, <2>4
<1>3. QED  BY <1>1, <1>2

LEMMA PlansFit == JobDone => PlansVerify
<1> SUFFICES ASSUME JobDone, NEW d \in {clearingDone} \ {<<>>}
             PROVE  d[2].mode \notin {"skipped", "thrown"} =>
                      /\ Verifies(assemble(d[1], d[2]),
                                  [token \in {"quote", "base"} |-> IF token = "quote" THEN d[1].ref.quotePrice ELSE d[1].ref.basePrice],
                                  d[1].ref.maxDeviationBps, SolverFeeBps)
                      /\ \A token \in {d[1].intents[f.index].sellToken : f \in d[2].fills} :
                           SumFunction([f \in {f \in d[2].fills : d[1].intents[f.index].sellToken = token} |-> d[2].baselines[f.index]])
                             >= venueQuote(d[1].venue, token, SoldIn(d[1].intents, d[2].fills, token))
                      /\ \A k \in DOMAIN d[2].venueCalls :
                           d[2].venueCalls[k].minOut
                             <= venueQuote(d[1].venue, d[2].venueCalls[k].tokenIn, d[2].venueCalls[k].amountIn)
  BY DEF PlansVerify
<1>1. PICK j \in ClearingJobs : d = <<j, solved(j)>>
  BY DEF JobDone
<1>2. PICK o : o = solved(j)
  OBVIOUS
<1>3. d[1] = j /\ d[2] = o
  BY <1>1, <1>2
<1>4. SUFFICES ASSUME o.mode \notin {"skipped", "thrown"}
               PROVE  /\ Verifies(assemble(j, o),
                                  [token \in {"quote", "base"} |-> IF token = "quote" THEN j.ref.quotePrice ELSE j.ref.basePrice],
                                  j.ref.maxDeviationBps, SolverFeeBps)
                      /\ \A token \in {j.intents[f.index].sellToken : f \in o.fills} :
                           SumFunction([f \in {f \in o.fills : j.intents[f.index].sellToken = token} |-> o.baselines[f.index]])
                             >= venueQuote(j.venue, token, SoldIn(j.intents, o.fills, token))
                      /\ \A k \in DOMAIN o.venueCalls :
                           o.venueCalls[k].minOut <= venueQuote(j.venue, o.venueCalls[k].tokenIn, o.venueCalls[k].amountIn)
  BY <1>3
<1>5. PlanFits(j, o)
  BY <1>2, <1>4, SolvedFits, ModesOf
<1>6. PlanHolds(j.intents, j.ref, o)
  BY <1>5 DEF PlanFits
<1>7. QED  BY <1>5, <1>6, PlanVerifies DEF PlanFits

\* Whatever the job, the price clear chooses is the best the band allows, the
\* long side is rationed without loss, and what solve hands over the verifier
\* takes, with baselines at the venue's quote and venue calls the venue meets
\* (bandEdges, clear, ration, allocate, tryNetted, tryRouted, routeEverything).
THEOREM ClearingAlwaysHolds == ClearingSpec => []ClearingHolds
<1>1. JobDone => ClearingHolds
  BY BestKept, PlansFit DEF ClearingHolds
<1>2. QED  BY <1>1, JobKept, PTL

----------------------------------------------------------------------------
(* The auction's planner: the book as the price rises.                     *)

\* What a book holds.
BookHolds(book) ==
  /\ IsFiniteSet(book)
  /\ \A e \in book : e.buy \in BOOLEAN /\ e.kind \in {"MOO", "LOO", "ROO"}
                     /\ {e.id, e.limitPrice, e.maxDev, e.sellAmount} \subseteq Nat
  /\ \A d, e \in book : d.id = e.id => d = e

LEMMA JobHolds ==
  ASSUME NEW j \in CrossJobs
  PROVE  /\ BookHolds(j.book) /\ j.ref \in Nat /\ j.collarBps \in Nat /\ j.preferred \in Nat
         /\ j.preferred > 0 \/ collar(j.ref, j.collarBps).low > 0
BY CrossAssumption DEF BookHolds

LEMMA LimitInt ==
  ASSUME NEW book, BookHolds(book), NEW e \in book, NEW ref \in Nat
  PROVE  effectiveLimit(e, ref) \in Int
<1>1. BPS \in Nat \ {0} /\ e.limitPrice \in Nat /\ e.maxDev \in Nat /\ e.buy \in BOOLEAN /\ e.kind \in {"MOO", "LOO", "ROO"}
  BY ScaleAssumption DEF BookHolds
<1>2. PICK d \in Nat : d = e.maxDev
  BY <1>1
<1>3. ref * (BPS + d) \in Int /\ ref * (BPS - d) \in Int
  BY <1>1, Z3
<1>4. (ref * (BPS + d)) \div BPS \in Int /\ (ref * (BPS - d)) \div BPS \in Int
  BY <1>1, <1>3, QuotientInt
<1>5. QED  BY <1>1, <1>2, <1>4 DEF effectiveLimit

\* A higher price keeps every seller and no new buyer.
LEMMA TakersMove ==
  ASSUME NEW book, BookHolds(book), NEW ref \in Nat, NEW rooExcluded, NEW p \in Int, NEW q \in Int, p <= q
  PROVE  /\ Takers(book, TRUE, q, ref, rooExcluded) \subseteq Takers(book, TRUE, p, ref, rooExcluded)
         /\ Takers(book, FALSE, p, ref, rooExcluded) \subseteq Takers(book, FALSE, q, ref, rooExcluded)
<1>1. ASSUME NEW e \in book
      PROVE  /\ e.buy = TRUE /\ acceptsPrice(e, q, ref) => acceptsPrice(e, p, ref)
             /\ e.buy = FALSE /\ acceptsPrice(e, p, ref) => acceptsPrice(e, q, ref)
  <2>1. effectiveLimit(e, ref) \in Int
    BY LimitInt
  <2>2. QED  BY <2>1 DEF acceptsPrice
<1>2. QED  BY <1>1 DEF Takers

LEMMA DivisorGrows ==
  ASSUME NEW x \in Nat, NEW p \in Nat \ {0}, NEW q \in Nat \ {0}, p <= q
  PROVE  x \div q <= x \div p
<1> DEFINE u == x \div q
           v == x \div p
<1>1. u \in Nat /\ v \in Nat
  BY QuotientNat
<1>2. q * u <= x /\ x < p * v + p
  BY QuotientBounds
<1> HIDE DEF u, v
<1>3. p * u <= q * u
  BY <1>1, Z3
<1>4. p * u < p * (v + 1)
  BY <1>1, <1>2, <1>3, Z3
<1>5. u < v + 1
  BY <1>1, <1>4, Z3
<1>6. QED  BY <1>1, <1>5 DEF u, v

\* Demand only falls as the price rises, supply only grows.
LEMMA SidesMove ==
  ASSUME NEW book, BookHolds(book), NEW ref \in Nat, NEW rooExcluded, NEW p \in Nat \ {0}, NEW q \in Nat \ {0}, p <= q
  PROVE  /\ demand(book, p, ref, rooExcluded) \in Nat /\ supply(book, p, ref, rooExcluded) \in Nat
         /\ demand(book, q, ref, rooExcluded) \in Nat /\ supply(book, q, ref, rooExcluded) \in Nat
         /\ demand(book, q, ref, rooExcluded) <= demand(book, p, ref, rooExcluded)
         /\ supply(book, p, ref, rooExcluded) <= supply(book, q, ref, rooExcluded)
<1> DEFINE Bp == Takers(book, TRUE, p, ref, rooExcluded)
           Bq == Takers(book, TRUE, q, ref, rooExcluded)
           Sp == Takers(book, FALSE, p, ref, rooExcluded)
           Sq == Takers(book, FALSE, q, ref, rooExcluded)
           fp == [e \in book |-> tokenOf(e.sellAmount, p)]
           fq == [e \in book |-> tokenOf(e.sellAmount, q)]
           g  == [e \in book |-> e.sellAmount]
<1>1. Bq \subseteq Bp /\ Sp \subseteq Sq /\ Bp \subseteq book /\ Sq \subseteq book
  <2>1. p \in Int /\ q \in Int
    OBVIOUS
  <2>2. Bq \subseteq Bp /\ Sp \subseteq Sq
    BY <2>1, TakersMove
  <2>3. Bp \subseteq book /\ Sq \subseteq book
    BY DEF Takers
  <2>4. QED  BY <2>2, <2>3
<1>2. \A e \in book : fp[e] \in Nat /\ fq[e] \in Nat /\ fq[e] <= fp[e] /\ g[e] \in Nat
  <2>1. ASSUME NEW e \in book
        PROVE  /\ tokenOf(e.sellAmount, p) \in Nat /\ tokenOf(e.sellAmount, q) \in Nat /\ e.sellAmount \in Nat
               /\ tokenOf(e.sellAmount, q) <= tokenOf(e.sellAmount, p)
    <3>1. e.sellAmount \in Nat /\ WAD \in Nat
      BY ScaleAssumption DEF BookHolds
    <3>2. PICK x : x = e.sellAmount * WAD
      OBVIOUS
    <3>3. x \in Nat
      <4>1. PICK a \in Nat : a = e.sellAmount
        BY <3>1
      <4>2. a * WAD \in Nat
        BY <3>1, Z3
      <4>3. QED  BY <3>2, <4>1, <4>2
    <3>4. x \div p \in Nat /\ x \div q \in Nat /\ x \div q <= x \div p
      BY <3>3, QuotientNat, DivisorGrows
    <3>5. QED  BY <3>1, <3>2, <3>4 DEF tokenOf
  <2>2. QED  BY <2>1
<1>3. IsFiniteSet(book) /\ IsFiniteSet(Bp) /\ IsFiniteSet(Bq) /\ IsFiniteSet(Sp) /\ IsFiniteSet(Sq)
  <2>1. IsFiniteSet(book)
    BY DEF BookHolds
  <2> HIDE DEF Bp, Bq, Sp, Sq
  <2>2. QED  BY <1>1, <2>1, FS_Subset
<1>4. /\ demand(book, p, ref, rooExcluded) = SumFunctionOnSet(fp, Bp)
      /\ demand(book, q, ref, rooExcluded) = SumFunctionOnSet(fq, Bq)
      /\ supply(book, p, ref, rooExcluded) = SumFunctionOnSet(g, Sp)
      /\ supply(book, q, ref, rooExcluded) = SumFunctionOnSet(g, Sq)
  BY DEF demand, supply
<1> HIDE DEF Bp, Bq, Sp, Sq, fp, fq, g
<1>5. /\ SumFunctionOnSet(fp, Bp) \in Nat /\ SumFunctionOnSet(fq, Bq) \in Nat /\ SumFunctionOnSet(fp, Bq) \in Nat
      /\ SumFunctionOnSet(g, Sp) \in Nat /\ SumFunctionOnSet(g, Sq) \in Nat
  <2>1. /\ \A e \in Bp : fp[e] \in Nat
        /\ \A e \in Bq : fp[e] \in Nat /\ fq[e] \in Nat
        /\ \A e \in Sp : g[e] \in Nat
        /\ \A e \in Sq : g[e] \in Nat
    BY <1>1, <1>2
  <2>2. QED  BY <1>3, <2>1, SumNat
<1>6. SumFunctionOnSet(fq, Bq) <= SumFunctionOnSet(fp, Bq)
  <2>1. \A e \in Bq : fq[e] \in Int /\ fp[e] \in Int /\ fq[e] <= fp[e]
    BY <1>1, <1>2
  <2>2. QED  BY <1>3, <2>1, SumMonotone
<1>7. SumFunctionOnSet(fp, Bq) <= SumFunctionOnSet(fp, Bp)
  <2>1. \A e \in Bp : fp[e] \in Nat
    BY <1>1, <1>2
  <2>2. QED  BY <1>1, <1>3, <2>1, SumSubset
<1>8. SumFunctionOnSet(g, Sp) <= SumFunctionOnSet(g, Sq)
  <2>1. \A e \in Sq : g[e] \in Nat
    BY <1>1, <1>2
  <2>2. QED  BY <1>1, <1>3, <2>1, SumSubset
<1>9. QED  BY <1>4, <1>5, <1>6, <1>7, <1>8

\* Once demand does not exceed supply, it does not at any higher price.
LEMMA ShortStays ==
  ASSUME NEW j \in CrossJobs, NEW p \in Nat \ {0}, NEW q \in Nat \ {0}, p <= q, short(j, p)
  PROVE  short(j, q)
<1>1. BookHolds(j.book) /\ j.ref \in Nat
  BY JobHolds
<1>2. /\ demand(j.book, p, j.ref, j.rooExcluded) \in Nat /\ supply(j.book, p, j.ref, j.rooExcluded) \in Nat
      /\ demand(j.book, q, j.ref, j.rooExcluded) \in Nat /\ supply(j.book, q, j.ref, j.rooExcluded) \in Nat
      /\ demand(j.book, q, j.ref, j.rooExcluded) <= demand(j.book, p, j.ref, j.rooExcluded)
      /\ supply(j.book, p, j.ref, j.rooExcluded) <= supply(j.book, q, j.ref, j.rooExcluded)
  BY <1>1, SidesMove
<1>3. QED  BY <1>2 DEF short

----------------------------------------------------------------------------
(* The auction's planner: the search for the price.                        *)

\* Where a search from lo to hi ends: at the first price that is short, or at hi.
EndsAt(j, lo, hi) == {p \in lo..hi : short(j, p) \/ p = hi}
ShortFrom(j, lo, hi) == IF lo >= hi THEN lo ELSE Min(EndsAt(j, lo, hi))

\* f solves the binary search between from and to.
PriceSolves(j, from, to, f) ==
  f = [w \in (from..to) \X (from..to) |->
         LET mid == (w[1] + w[2]) \div 2
         IN  IF w[1] >= w[2] THEN w[1]
             ELSE IF short(j, mid) THEN f[<<w[1], mid>>] ELSE f[<<mid + 1, w[2]>>]]

LEMMA EndFound ==
  ASSUME NEW j, NEW lo \in Nat, NEW hi \in Nat, lo <= hi
  PROVE  /\ Min(EndsAt(j, lo, hi)) \in EndsAt(j, lo, hi) /\ \A p \in EndsAt(j, lo, hi) : Min(EndsAt(j, lo, hi)) <= p
         /\ \A m \in EndsAt(j, lo, hi) : (\A p \in EndsAt(j, lo, hi) : m <= p) => m = Min(EndsAt(j, lo, hi))
         /\ EndsAt(j, lo, hi) \subseteq Nat
<1>1. IsFiniteSet(lo..hi)
  <2>1. lo \in Int /\ hi \in Int
    OBVIOUS
  <2>2. QED  BY <2>1, FS_Interval
<1>2. IsFiniteSet(EndsAt(j, lo, hi)) /\ EndsAt(j, lo, hi) \subseteq Nat
  <2>1. EndsAt(j, lo, hi) \subseteq lo..hi
    BY DEF EndsAt
  <2>2. QED  BY <1>1, <2>1, FS_Subset
<1>3. hi \in EndsAt(j, lo, hi)
  BY DEF EndsAt
<1>4. Min(EndsAt(j, lo, hi)) \in EndsAt(j, lo, hi) /\ \A p \in EndsAt(j, lo, hi) : Min(EndsAt(j, lo, hi)) <= p
  <2> DEFINE K == EndsAt(j, lo, hi)
  <2>1. IsFiniteSet(K) /\ (\A k \in K : k \in Nat) /\ K # {}
    BY <1>2, <1>3
  <2> HIDE DEF K
  <2>2. Min(K) \in K /\ \A p \in K : Min(K) <= p
    BY <2>1, FirstPosition
  <2>3. QED  BY <2>2 DEF K
<1>5. QED  BY <1>2, <1>4

\* The search halves: what it looks for stays between lo and hi.
LEMMA ShortHalves ==
  ASSUME NEW j \in CrossJobs, NEW lo \in Nat \ {0}, NEW hi \in Nat, NEW mid \in Nat, lo < hi, lo <= mid, mid < hi
  PROVE  /\ short(j, mid) => ShortFrom(j, lo, hi) = ShortFrom(j, lo, mid)
         /\ ~short(j, mid) => ShortFrom(j, lo, hi) = ShortFrom(j, mid + 1, hi)
<1> DEFINE K == EndsAt(j, lo, hi)
           m == Min(K)
<1>1. m \in K /\ (\A p \in K : m <= p) /\ \A n \in K : (\A p \in K : n <= p) => n = m
  BY EndFound
<1>2. ShortFrom(j, lo, hi) = m
  BY DEF ShortFrom
<1> HIDE DEF K, m
<1>3. ASSUME short(j, mid) PROVE m = ShortFrom(j, lo, mid)
  <2>1. PICK n : n = ShortFrom(j, lo, mid)
    OBVIOUS
  <2>2. n \in lo..mid /\ short(j, n) /\ \A p \in lo..mid : short(j, p) => n <= p
    <3>1. CASE lo >= mid
      BY <1>3, <2>1, <3>1 DEF ShortFrom
    <3>2. CASE lo < mid
      <4>1. n = Min(EndsAt(j, lo, mid))
        BY <2>1, <3>2 DEF ShortFrom
      <4>2. n \in EndsAt(j, lo, mid) /\ \A p \in EndsAt(j, lo, mid) : n <= p
        BY <3>2, <4>1, EndFound
      <4>3. QED  BY <1>3, <4>2 DEF EndsAt
    <3>3. QED  BY <3>1, <3>2
  <2>3. n \in K /\ \A p \in K : n <= p
    <3>1. n \in K
      BY <2>2 DEF K, EndsAt
    <3>2. ASSUME NEW p \in K PROVE n <= p
      <4>1. p \in lo..hi /\ (short(j, p) \/ p = hi)
        BY DEF K, EndsAt
      <4>2. CASE p > mid
        BY <2>2, <4>1, <4>2
      <4>3. CASE p <= mid
        BY <2>2, <4>1, <4>3
      <4>4. QED  BY <4>1, <4>2, <4>3
    <3>3. QED  BY <3>1, <3>2
  <2>4. QED  BY <1>1, <2>1, <2>3
<1>4. ASSUME ~short(j, mid) PROVE m = ShortFrom(j, mid + 1, hi)
  <2>1. PICK n : n = ShortFrom(j, mid + 1, hi)
    OBVIOUS
  <2>2. n \in (mid + 1)..hi /\ (short(j, n) \/ n = hi) /\ \A p \in (mid + 1)..hi : short(j, p) \/ p = hi => n <= p
    <3>1. CASE mid + 1 >= hi
      BY <2>1, <3>1 DEF ShortFrom
    <3>2. CASE mid + 1 < hi
      <4>1. n = Min(EndsAt(j, mid + 1, hi))
        BY <2>1, <3>2 DEF ShortFrom
      <4>2. n \in EndsAt(j, mid + 1, hi) /\ \A p \in EndsAt(j, mid + 1, hi) : n <= p
        <5>1. mid + 1 \in Nat /\ mid + 1 <= hi
          BY <3>2
        <5>2. QED  BY <4>1, <5>1, EndFound
      <4>3. QED  BY <4>2 DEF EndsAt
    <3>3. QED  BY <3>1, <3>2
  <2>3. \A p \in lo..mid : ~short(j, p)
    <3>1. ASSUME NEW p \in lo..mid, short(j, p) PROVE FALSE
      <4>1. p \in Nat \ {0} /\ mid \in Nat \ {0} /\ p <= mid
        OBVIOUS
      <4>2. QED  BY <1>4, <3>1, <4>1, ShortStays
    <3>2. QED  BY <3>1
  <2>4. n \in K /\ \A p \in K : n <= p
    <3>1. n \in K
      BY <2>2 DEF K, EndsAt
    <3>2. ASSUME NEW p \in K PROVE n <= p
      <4>1. p \in lo..hi /\ (short(j, p) \/ p = hi)
        BY DEF K, EndsAt
      <4>2. p > mid
        BY <2>3, <4>1
      <4>3. p \in (mid + 1)..hi
        BY <4>1, <4>2
      <4>4. QED  BY <2>2, <4>1, <4>3
    <3>3. QED  BY <3>1, <3>2
  <2>5. QED  BY <1>1, <2>1, <2>4
<1>5. QED  BY <1>2, <1>3, <1>4

LEMMA PriceStep ==
  ASSUME NEW j, NEW from, NEW to, NEW f, PriceSolves(j, from, to, f), NEW lo \in from..to, NEW hi \in from..to,
         NEW mid, mid = (lo + hi) \div 2
  PROVE  f[<<lo, hi>>] = IF lo >= hi THEN lo ELSE IF short(j, mid) THEN f[<<lo, mid>>] ELSE f[<<mid + 1, hi>>]
<1>1. <<lo, hi>> \in (from..to) \X (from..to) /\ <<lo, hi>>[1] = lo /\ <<lo, hi>>[2] = hi
  OBVIOUS
<1>2. QED  BY <1>1 DEF PriceSolves

LEMMA PriceSolvable ==
  ASSUME NEW j \in CrossJobs, NEW from \in Nat \ {0}, NEW to \in Nat
  PROVE  \E f : PriceSolves(j, from, to, f)
<1> DEFINE P == (from..to) \X (from..to)
           goal == [w \in P |-> ShortFrom(j, w[1], w[2])]
           next(w, mid) == IF w[1] >= w[2] THEN w[1] ELSE IF short(j, mid) THEN goal[<<w[1], mid>>] ELSE goal[<<mid + 1, w[2]>>]
<1>1. ASSUME NEW w \in P, NEW mid, mid = (w[1] + w[2]) \div 2
      PROVE  goal[w] = next(w, mid)
  <2>1. PICK lo \in from..to, hi \in from..to : lo = w[1] /\ hi = w[2]
    OBVIOUS
  <2>2. lo \in Nat \ {0} /\ hi \in Nat /\ goal[w] = ShortFrom(j, lo, hi)
    BY <2>1
  <2>3. CASE lo >= hi
    BY <2>1, <2>2, <2>3 DEF ShortFrom
  <2>4. CASE ~(lo >= hi)
    <3>1. lo \in Nat /\ hi \in Nat /\ lo < hi
      BY <2>2, <2>4
    <3>2. mid = (lo + hi) \div 2
      BY <1>1, <2>1
    <3>3. mid \in Nat /\ lo <= mid /\ mid < hi
      BY <3>1, <3>2, Halfway
    <3>4. <<lo, mid>> \in P /\ <<mid + 1, hi>> \in P
      BY <2>1, <3>3
    <3>5. goal[<<lo, mid>>] = ShortFrom(j, lo, mid) /\ goal[<<mid + 1, hi>>] = ShortFrom(j, mid + 1, hi)
      BY <3>4
    <3>6. /\ short(j, mid) => ShortFrom(j, lo, hi) = ShortFrom(j, lo, mid)
          /\ ~short(j, mid) => ShortFrom(j, lo, hi) = ShortFrom(j, mid + 1, hi)
      BY <2>2, <3>1, <3>3, ShortHalves
    <3> HIDE DEF goal
    <3>7. QED  BY <2>1, <2>2, <2>4, <3>5, <3>6
  <2>5. QED  BY <2>3, <2>4
<1>2. goal = [w \in P |-> goal[w]]
  OBVIOUS
<1> HIDE DEF goal
<1>3. goal = [w \in P |-> next(w, (w[1] + w[2]) \div 2)]
  <2> DEFINE after(w) == next(w, (w[1] + w[2]) \div 2)
  <2>1. \A w \in P : goal[w] = after(w)
    BY <1>1
  <2> HIDE DEF after, P, next
  <2>2. goal = [w \in P |-> after(w)]
    BY <1>2, <2>1
  <2>3. QED  BY <2>2 DEF after
<1>4. PriceSolves(j, from, to, goal)
  BY <1>3 DEF PriceSolves
<1>5. QED  BY <1>4

\* The binary search ends at the first price that is short.
LEMMA PriceFound ==
  ASSUME NEW j \in CrossJobs, NEW from \in Nat \ {0}, NEW to \in Nat, from <= to, short(j, to)
  PROVE  balancingPrice(j, from, to) = ShortFrom(j, from, to)
<1>1. PICK f : /\ PriceSolves(j, from, to, f) /\ balancingPrice(j, from, to) = f[<<from, to>>]
  <2>1. \E f : PriceSolves(j, from, to, f)
    BY PriceSolvable
  <2>2. PriceSolves(j, from, to, CHOOSE f : PriceSolves(j, from, to, f))
    BY <2>1
  <2>3. balancingPrice(j, from, to) = (CHOOSE f : PriceSolves(j, from, to, f))[<<from, to>>]
    BY DEF balancingPrice, PriceSolves
  <2>4. QED  BY <2>2, <2>3
<1> DEFINE H == from..to
<1>2. ASSUME NEW lo \in H, NEW hi \in H, NEW mid, mid = (lo + hi) \div 2
      PROVE  f[<<lo, hi>>] = IF lo >= hi THEN lo ELSE IF short(j, mid) THEN f[<<lo, mid>>] ELSE f[<<mid + 1, hi>>]
  BY <1>1, <1>2, PriceStep
<1> DEFINE Bad == {d \in 0..to : \E lo \in H : \E hi \in H : lo + d = hi /\ f[<<lo, hi>>] # ShortFrom(j, lo, hi)}
<1>3. ASSUME Bad # {} PROVE FALSE
  <2>1. PICK d \in Bad : \A e \in Bad : d <= e
    <3>1. Bad \subseteq 0..to
      OBVIOUS
    <3> HIDE DEF Bad
    <3>2. QED  BY <1>3, <3>1, FirstOf
  <2>2. PICK lo \in H : \E hi \in H : lo + d = hi /\ f[<<lo, hi>>] # ShortFrom(j, lo, hi)
    BY <2>1
  <2>3. PICK hi \in H : lo + d = hi /\ f[<<lo, hi>>] # ShortFrom(j, lo, hi)
    BY <2>2
  <2>4. PICK mid : mid = (lo + hi) \div 2
    OBVIOUS
  <2>5. f[<<lo, hi>>] = IF lo >= hi THEN lo ELSE IF short(j, mid) THEN f[<<lo, mid>>] ELSE f[<<mid + 1, hi>>]
    BY <1>2, <2>4
  <2>6. lo < hi /\ lo \in Nat \ {0} /\ hi \in Nat
    <3>1. lo >= hi => f[<<lo, hi>>] = ShortFrom(j, lo, hi)
      BY <2>5 DEF ShortFrom
    <3>2. QED  BY <2>3, <3>1
  <2>7. mid \in Nat /\ lo <= mid /\ mid < hi
    BY <2>4, <2>6, Halfway
  <2>8. mid \in H /\ mid + 1 \in H
    BY <2>6, <2>7
  <2>9. f[<<lo, mid>>] = ShortFrom(j, lo, mid)
    <3>1. mid - lo \in 0..to /\ mid - lo < d /\ lo + (mid - lo) = mid
      BY <2>1, <2>3, <2>6, <2>7
    <3>2. ~(mid - lo \in Bad)
      BY <2>1, <3>1
    <3>3. QED  BY <2>8, <3>1, <3>2
  <2>10. f[<<mid + 1, hi>>] = ShortFrom(j, mid + 1, hi)
    <3>1. hi - (mid + 1) \in 0..to /\ hi - (mid + 1) < d /\ (mid + 1) + (hi - (mid + 1)) = hi
      BY <2>1, <2>3, <2>6, <2>7
    <3>2. ~(hi - (mid + 1) \in Bad)
      BY <2>1, <3>1
    <3>3. QED  BY <2>8, <3>1, <3>2
  <2>11. /\ short(j, mid) => ShortFrom(j, lo, hi) = ShortFrom(j, lo, mid)
         /\ ~short(j, mid) => ShortFrom(j, lo, hi) = ShortFrom(j, mid + 1, hi)
    BY <2>6, <2>7, ShortHalves
  <2>12. QED  BY <2>3, <2>5, <2>6, <2>9, <2>10, <2>11
<1>4. from \in H /\ to \in H /\ to - from \in 0..to /\ from + (to - from) = to
  OBVIOUS
<1>5. f[<<from, to>>] = ShortFrom(j, from, to)
  BY <1>3, <1>4
<1>6. QED  BY <1>1, <1>5

----------------------------------------------------------------------------
(* The auction's planner: the sellers' shares.                             *)

\* up[x] are those before x, in a total order: as many as n come before the rest.
LEMMA FirstRanks ==
  ASSUME NEW K, IsFiniteSet(K), NEW up,
         \A x \in K : up[x] \subseteq K /\ x \notin up[x],
         \A x, y \in K : x # y => x \in up[y] \/ y \in up[x],
         \A x, y \in K : x \in up[y] => up[x] \subseteq up[y],
         NEW n \in 0..Cardinality(K)
  PROVE  Cardinality({x \in K : Cardinality(up[x]) < n}) = n
<1> DEFINE ranks == 0..(Cardinality(K) - 1)
           rank  == [x \in K |-> Cardinality(up[x])]
<1>1. Cardinality(K) \in Nat
  BY FS_CardinalityType
<1>2. ASSUME NEW x \in K PROVE IsFiniteSet(up[x]) /\ Cardinality(up[x]) \in ranks
  <2>1. up[x] \subseteq K \ {x} /\ IsFiniteSet(K \ {x}) /\ Cardinality(K \ {x}) = Cardinality(K) - 1
    BY FS_RemoveElement
  <2>2. IsFiniteSet(up[x]) /\ Cardinality(up[x]) <= Cardinality(K \ {x})
    BY <2>1, FS_Subset
  <2>3. Cardinality(up[x]) \in Nat
    BY <2>2, FS_CardinalityType
  <2>4. QED  BY <1>1, <2>1, <2>2, <2>3
<1>3. ASSUME NEW x \in K, NEW y \in K, x \in up[y] PROVE Cardinality(up[x]) < Cardinality(up[y])
  <2>1. up[x] \subseteq up[y] \ {x} /\ IsFiniteSet(up[y]) /\ IsFiniteSet(up[y] \ {x})
    BY <1>2, <1>3, FS_Subset
  <2>2. Cardinality(up[y] \ {x}) = Cardinality(up[y]) - 1
    BY <1>3, <2>1, FS_RemoveElement
  <2>3. Cardinality(up[x]) <= Cardinality(up[y] \ {x})
    BY <2>1, FS_Subset
  <2>4. Cardinality(up[x]) \in Nat /\ Cardinality(up[y]) \in Nat
    BY <1>2
  <2>5. QED  BY <2>2, <2>3, <2>4
<1>4. \A x, y \in K : rank[x] = rank[y] => x = y
  <2>1. ASSUME NEW x \in K, NEW y \in K, rank[x] = rank[y], x # y PROVE FALSE
    <3>1. Cardinality(up[x]) \in Nat /\ Cardinality(up[x]) = Cardinality(up[y])
      BY <1>2, <2>1
    <3>2. Cardinality(up[x]) < Cardinality(up[y]) \/ Cardinality(up[y]) < Cardinality(up[x])
      BY <1>3, <2>1
    <3>3. QED  BY <3>1, <3>2
  <2>2. QED  BY <2>1
<1>5. rank \in [K -> ranks]
  BY <1>2
<1>6. IsFiniteSet(ranks) /\ Cardinality(ranks) = Cardinality(K)
  <2>1. 0 \in Int /\ Cardinality(K) - 1 \in Int
    BY <1>1
  <2>2. IsFiniteSet(ranks) /\ Cardinality(ranks) = IF 0 > Cardinality(K) - 1 THEN 0 ELSE (Cardinality(K) - 1) - 0 + 1
    BY <2>1, FS_Interval
  <2>3. QED  BY <1>1, <2>2
<1>7. rank \in Surjection(K, ranks)
  <2>1. rank \in Injection(K, ranks)
    BY <1>4, <1>5 DEF Injection, IsInjective
  <2> HIDE DEF rank, ranks
  <2>2. QED  BY <1>6, <2>1, FS_Injection
<1> DEFINE D == {x \in K : Cardinality(up[x]) < n}
           N == 0..(n - 1)
           low == [x \in D |-> Cardinality(up[x])]
<1>8. n \in Nat /\ n <= Cardinality(K)
  BY <1>1
<1>9. IsFiniteSet(D) /\ D \subseteq K
  BY FS_Subset
<1>10. low \in Bijection(D, N)
  <2>1. \A x \in D : low[x] \in N /\ low[x] = rank[x]
    BY <1>2, <1>8
  <2>2. \A x, y \in D : low[x] = low[y] => x = y
    BY <1>4, <2>1
  <2>3. \A m \in N : \E x \in D : low[x] = m
    <3>1. ASSUME NEW m \in N PROVE \E x \in D : low[x] = m
      <4>1. m \in ranks /\ m < n
        BY <1>1, <1>8
      <4>2. PICK x \in K : rank[x] = m
        <5> HIDE DEF rank, ranks
        <5>1. QED  BY <1>7, <4>1 DEF Surjection
      <4>3. x \in D
        BY <4>1, <4>2
      <4>4. QED  BY <2>1, <4>2, <4>3
    <3>2. QED  BY <3>1
  <2>4. low \in [D -> N]
    BY <2>1
  <2> HIDE DEF D, N, low
  <2>5. QED  BY <2>2, <2>3, <2>4 DEF Bijection, Injection, IsInjective, Surjection
<1>11. Cardinality(N) = n
  <2>1. 0 \in Int /\ n - 1 \in Int
    BY <1>8
  <2>2. Cardinality(N) = IF 0 > n - 1 THEN 0 ELSE (n - 1) - 0 + 1
    BY <2>1, FS_Interval
  <2>3. QED  BY <1>8, <2>2
<1> HIDE DEF D, N, low
<1>12. Cardinality(D) = Cardinality(N)
  <2>1. ExistsBijection(D, N)
    BY <1>10 DEF ExistsBijection
  <2>2. QED  BY <1>9, <2>1, FS_Bijection
<1>13. QED  BY <1>11, <1>12 DEF D

\* The quotient and the remainder of a seller's share.
FloorOf(a, t, A) == (a * t) \div A
RestOf(a, t, A)  == (a * t) % A

LEMMA ShareParts ==
  ASSUME NEW a \in Nat, NEW t \in Nat, NEW A \in Nat \ {0}, t <= A,
         NEW q, q = FloorOf(a, t, A), NEW r, r = RestOf(a, t, A)
  PROVE  /\ q \in Nat /\ r \in Nat /\ r < A /\ A * q + r = t * a /\ q <= a
         /\ r > 0 => q < a /\ q * A < a * t
         /\ a * t \in Nat /\ (q - 1) * A < a * t
<1>1. PICK x \in Nat : x = a * t /\ x = t * a
  BY Z3
<1>2. q = x \div A /\ r = x % A
  BY <1>1 DEF FloorOf, RestOf
<1>3. q \in Nat
  BY <1>2, QuotientNat
<1>4. r \in Nat /\ r < A /\ x = A * q + r
  BY <1>2, Z3
<1>5. x <= a * A
  BY <1>1, Z3
<1>6. q <= a
  <2>1. A * q <= A * a
    BY <1>3, <1>4, <1>5, Z3
  <2>2. QED  BY <1>3, <2>1, Z3
<1>7. ASSUME r > 0 PROVE q < a /\ q * A < x
  <2>1. A * q < A * a /\ q * A < x
    BY <1>3, <1>4, <1>5, <1>7, Z3
  <2>2. QED  BY <1>3, <2>1, Z3
<1>8. (q - 1) * A < x
  BY <1>3, <1>4, Z3
<1>9. QED  BY <1>1, <1>3, <1>4, <1>6, <1>7, <1>8

\* Every unit of the target finds a seller, and nobody gives more than escrowed or
\* more than a unit above the pro rata share.
LEMMA SplitExact ==
  ASSUME NEW S, IsFiniteSet(S), \A e \in S : e.sellAmount \in Nat /\ e.id \in Nat,
         \A d, e \in S : d.id = e.id => d = e,
         NEW t \in Nat \ {0}, t <= Held(S), NEW x, x = split(S, t, Held(S))
  PROVE  /\ x = [e \in S |-> x[e]]
         /\ \A e \in S : x[e] \in Nat /\ x[e] <= e.sellAmount /\ (x[e] - 1) * Held(S) < e.sellAmount * t
         /\ SumFunctionOnSet(x, S) = t
<1> DEFINE a  == [e \in S |-> e.sellAmount]
           A  == Held(S)
           fl == [e \in S |-> (e.sellAmount * t) \div A]
           r  == [e \in S |-> (e.sellAmount * t) % A]
           R  == {e \in S : r[e] > 0}
           left == t - SumFunctionOnSet(fl, S)
           open == {e \in S : fl[e] < e.sellAmount}
           up == [e \in S |-> {d \in open : r[d] > r[e] \/ (r[d] = r[e] /\ d.id < e.id)}]
           raised == {e \in open : Cardinality(up[e]) < left}
<1>1. A = SumFunctionOnSet(a, S)
  BY DEF Held
<1>2. A \in Nat \ {0}
  <2>1. \A e \in S : a[e] \in Nat
    OBVIOUS
  <2>2. A \in Nat
    BY <1>1, <2>1, SumNat
  <2>3. QED  BY <2>2
<1>3. x = [e \in S |-> IF e \in raised THEN fl[e] + 1 ELSE fl[e]]
  <2>1. x = topUp(fl, S, t, A)
    BY DEF split
  <2>2. \A e \in S : {d \in open : (d.sellAmount * t) % A > (e.sellAmount * t) % A \/ ((d.sellAmount * t) % A = (e.sellAmount * t) % A /\ d.id < e.id)} = up[e]
    OBVIOUS
  <2>3. raised = {e \in open : Cardinality({d \in open : (d.sellAmount * t) % A > (e.sellAmount * t) % A \/ ((d.sellAmount * t) % A = (e.sellAmount * t) % A /\ d.id < e.id)}) < left}
    BY <2>2
  <2> HIDE DEF A, fl, raised, left, up
  <2>4. QED  BY <2>1, <2>3 DEF topUp, left
<1>4. ASSUME NEW e \in S
      PROVE  /\ a[e] \in Nat /\ fl[e] \in Nat /\ r[e] \in Nat /\ r[e] < A /\ A * fl[e] + r[e] = t * a[e] /\ fl[e] <= e.sellAmount
             /\ r[e] > 0 => fl[e] < e.sellAmount /\ fl[e] * A < e.sellAmount * t
             /\ e.sellAmount * t \in Nat /\ (fl[e] - 1) * A < e.sellAmount * t
  <2>1. PICK b \in Nat : b = e.sellAmount
    OBVIOUS
  <2>2. PICK c \in Nat \ {0} : c = A
    BY <1>2
  <2>3. PICK q, m : q = FloorOf(b, t, c) /\ m = RestOf(b, t, c)
    BY Zenon
  <2>4. fl[e] = q /\ r[e] = m /\ a[e] = b
    BY <2>1, <2>2, <2>3 DEF FloorOf, RestOf
  <2>5. t \in Nat /\ t <= c
    BY <2>2
  <2> HIDE DEF A, fl, r, a
  <2>6. /\ q \in Nat /\ m \in Nat /\ m < c /\ c * q + m = t * b /\ q <= b
        /\ m > 0 => q < b /\ q * c < b * t
        /\ b * t \in Nat /\ (q - 1) * c < b * t
    BY <2>3, <2>5, ShareParts
  <2>7. QED  BY <2>1, <2>2, <2>4, <2>6
<1>5. IsFiniteSet(R) /\ IsFiniteSet(open) /\ IsFiniteSet(raised) /\ R \subseteq open /\ raised \subseteq open /\ open \subseteq S
  <2>1. R \subseteq S /\ open \subseteq S /\ raised \subseteq open
    OBVIOUS
  <2>2. R \subseteq open
    BY <1>4
  <2> HIDE DEF R, open, raised
  <2>3. QED  BY <2>1, <2>2, FS_Subset
<1> DEFINE F == SumFunctionOnSet(fl, S)
<1> HIDE DEF A, fl, r, a
<1>6. F \in Nat
  BY <1>4, SumNat
<1>7. SumFunctionOnSet(r, S) = A * left
  <2> DEFINE Af == [e \in S |-> A * fl[e]]
             ta == [e \in S |-> t * a[e]]
  <2>1. \A e \in S : Af[e] \in Int /\ r[e] \in Int /\ ta[e] = Af[e] + r[e] /\ Af[e] = A * fl[e] /\ ta[e] = t * a[e] /\ fl[e] \in Int /\ a[e] \in Int
    <3>1. ASSUME NEW e \in S PROVE A * fl[e] \in Int
      <4>1. PICK q \in Nat : q = fl[e]
        BY <1>4
      <4>2. A * q \in Int
        BY <1>2, Z3
      <4>3. QED  BY <4>1, <4>2
    <3>2. QED  BY <1>4, <3>1
  <2> HIDE DEF Af, ta
  <2>2. SumFunctionOnSet(ta, S) = SumFunctionOnSet(Af, S) + SumFunctionOnSet(r, S)
    BY <2>1, SumPlus
  <2>3. SumFunctionOnSet(Af, S) = A * F
    <3>1. A \in Int /\ \A e \in S : fl[e] \in Int /\ Af[e] = A * fl[e]
      BY <1>2, <2>1
    <3>2. QED  BY <3>1, SumScale
  <2>4. SumFunctionOnSet(ta, S) = t * A
    <3>1. t \in Int /\ \A e \in S : a[e] \in Int /\ ta[e] = t * a[e]
      BY <2>1
    <3>2. SumFunctionOnSet(ta, S) = t * SumFunctionOnSet(a, S)
      BY <3>1, SumScale
    <3>3. QED  BY <1>1, <3>2
  <2>5. SumFunctionOnSet(r, S) \in Int
    BY <2>1, SumInt
  <2>6. PICK f \in Nat, s \in Int : f = F /\ s = SumFunctionOnSet(r, S)
    BY <1>6, <2>5
  <2>7. t * A = A * f + s
    BY <2>2, <2>3, <2>4, <2>6
  <2>8. s = A * (t - f)
    BY <1>2, <2>7, Z3
  <2>9. QED  BY <2>6, <2>8
<1>8. left \in 0..Cardinality(R)
  <2> DEFINE m == [e \in R |-> A]
             one == [e \in R |-> 1]
  <2>1. SumFunctionOnSet(r, S) = SumFunctionOnSet(r, R)
    <3>1. /\ R \subseteq S /\ \A e \in R : r[e] \in Int /\ r[e] = r[e]
          /\ \A e \in S : e \notin R => r[e] = 0
      BY <1>4
    <3> HIDE DEF R
    <3>2. QED  BY <3>1, SumRestrict
  <2>2. SumFunctionOnSet(m, R) = A * Cardinality(R)
    <3>1. A \in Int /\ \A e \in R : one[e] \in Int /\ m[e] = A * one[e] /\ one[e] = 1
      BY <1>2
    <3> HIDE DEF R, m, one
    <3>2. SumFunctionOnSet(m, R) = A * SumFunctionOnSet(one, R)
      BY <1>5, <3>1, SumScale
    <3>3. SumFunctionOnSet(one, R) = Cardinality(R)
      BY <1>5, <3>1, SumOnes
    <3>4. QED  BY <3>2, <3>3
  <2>3. SumFunctionOnSet(r, R) <= SumFunctionOnSet(m, R)
    <3>1. \A e \in R : r[e] \in Int /\ m[e] \in Int /\ r[e] <= m[e]
      BY <1>2, <1>4
    <3> HIDE DEF R, m
    <3>2. QED  BY <1>5, <3>1, SumMonotone
  <2>4. SumFunctionOnSet(r, S) \in Nat
    BY <1>4, SumNat
  <2>5. Cardinality(R) \in Nat
    BY <1>5, FS_CardinalityType
  <2> HIDE DEF R
  <2>6. PICK l \in Int, c \in Nat : l = left /\ c = Cardinality(R)
    BY <1>6, <2>5
  <2>7. 0 <= A * l /\ A * l <= A * c
    BY <1>7, <2>1, <2>2, <2>3, <2>4, <2>6
  <2>8. 0 <= l /\ l <= c
    BY <1>2, <2>7, Z3
  <2>9. QED  BY <2>6, <2>8
<1> HIDE DEF R, left, open
<1>9. /\ \A d, e \in open : d # e => d \in up[e] \/ e \in up[d]
      /\ \A d, e \in open : d \in up[e] => up[d] \subseteq up[e]
      /\ \A e \in open : up[e] \subseteq open /\ e \notin up[e]
  <2>1. \A e \in open : e \in S /\ r[e] \in Nat /\ e.id \in Nat
    BY <1>4, <1>5
  <2>2. \A d, e \in open : d.id = e.id => d = e
    BY <2>1
  <2>3. \A d, e \in open : d \in up[e] <=> r[d] > r[e] \/ (r[d] = r[e] /\ d.id < e.id)
    BY <2>1
  <2>4. \A e \in open : up[e] \subseteq open
    BY <2>1
  <2> HIDE DEF up
  <2>5. ASSUME NEW d \in open, NEW e \in open PROVE d # e => d \in up[e] \/ e \in up[d]
    <3>1. d # e => d.id < e.id \/ e.id < d.id
      BY <2>1, <2>2
    <3>2. QED  BY <2>1, <2>3, <3>1
  <2>6. ASSUME NEW d \in open, NEW e \in open, d \in up[e], NEW c \in up[d] PROVE c \in up[e]
    <3>1. c \in open
      BY <2>4
    <3>2. r[c] \in Nat /\ r[d] \in Nat /\ r[e] \in Nat /\ c.id \in Nat /\ d.id \in Nat /\ e.id \in Nat
      BY <2>1, <3>1
    <3>3. (r[d] > r[e] \/ (r[d] = r[e] /\ d.id < e.id)) /\ (r[c] > r[d] \/ (r[c] = r[d] /\ c.id < d.id))
      BY <2>3, <2>6, <3>1
    <3>4. r[c] > r[e] \/ (r[c] = r[e] /\ c.id < e.id)
      BY <3>2, <3>3
    <3>5. QED  BY <2>3, <3>1, <3>4
  <2>7. \A e \in open : e \notin up[e]
    BY <2>1, <2>3
  <2>8. QED  BY <2>4, <2>5, <2>6, <2>7
<1>10. Cardinality(open) \in Nat /\ Cardinality(R) \in Nat /\ Cardinality(R) <= Cardinality(open)
  BY <1>5, FS_Subset, FS_CardinalityType
<1>11. Cardinality(raised) = left
  <2>1. left \in 0..Cardinality(open)
    BY <1>8, <1>10
  <2> HIDE DEF up
  <2>2. Cardinality({e \in open : Cardinality(up[e]) < left}) = left
    BY <1>5, <1>9, <2>1, FirstRanks
  <2>3. QED  BY <2>2
<1>12. raised \subseteq R
  <2>1. ASSUME NEW e \in raised, e \notin R PROVE FALSE
    <3>1. e \in open /\ e \in S /\ Cardinality(up[e]) < left
      BY <1>5
    <3>2. r[e] = 0
      BY <1>4, <2>1, <3>1 DEF R
    <3>3. R \subseteq up[e]
      <4>1. ASSUME NEW d \in R PROVE d \in up[e]
        <5>1. d \in open /\ r[d] > r[e]
          BY <1>5, <3>2 DEF R
        <5>2. QED  BY <3>1, <5>1
      <4>2. QED  BY <4>1
    <3>4. up[e] \subseteq open /\ IsFiniteSet(up[e])
      <4>1. up[e] \subseteq open
        BY <1>9, <3>1
      <4>2. QED  BY <1>5, <4>1, FS_Subset
    <3>5. Cardinality(R) <= Cardinality(up[e]) /\ Cardinality(up[e]) \in Nat
      BY <3>3, <3>4, FS_Subset, FS_CardinalityType
    <3>6. QED  BY <1>8, <1>10, <3>1, <3>5
  <2>2. QED  BY <2>1
<1> HIDE DEF up, raised
<1>13. ASSUME NEW e \in S
       PROVE  x[e] \in Nat /\ x[e] <= e.sellAmount /\ (x[e] - 1) * A < e.sellAmount * t
  <2>1. CASE e \in raised
    <3>1. x[e] = fl[e] + 1 /\ r[e] > 0
      BY <1>3, <1>12, <2>1 DEF R
    <3>2. fl[e] \in Nat /\ fl[e] < e.sellAmount /\ fl[e] * A < e.sellAmount * t
      BY <1>4, <3>1
    <3>3. x[e] - 1 = fl[e] /\ x[e] \in Nat /\ x[e] <= e.sellAmount
      BY <3>1, <3>2
    <3>4. QED  BY <3>2, <3>3
  <2>2. CASE e \notin raised
    <3>1. x[e] = fl[e]
      BY <1>3, <2>2
    <3>2. QED  BY <1>4, <3>1
  <2>3. QED  BY <2>1, <2>2
<1>14. SumFunctionOnSet(x, S) = t
  <2> DEFINE more == [e \in S |-> IF e \in raised THEN 1 ELSE 0]
             one  == [e \in raised |-> 1]
  <2>1. \A e \in S : fl[e] \in Int /\ more[e] \in Int /\ x[e] = fl[e] + more[e]
    BY <1>3, <1>4
  <2>2. SumFunctionOnSet(more, S) = SumFunctionOnSet(one, raised)
    <3>1. /\ raised \subseteq S
          /\ \A e \in raised : one[e] \in Int /\ more[e] = one[e]
          /\ \A e \in S : e \notin raised => more[e] = 0
      BY <1>5
    <3> HIDE DEF more, one
    <3>2. QED  BY <3>1, SumRestrict
  <2>3. SumFunctionOnSet(one, raised) = Cardinality(raised)
    <3>1. \A e \in raised : one[e] = 1
      OBVIOUS
    <3> HIDE DEF one
    <3>2. QED  BY <1>5, <3>1, SumOnes
  <2> HIDE DEF more, one
  <2>4. SumFunctionOnSet(x, S) = F + SumFunctionOnSet(more, S)
    BY <2>1, SumPlus
  <2>5. SumFunctionOnSet(x, S) = F + left
    BY <1>11, <2>2, <2>3, <2>4
  <2>6. QED  BY <1>6, <2>5 DEF left
<1>15. x = [e \in S |-> x[e]]
  BY <1>3
<1>16. QED  BY <1>13, <1>14, <1>15 DEF A

----------------------------------------------------------------------------
(* The auction's planner: the plan at a price.                             *)

\* Both sides of the plan, and what each execution receives.
BuysAt(j, p)  == {e \in Takers(j.book, TRUE, p, j.ref, j.rooExcluded) : tokenOf(e.sellAmount, p) > 0}
SellsAt(j, p) == {e \in Takers(j.book, FALSE, p, j.ref, j.rooExcluded) : e.sellAmount > 0}
GotAt(fill, p) == [e \in DOMAIN fill |-> boughtFor(e, fill[e], p)]

\* A conversion keeps within its quotient.
LEMMA TokenBounds ==
  ASSUME NEW a \in Nat, NEW p \in Nat \ {0}
  PROVE  tokenOf(a, p) \in Nat /\ p * tokenOf(a, p) <= WAD * a
<1>1. WAD \in Nat \ {0}
  BY ScaleAssumption
<1>2. PICK x \in Nat : x = a * WAD /\ x = WAD * a
  BY <1>1, Z3
<1>3. x \div p \in Nat /\ p * (x \div p) <= x
  BY QuotientNat, QuotientBounds
<1>4. tokenOf(a, p) = x \div p
  BY <1>2 DEF tokenOf
<1>5. QED  BY <1>2, <1>3, <1>4

LEMMA QuoteBounds ==
  ASSUME NEW a \in Nat, NEW p \in Nat
  PROVE  quoteOf(a, p) \in Nat /\ WAD * quoteOf(a, p) <= p * a
<1>1. WAD \in Nat \ {0}
  BY ScaleAssumption
<1>2. PICK x \in Nat : x = a * p /\ x = p * a
  BY Z3
<1>3. x \div WAD \in Nat /\ WAD * (x \div WAD) <= x
  BY <1>1, QuotientNat, QuotientBounds
<1>4. quoteOf(a, p) = x \div WAD
  BY <1>2 DEF quoteOf
<1>5. QED  BY <1>2, <1>3, <1>4

\* What the sums of the plan come from.
LEMMA SidesHeld ==
  ASSUME NEW j \in CrossJobs, NEW p \in Nat \ {0}
  PROVE  /\ IsFiniteSet(BuysAt(j, p)) /\ IsFiniteSet(SellsAt(j, p))
         /\ \A e \in BuysAt(j, p) \cup SellsAt(j, p) :
              /\ e \in j.book /\ e.sellAmount \in Nat /\ e.id \in Nat
              /\ participating(e, j.ref, j.rooExcluded) /\ acceptsPrice(e, p, j.ref)
         /\ \A e \in BuysAt(j, p) : e.buy = TRUE
         /\ \A e \in SellsAt(j, p) : e.buy = FALSE
         /\ boughtAt(BuysAt(j, p), p) = demand(j.book, p, j.ref, j.rooExcluded)
         /\ Held(SellsAt(j, p)) = supply(j.book, p, j.ref, j.rooExcluded)
         /\ Held(Takers(j.book, FALSE, p, j.ref, j.rooExcluded)) = supply(j.book, p, j.ref, j.rooExcluded)
<1> DEFINE B == Takers(j.book, TRUE, p, j.ref, j.rooExcluded)
           T == Takers(j.book, FALSE, p, j.ref, j.rooExcluded)
           buys  == BuysAt(j, p)
           sells == SellsAt(j, p)
<1>1. IsFiniteSet(j.book) /\ \A e \in j.book : e.sellAmount \in Nat /\ e.id \in Nat
  BY JobHolds DEF BookHolds
<1>2. /\ B \subseteq j.book /\ T \subseteq j.book
      /\ \A e \in B : e.buy = TRUE /\ participating(e, j.ref, j.rooExcluded) /\ acceptsPrice(e, p, j.ref)
      /\ \A e \in T : e.buy = FALSE /\ participating(e, j.ref, j.rooExcluded) /\ acceptsPrice(e, p, j.ref)
  BY DEF Takers
<1>3. /\ buys \subseteq B /\ sells \subseteq T
      /\ \A e \in B : e \notin buys => ~(tokenOf(e.sellAmount, p) > 0)
      /\ \A e \in T : e \notin sells => ~(e.sellAmount > 0)
  BY DEF BuysAt, SellsAt
<1> HIDE DEF B, T, buys, sells
<1>4. IsFiniteSet(B) /\ IsFiniteSet(T) /\ IsFiniteSet(buys) /\ IsFiniteSet(sells)
  <2>1. buys \subseteq j.book /\ sells \subseteq j.book
    BY <1>2, <1>3
  <2>2. QED  BY <1>1, <1>2, <2>1, FS_Subset
<1>5. boughtAt(buys, p) = demand(j.book, p, j.ref, j.rooExcluded)
  <2> DEFINE g == [e \in j.book |-> tokenOf(e.sellAmount, p)]
             f == [e \in buys |-> tokenOf(e.sellAmount, p)]
  <2>1. \A e \in j.book : tokenOf(e.sellAmount, p) \in Nat
    BY <1>1, TokenBounds
  <2>2. \A e \in B : g[e] = tokenOf(e.sellAmount, p) /\ g[e] \in Nat
    BY <1>2, <2>1
  <2>3. \A e \in buys : f[e] \in Int /\ g[e] = f[e]
    BY <1>3, <2>2
  <2>4. \A e \in B : e \notin buys => g[e] = 0
    <3>1. ASSUME NEW e \in B, e \notin buys PROVE g[e] = 0
      <4>1. g[e] \in Nat /\ ~(g[e] > 0)
        BY <1>3, <2>2, <3>1
      <4>2. QED  BY <4>1
    <3>2. QED  BY <3>1
  <2>5. boughtAt(buys, p) = SumFunctionOnSet(f, buys)
    BY DEF boughtAt
  <2>6. demand(j.book, p, j.ref, j.rooExcluded) = SumFunctionOnSet(g, B)
    BY DEF demand, B
  <2> HIDE DEF f, g
  <2>7. SumFunctionOnSet(g, B) = SumFunctionOnSet(f, buys)
    BY <1>3, <1>4, <2>3, <2>4, SumRestrict
  <2>8. QED  BY <2>5, <2>6, <2>7
<1>6. Held(T) = supply(j.book, p, j.ref, j.rooExcluded)
  <2> DEFINE g == [e \in j.book |-> e.sellAmount]
             f == [e \in T |-> e.sellAmount]
  <2>1. \A e \in T : g[e] = f[e]
    BY <1>2
  <2>2. Held(T) = SumFunctionOnSet(f, T)
    BY DEF Held
  <2>3. supply(j.book, p, j.ref, j.rooExcluded) = SumFunctionOnSet(g, T)
    BY DEF supply, T
  <2> HIDE DEF f, g
  <2>4. SumFunctionOnSet(g, T) = SumFunctionOnSet(f, T)
    BY <1>4, <2>1, SumSame
  <2>5. QED  BY <2>2, <2>3, <2>4
<1>7. Held(sells) = Held(T)
  <2> DEFINE g == [e \in T |-> e.sellAmount]
             f == [e \in sells |-> e.sellAmount]
  <2>1. \A e \in T : g[e] = e.sellAmount /\ g[e] \in Nat
    BY <1>1, <1>2
  <2>2. \A e \in sells : f[e] \in Int /\ g[e] = f[e]
    BY <1>3, <2>1
  <2>3. \A e \in T : e \notin sells => g[e] = 0
    <3>1. ASSUME NEW e \in T, e \notin sells PROVE g[e] = 0
      <4>1. g[e] \in Nat /\ ~(g[e] > 0)
        BY <1>3, <2>1, <3>1
      <4>2. QED  BY <4>1
    <3>2. QED  BY <3>1
  <2>4. Held(sells) = SumFunctionOnSet(f, sells) /\ Held(T) = SumFunctionOnSet(g, T)
    BY DEF Held
  <2> HIDE DEF f, g
  <2>5. SumFunctionOnSet(g, T) = SumFunctionOnSet(f, sells)
    BY <1>3, <1>4, <2>2, <2>3, SumRestrict
  <2>6. QED  BY <2>4, <2>5
<1>8. \A e \in buys \cup sells : e \in j.book
  BY <1>2, <1>3
<1>9. \A e \in buys : e.buy = TRUE /\ participating(e, j.ref, j.rooExcluded) /\ acceptsPrice(e, p, j.ref)
  BY <1>2, <1>3
<1>10. \A e \in sells : e.buy = FALSE /\ participating(e, j.ref, j.rooExcluded) /\ acceptsPrice(e, p, j.ref)
  BY <1>2, <1>3
<1>11. QED  BY <1>1, <1>4, <1>5, <1>6, <1>7, <1>8, <1>9, <1>10 DEF buys, sells, T

\* What the plan fills satisfies the planner's own check and the contract's, and
\* no seller gives a unit more than the pro rata share.
LEMMA PlanTaken ==
  ASSUME NEW j \in CrossJobs, NEW p \in Nat \ {0}, NEW plan, plan = attemptedAt(j, p), plan.ok, short(j, p)
  PROVE  /\ placesAll(plan) /\ checkCross(j, plan.price, plan.fill)
         /\ ShareOfUnit(plan, Takers(j.book, FALSE, plan.price, j.ref, j.rooExcluded))
<1> DEFINE B == BuysAt(j, p)
           S == SellsAt(j, p)
           t == boughtAt(B, p)
           A == Held(S)
           x == split(S, t, A)
           fill == placed(B, x)
           got == GotAt(fill, p)
           P == {s \in S : x[s] > 0}
<1>1. /\ IsFiniteSet(B) /\ IsFiniteSet(S)
      /\ \A e \in B \cup S : /\ e \in j.book /\ e.sellAmount \in Nat /\ e.id \in Nat
                             /\ participating(e, j.ref, j.rooExcluded) /\ acceptsPrice(e, p, j.ref)
      /\ \A e \in B : e.buy = TRUE
      /\ \A e \in S : e.buy = FALSE
      /\ t = demand(j.book, p, j.ref, j.rooExcluded)
      /\ A = supply(j.book, p, j.ref, j.rooExcluded)
      /\ Held(Takers(j.book, FALSE, p, j.ref, j.rooExcluded)) = A
  <2>1. /\ IsFiniteSet(BuysAt(j, p)) /\ IsFiniteSet(SellsAt(j, p))
        /\ \A e \in BuysAt(j, p) \cup SellsAt(j, p) :
             /\ e \in j.book /\ e.sellAmount \in Nat /\ e.id \in Nat
             /\ participating(e, j.ref, j.rooExcluded) /\ acceptsPrice(e, p, j.ref)
        /\ \A e \in BuysAt(j, p) : e.buy = TRUE
        /\ \A e \in SellsAt(j, p) : e.buy = FALSE
        /\ boughtAt(BuysAt(j, p), p) = demand(j.book, p, j.ref, j.rooExcluded)
        /\ Held(SellsAt(j, p)) = supply(j.book, p, j.ref, j.rooExcluded)
        /\ Held(Takers(j.book, FALSE, p, j.ref, j.rooExcluded)) = supply(j.book, p, j.ref, j.rooExcluded)
    BY SidesHeld
  <2>2. QED  BY <2>1
<1>2. plan = attemptedFor(p, B, S, t)
  <2>1. p # -1
    OBVIOUS
  <2>2. QED  BY <2>1 DEF attemptedAt, BuysAt, SellsAt
<1>3. t # 0 /\ ~(A < t) /\ plan = [ok |-> TRUE, price |-> p, fill |-> fill]
  <2> HIDE DEF B, S, t
  <2>1. CASE t = 0 \/ A < t
    <3>1. plan = NoPlan
      BY <1>2, <2>1 DEF attemptedFor
    <3>2. QED  BY <3>1 DEF NoPlan
  <2>2. CASE ~(t = 0 \/ A < t)
    <3>1. plan = [ok |-> TRUE, price |-> p, fill |-> fill]
      BY <1>2, <2>2 DEF attemptedFor
    <3>2. QED  BY <2>2, <3>1
  <2>3. QED  BY <2>1, <2>2
<1>4. t \in Nat \ {0} /\ A \in Nat /\ t <= A
  <2>1. BookHolds(j.book) /\ j.ref \in Nat
    BY JobHolds
  <2>2. demand(j.book, p, j.ref, j.rooExcluded) \in Nat /\ supply(j.book, p, j.ref, j.rooExcluded) \in Nat
    BY <2>1, SidesMove
  <2> HIDE DEF t, A
  <2>3. QED  BY <1>1, <1>3, <2>2
<1> HIDE DEF B, S, t
<1>5. /\ x = [e \in S |-> x[e]]
      /\ \A e \in S : x[e] \in Nat /\ x[e] <= e.sellAmount /\ (x[e] - 1) * A < e.sellAmount * t
      /\ SumFunctionOnSet(x, S) = t
  <2>1. \A e \in S : e.sellAmount \in Nat /\ e.id \in Nat
    BY <1>1
  <2>2. \A d, e \in S : d.id = e.id => d = e
    BY <1>1, JobHolds DEF BookHolds
  <2>3. t <= Held(S) /\ t \in Nat \ {0}
    BY <1>4
  <2>4. PICK y : y = split(S, t, Held(S))
    OBVIOUS
  <2>5. /\ y = [e \in S |-> y[e]]
        /\ \A e \in S : y[e] \in Nat /\ y[e] <= e.sellAmount /\ (y[e] - 1) * Held(S) < e.sellAmount * t
        /\ SumFunctionOnSet(y, S) = t
    BY <1>1, <2>1, <2>2, <2>3, <2>4, SplitExact
  <2>6. x = y
    BY <2>4
  <2> HIDE DEF x
  <2>7. QED  BY <2>5, <2>6
<1> HIDE DEF A, x
<1>6. /\ DOMAIN fill = B \cup P
      /\ \A e \in B : fill[e] = e.sellAmount
      /\ \A e \in P : fill[e] = x[e]
      /\ {e \in B \cup P : e.buy = TRUE} = B /\ {e \in B \cup P : e.buy = FALSE} = P
      /\ {e \in B \cup P : ~e.buy} = P
  <2>1. DOMAIN x = S
    BY <1>5
  <2>2. fill = [e \in B \cup P |-> IF e.buy THEN e.sellAmount ELSE x[e]]
    BY <2>1 DEF placed
  <2>3. P \subseteq S
    OBVIOUS
  <2> HIDE DEF P, fill
  <2>4. (\A e \in B : e.buy = TRUE) /\ (\A e \in P : e.buy = FALSE)
    BY <1>1, <2>3
  <2>5. DOMAIN fill = B \cup P /\ (\A e \in B : fill[e] = e.sellAmount) /\ \A e \in P : fill[e] = x[e]
    BY <2>2, <2>4
  <2>6. {e \in B \cup P : e.buy = TRUE} = B /\ {e \in B \cup P : e.buy = FALSE} = P /\ {e \in B \cup P : ~e.buy} = P
    BY <2>4
  <2>7. QED  BY <2>5, <2>6
<1>7. P \subseteq S /\ IsFiniteSet(P)
  BY <1>1, FS_Subset
<1>8. \A e \in S : e \notin P => x[e] = 0
  <2>1. ASSUME NEW e \in S, e \notin P PROVE x[e] = 0
    <3>1. x[e] \in Nat /\ ~(x[e] > 0)
      BY <1>5, <2>1
    <3>2. QED  BY <3>1
  <2>2. QED  BY <2>1
<1> HIDE DEF fill, P
<1>9. DOMAIN got = B \cup P /\ \A e \in B \cup P : got[e] = boughtFor(e, fill[e], p)
  BY <1>6 DEF GotAt
<1> HIDE DEF got
<1>10. \A e \in B : got[e] = tokenOf(e.sellAmount, p)
  BY <1>1, <1>6, <1>9 DEF boughtFor
<1>11. \A e \in P : got[e] = quoteOf(x[e], p)
  BY <1>1, <1>6, <1>7, <1>9 DEF boughtFor
<1>12. /\ FillTotal(fill, TRUE) = SumFunctionOnSet(fill, B) /\ FillTotal(fill, FALSE) = SumFunctionOnSet(fill, P)
       /\ FillTotal(got, TRUE) = SumFunctionOnSet(got, B) /\ FillTotal(got, FALSE) = SumFunctionOnSet(got, P)
  BY <1>6, <1>9 DEF FillTotal
\* The sellers give the whole target.
<1>13. FillTotal(fill, FALSE) = t
  <2>1. \A e \in P : fill[e] \in Int /\ x[e] = fill[e]
    BY <1>5, <1>6, <1>7
  <2>2. SumFunctionOnSet(x, S) = SumFunctionOnSet(fill, P)
    BY <1>1, <1>7, <1>8, <2>1, SumRestrict
  <2>3. QED  BY <1>5, <1>12, <2>2
\* The buyers receive the whole target.
<1>14. FillTotal(got, TRUE) = t
  <2> DEFINE f == [e \in B |-> tokenOf(e.sellAmount, p)]
  <2>1. \A e \in B : got[e] = f[e]
    BY <1>10
  <2>2. t = SumFunctionOnSet(f, B)
    BY DEF t, boughtAt
  <2> HIDE DEF f
  <2>3. SumFunctionOnSet(got, B) = SumFunctionOnSet(f, B)
    BY <1>1, <2>1, SumSame
  <2>4. QED  BY <1>12, <2>2, <2>3
\* The buyers' quote covers what the sellers receive.
<1>15. FillTotal(fill, TRUE) >= FillTotal(got, FALSE)
  <2> DEFINE Wq == [e \in P |-> WAD * got[e]]
             px == [e \in P |-> p * fill[e]]
             pt == [e \in B |-> p * got[e]]
             Wa == [e \in B |-> WAD * fill[e]]
  <2>1. WAD \in Nat \ {0}
    BY ScaleAssumption
  <2>2. \A e \in P : got[e] \in Int /\ fill[e] \in Int /\ Wq[e] \in Int /\ px[e] \in Int /\ Wq[e] <= px[e] /\ Wq[e] = WAD * got[e] /\ px[e] = p * fill[e]
    <3>1. ASSUME NEW e \in P
          PROVE  got[e] \in Int /\ fill[e] \in Int /\ WAD * got[e] \in Int /\ p * fill[e] \in Int /\ WAD * got[e] <= p * fill[e]
      <4>1. PICK a \in Nat : a = x[e] /\ a = fill[e]
        BY <1>5, <1>6, <1>7
      <4>2. PICK q : q = quoteOf(a, p)
        OBVIOUS
      <4>3. q \in Nat /\ WAD * q <= p * a
        BY <4>2, QuoteBounds
      <4>4. WAD * q \in Int /\ p * a \in Int
        BY <2>1, <4>3, Z3
      <4>5. got[e] = q /\ fill[e] = a
        BY <1>11, <4>1, <4>2
      <4>6. QED  BY <4>3, <4>4, <4>5
    <3>2. QED  BY <3>1
  <2>3. \A e \in B : got[e] \in Int /\ fill[e] \in Int /\ pt[e] \in Int /\ Wa[e] \in Int /\ pt[e] <= Wa[e] /\ pt[e] = p * got[e] /\ Wa[e] = WAD * fill[e]
    <3>1. ASSUME NEW e \in B
          PROVE  got[e] \in Int /\ fill[e] \in Int /\ p * got[e] \in Int /\ WAD * fill[e] \in Int /\ p * got[e] <= WAD * fill[e]
      <4>1. PICK a \in Nat : a = e.sellAmount /\ a = fill[e]
        BY <1>1, <1>6
      <4>2. PICK q : q = tokenOf(a, p)
        OBVIOUS
      <4>3. q \in Nat /\ p * q <= WAD * a
        BY <4>2, TokenBounds
      <4>4. p * q \in Int /\ WAD * a \in Int
        BY <2>1, <4>3, Z3
      <4>5. got[e] = q /\ fill[e] = a
        BY <1>10, <4>1, <4>2
      <4>6. QED  BY <4>3, <4>4, <4>5
    <3>2. QED  BY <3>1
  <2> HIDE DEF Wq, px, pt, Wa
  <2>4. SumFunctionOnSet(Wq, P) = WAD * SumFunctionOnSet(got, P) /\ SumFunctionOnSet(px, P) = p * SumFunctionOnSet(fill, P)
    <3>1. WAD \in Int /\ p \in Int
      BY <2>1
    <3>2. QED  BY <1>7, <2>2, <3>1, SumScale
  <2>5. SumFunctionOnSet(pt, B) = p * SumFunctionOnSet(got, B) /\ SumFunctionOnSet(Wa, B) = WAD * SumFunctionOnSet(fill, B)
    <3>1. WAD \in Int /\ p \in Int
      BY <2>1
    <3>2. QED  BY <1>1, <2>3, <3>1, SumScale
  <2>6. SumFunctionOnSet(Wq, P) <= SumFunctionOnSet(px, P) /\ SumFunctionOnSet(pt, B) <= SumFunctionOnSet(Wa, B)
    <3>1. SumFunctionOnSet(Wq, P) <= SumFunctionOnSet(px, P)
      BY <1>7, <2>2, SumMonotone
    <3>2. SumFunctionOnSet(pt, B) <= SumFunctionOnSet(Wa, B)
      BY <1>1, <2>3, SumMonotone
    <3>3. QED  BY <3>1, <3>2
  <2>7. SumFunctionOnSet(got, P) \in Int /\ SumFunctionOnSet(fill, B) \in Int
    BY <1>1, <1>7, <2>2, <2>3, SumInt
  <2>8. SumFunctionOnSet(fill, P) = t /\ SumFunctionOnSet(got, B) = t
    BY <1>12, <1>13, <1>14
  <2>9. PICK u \in Int, v \in Int : u = SumFunctionOnSet(got, P) /\ v = SumFunctionOnSet(fill, B)
    BY <2>7
  <2>10. WAD * u <= p * t /\ p * t <= WAD * v
    BY <2>4, <2>5, <2>6, <2>8, <2>9
  <2>11. u <= v
    <3>1. p * t \in Int /\ WAD * u \in Int /\ WAD * v \in Int
      BY <1>4, <2>1, Z3
    <3>2. WAD * u <= WAD * v
      BY <2>10, <3>1
    <3>3. QED  BY <2>1, <3>2, Z3
  <2>12. QED  BY <1>12, <2>9, <2>11
<1>16. \A e \in B \cup P : /\ participating(e, j.ref, j.rooExcluded) /\ acceptsPrice(e, p, j.ref)
                           /\ fill[e] <= e.sellAmount
  BY <1>1, <1>5, <1>6, <1>7
<1>17. matched(j.book, p, j.ref, j.rooExcluded) = t
  <2>1. matched(j.book, p, j.ref, j.rooExcluded) = IF t < A THEN t ELSE A
    BY <1>1 DEF matched
  <2>2. QED  BY <1>4, <2>1
<1>18. Cardinality(B \cup P) \in Nat
  BY <1>1, <1>7, FS_Union, FS_CardinalityType
<1>19. plan.price = p /\ plan.fill = fill
  BY <1>3
<1>20. placesAll(plan)
  <2>1. got = [e \in DOMAIN plan.fill |-> boughtFor(e, plan.fill[e], plan.price)]
    BY <1>19 DEF got, GotAt
  <2>2. QED  BY <1>13, <1>14, <1>19, <2>1 DEF placesAll
<1>21. checkCross(j, p, fill)
  <2>1. got = [e \in DOMAIN fill |-> boughtFor(e, fill[e], p)]
    BY DEF got, GotAt
  <2>2. /\ FillTotal(fill, FALSE) >= FillTotal(got, TRUE)
        /\ FillTotal(fill, TRUE) >= FillTotal(got, FALSE)
        /\ matched(j.book, p, j.ref, j.rooExcluded) # 0
        /\ FillTotal(got, TRUE) + Cardinality(DOMAIN fill) >= matched(j.book, p, j.ref, j.rooExcluded)
    <3>1. DOMAIN fill = B \cup P
      BY <1>6
    <3>2. t <= t + Cardinality(B \cup P) /\ t <= t /\ t # 0
      BY <1>4, <1>18
    <3>3. QED  BY <1>13, <1>14, <1>15, <1>17, <3>1, <3>2
  <2>3. QED  BY <1>6, <1>16, <2>1, <2>2 DEF checkCross
<1>22. ShareOfUnit(plan, Takers(j.book, FALSE, plan.price, j.ref, j.rooExcluded))
  <2>1. \A e \in P : (fill[e] - 1) * A < e.sellAmount * t
    BY <1>5, <1>6, <1>7
  <2>2. {s \in DOMAIN plan.fill : ~s.buy} = P
    BY <1>6, <1>19
  <2>3. QED  BY <1>1, <1>13, <1>19, <2>1, <2>2 DEF ShareOfUnit
<1>23. QED  BY <1>19, <1>20, <1>21, <1>22

----------------------------------------------------------------------------
(* The auction's planner: the whole of it.                                 *)

\* The search starts above zero, whatever the collar.
LEMMA SearchStarts ==
  ASSUME NEW j \in CrossJobs, NEW edge, edge = collar(j.ref, j.collarBps)
  PROVE  edge.high \in Nat /\ searchFrom(j, edge) \in Nat \ {0}
<1>1. j.ref \in Nat /\ j.collarBps \in Nat /\ j.preferred \in Nat /\ (j.preferred > 0 \/ edge.low > 0)
  BY JobHolds
<1>2. BPS \in Nat \ {0}
  BY ScaleAssumption
<1>3. PICK r \in Nat, c \in Nat : r = j.ref /\ c = j.collarBps
  BY <1>1
<1>4. r * (BPS - c) \in Int /\ r * (BPS + c) \in Nat
  BY <1>2, Z3
<1>5. (r * (BPS - c)) \div BPS \in Int /\ (r * (BPS + c)) \div BPS \in Nat
  BY <1>2, <1>4, QuotientInt, QuotientNat
<1>6. edge.low = (r * (BPS - c)) \div BPS /\ edge.high = (r * (BPS + c)) \div BPS
  BY <1>3 DEF collar
<1>7. edge.low \in Int /\ edge.high \in Nat
  BY <1>5, <1>6
<1>8. QED  BY <1>1, <1>7 DEF searchFrom

\* The prices of the collar that are short.
Shorts(j, edge) == {p \in searchFrom(j, edge)..edge.high : short(j, p)}

\* The search returns the smallest of them, and null when there is none.
LEMMA SmallestFound ==
  ASSUME NEW j \in CrossJobs, NEW edge, edge = collar(j.ref, j.collarBps)
  PROVE  /\ planPrice(j, edge) = IF Shorts(j, edge) = {} THEN -1 ELSE Min(Shorts(j, edge))
         /\ planPrice(j, edge) # -1 => planPrice(j, edge) \in Nat \ {0} /\ short(j, planPrice(j, edge))
<1> DEFINE lo == searchFrom(j, edge)
           hi == edge.high
           K  == Shorts(j, edge)
           E  == EndsAt(j, lo, hi)
<1>1. lo \in Nat \ {0} /\ hi \in Nat
  BY SearchStarts
<1>2. K = {p \in lo..hi : short(j, p)} /\ E = {p \in lo..hi : short(j, p) \/ p = hi}
  BY DEF Shorts, EndsAt
<1>3. planPrice(j, edge) = balancingPrice(j, lo, hi)
  BY DEF planPrice
<1> HIDE DEF lo, hi, K, E
<1>4. CASE lo > hi \/ ~short(j, hi)
  <2>1. balancingPrice(j, lo, hi) = -1
    BY <1>4 DEF balancingPrice
  <2>2. K = {}
    <3>1. ASSUME NEW p \in lo..hi, short(j, p) PROVE FALSE
      <4>1. p \in Nat \ {0} /\ hi \in Nat \ {0} /\ p <= hi /\ lo <= hi
        BY <1>1
      <4>2. short(j, hi)
        BY <3>1, <4>1, ShortStays
      <4>3. QED  BY <1>1, <1>4, <4>1, <4>2
    <3>2. QED  BY <1>2, <3>1
  <2>3. QED  BY <1>3, <2>1, <2>2 DEF K
<1>5. CASE lo <= hi /\ short(j, hi)
  <2>1. E = K /\ hi \in K
    BY <1>1, <1>2, <1>5
  <2>2. /\ Min(E) \in E /\ \A p \in E : Min(E) <= p
        /\ \A m \in E : (\A p \in E : m <= p) => m = Min(E)
    BY <1>1, <1>5, EndFound DEF E
  <2>3. balancingPrice(j, lo, hi) = ShortFrom(j, lo, hi)
    BY <1>1, <1>5, PriceFound
  <2>4. ShortFrom(j, lo, hi) = Min(E)
    <3>1. CASE lo >= hi
      <4>1. lo = hi
        BY <1>1, <1>5, <3>1
      <4>2. lo \in E /\ \A p \in E : lo <= p
        BY <1>1, <1>2, <2>1, <4>1
      <4>3. lo = Min(E)
        BY <2>2, <4>2
      <4>4. QED  BY <3>1, <4>3 DEF ShortFrom
    <3>2. CASE ~(lo >= hi)
      BY <3>2 DEF ShortFrom, E
    <3>3. QED  BY <3>1, <3>2
  <2>5. Min(K) \in Nat \ {0} /\ short(j, Min(K)) /\ K # {}
    BY <1>1, <1>2, <2>1, <2>2
  <2>6. planPrice(j, edge) = Min(K)
    BY <1>3, <2>1, <2>3, <2>4
  <2>7. QED  BY <2>5, <2>6 DEF K
<1>6. QED  BY <1>1, <1>4, <1>5

\* A plan is what the check is given, and the check returns it.
LEMMA PlanReturned ==
  ASSUME NEW j \in CrossJobs, NEW plan, plan = attempted(j), plan.ok
  PROVE  /\ plannedCross(j) = plan
         /\ ShareOfUnit(plan, Takers(j.book, FALSE, plan.price, j.ref, j.rooExcluded))
         /\ applyCross(j, plan.price, plan.fill) <=> ContractReads(j, plan)
<1>1. PICK edge : edge = collar(j.ref, j.collarBps)
  OBVIOUS
<1>2. PICK p : p = planPrice(j, edge)
  OBVIOUS
<1>3. plan = attemptedAt(j, p)
  BY <1>1, <1>2 DEF attempted
<1>4. p # -1
  <2>1. ASSUME p = -1 PROVE FALSE
    <3>1. plan = NoPlan
      BY <1>3, <2>1 DEF attemptedAt
    <3>2. QED  BY <3>1 DEF NoPlan
  <2>2. QED  BY <2>1
<1>5. p \in Nat \ {0} /\ short(j, p)
  BY <1>1, <1>2, <1>4, SmallestFound
<1>6. /\ placesAll(plan) /\ checkCross(j, plan.price, plan.fill)
      /\ ShareOfUnit(plan, Takers(j.book, FALSE, plan.price, j.ref, j.rooExcluded))
  BY <1>3, <1>5, PlanTaken
<1>7. plannedCross(j) = plan
  BY <1>6 DEF plannedCross, checked
<1>8. applyCross(j, plan.price, plan.fill) <=> ContractReads(j, plan)
  BY <1>6 DEF applyCross, ContractReads
<1>9. QED  BY <1>6, <1>7, <1>8

CrossBuilt == crossDone = <<>> \/ \E j \in CrossJobs : crossDone = <<j, plannedCross(j)>>

\* For every book, collar and starting price, the planner's binary search ends at
\* the smallest price of the collar where demand does not exceed supply, and
\* whenever a plan is attempted there, every unit of it finds a seller, no seller
\* gives a unit more than the pro rata share, and _applyCross takes it unless it
\* has more executions than that takes or a seller in the book asks for a
\* deviation above the whole (balancingPrice, planCross, _applyCross).
THEOREM PlansAlwaysBuild == CrossSpec => []PlanAlwaysBuilds
<1>1. CrossInit => CrossBuilt
  BY DEF CrossInit, CrossBuilt
<1>2. ASSUME CrossBuilt, [planCross]_crossDone PROVE CrossBuilt'
  <2>1. CASE planCross
    <3>1. PICK j \in CrossJobs : crossDone' = <<j, plannedCross(j)>>
      BY <2>1 DEF planCross
    <3>2. QED  BY <3>1 DEF CrossBuilt
  <2>2. CASE UNCHANGED crossDone
    BY <1>2, <2>2 DEF CrossBuilt
  <2>3. QED  BY <1>2, <2>1, <2>2
<1>3. ASSUME CrossBuilt PROVE PlanAlwaysBuilds
  <2>1. ASSUME NEW d \in {crossDone} \ {<<>>}
        PROVE  \E j \in CrossJobs : d[1] = j /\ d[2] = plannedCross(j)
    BY <1>3 DEF CrossBuilt
  <2>2. BalancingPriceSmallest
    <3>1. ASSUME NEW d \in {crossDone} \ {<<>>}, NEW edge, edge = collar(d[1].ref, d[1].collarBps),
                 NEW good, good = {p \in searchFrom(d[1], edge)..edge.high : short(d[1], p)}
          PROVE  planPrice(d[1], edge) = (IF good = {} THEN -1 ELSE Min(good))
      <4>1. PICK j \in CrossJobs : d[1] = j
        BY <2>1
      <4>2. good = Shorts(j, edge)
        BY <3>1, <4>1 DEF Shorts
      <4>3. planPrice(j, edge) = IF Shorts(j, edge) = {} THEN -1 ELSE Min(Shorts(j, edge))
        BY <3>1, <4>1, SmallestFound
      <4>4. QED  BY <4>1, <4>2, <4>3
    <3>2. QED  BY <3>1 DEF BalancingPriceSmallest
  <2>3. ASSUME NEW d \in {crossDone} \ {<<>>}, NEW plan, plan = attempted(d[1]), plan.ok
        PROVE  /\ d[2] = plan
               /\ applyCross(d[1], plan.price, plan.fill) <=> ContractReads(d[1], plan)
               /\ ShareOfUnit(plan, Takers(d[1].book, FALSE, plan.price, d[1].ref, d[1].rooExcluded))
    <3>1. PICK j \in CrossJobs : d[1] = j /\ d[2] = plannedCross(j)
      BY <2>1
    <3>2. QED  BY <2>3, <3>1, PlanReturned
  <2>4. QED  BY <2>2, <2>3 DEF PlanAlwaysBuilds
<1>4. QED  BY <1>1, <1>2, <1>3, PTL DEF CrossSpec
=============================================================================
