-------------------------- MODULE MilanFrame_proofs --------------------------
(***************************************************************************)
(* Proofs about MilanFrame, for every length a header can announce, every  *)
(* payload and every flipped byte.                                         *)
(***************************************************************************)
EXTENDS MilanFrame, WellFoundedInduction, TLAPS

-----------------------------------------------------------------------------
(* Arithmetic modulo 256.                                                  *)

LEMMA DivMod ==
  ASSUME NEW a \in Nat
  PROVE  /\ a % 256 \in Nat /\ a % 256 <= 255
         /\ a \div 256 \in Nat
         /\ a = 256 * (a \div 256) + (a % 256)
  BY SMT

\* Numbers less than 256 apart have different residues.
LEMMA Residue ==
  ASSUME NEW a \in Nat, NEW b \in Nat, a # b, a - b <= 255, b - a <= 255
  PROVE  (a % 256) # (b % 256)
<1>1. ASSUME NEW p \in Nat, NEW q \in Nat, NEW r \in Nat,
             a = 256 * p + r, b = 256 * q + r
      PROVE  FALSE
  BY SMT, <1>1
<1>2. QED
  BY SMT, <1>1, DivMod

\* The two length bytes make up the length again.
LEMMA Split ==
  ASSUME NEW len \in Nat, len <= 65535
  PROVE  Lo(len) \in Byte /\ Hi(len) \in Byte /\ Lo(len) + 256 * Hi(len) = len
<1>1. ASSUME NEW q \in Nat, NEW r \in Nat, r <= 255, len = 256 * q + r
      PROVE  q <= 255
  BY SMT, <1>1
<1>2. len \div 256 \in Nat /\ len \div 256 <= 255
  BY SMT, <1>1, DivMod
<1>3. Hi(len) = len \div 256
  BY SMT, <1>2 DEF Hi
<1>4. QED
  BY SMT, <1>2, <1>3, DivMod DEF Lo, Byte

LEMMA Bytes ==
  ASSUME NEW x \in Byte
  PROVE  x \in Nat /\ x <= 255
  BY SMT DEF Byte

-----------------------------------------------------------------------------
(* The header.                                                             *)

\* A header announces the length it was made for, to every receiver.
LEMMA HeaderRoundTrip ==
  ASSUME NEW type \in {Msg, Tls}, NEW len \in Nat, len <= 65535
  PROVE  /\ Header(type, len) \in [1..4 -> Byte]
         /\ SumOK(Header(type, len))
         /\ CheckHeader(Header(type, len)) = len
         /\ HeaderOK(Header(type, len)) = len
<1> DEFINE h0 == (type * 16) % 256
           s  == h0 + Hi(len) + Lo(len)
           h  == Header(type, len)
<1>1. h = <<h0, Lo(len), Hi(len), s % 256>>
  BY SMT DEF Header
<1>2. h0 \in Byte /\ h0 \div 16 = type
  BY SMT DEF Msg, Tls, Byte
<1>3. Lo(len) \in Byte /\ Hi(len) \in Byte /\ Lo(len) + 256 * Hi(len) = len
  BY SMT, Split
<1>4. s % 256 \in Byte
  <2>1. s \in Nat
    BY SMT, <1>2, <1>3, Bytes
  <2>2. QED
    BY SMT, <2>1, DivMod DEF Byte
<1> HIDE DEF h0, s, h
<1>5. h \in [1..4 -> Byte]
  BY SMT, <1>1, <1>2, <1>3, <1>4
<1>6. h[1] = h0 /\ h[2] = Lo(len) /\ h[3] = Hi(len) /\ h[4] = s % 256
  BY SMT, <1>1
<1>7. SumOK(h)
  BY SMT, <1>6 DEF SumOK, s
<1>8. Length(h) = len /\ (h[1] \div 16) \in {Msg, Tls}
  BY SMT, <1>2, <1>3, <1>6 DEF Length
<1>9. CheckHeader(h) = len /\ HeaderOK(h) = len
  BY SMT, <1>7, <1>8 DEF CheckHeader, HeaderOK
<1>10. QED
  BY SMT, <1>5, <1>7, <1>9 DEF h

\* One wrong byte spoils the sum, whichever byte it is.
LEMMA OneByteSpoils ==
  ASSUME NEW h \in [1..4 -> Byte], SumOK(h),
         NEW k \in 1..4, NEW x \in Byte, x # h[k]
  PROVE  ~SumOK([h EXCEPT ![k] = x])
<1> DEFINE g == [h EXCEPT ![k] = x]
<1>1. /\ h[1] \in Nat /\ h[2] \in Nat /\ h[3] \in Nat /\ h[4] \in Nat /\ x \in Nat
      /\ h[1] <= 255 /\ h[2] <= 255 /\ h[3] <= 255 /\ x <= 255
  BY SMT, Bytes
<1>2. h[4] = ((h[1] + h[3] + h[2]) % 256)
  BY SMT DEF SumOK
<1>3. CASE k = 1
  <2>1. ((x + h[3] + h[2]) % 256) # ((h[1] + h[3] + h[2]) % 256)
    BY SMT, <1>1, <1>3, Residue
  <2>2. g[1] = x /\ g[2] = h[2] /\ g[3] = h[3] /\ g[4] = h[4]
    BY SMT, <1>3
  <2>3. QED
    BY SMT, <1>2, <2>1, <2>2 DEF SumOK
<1>4. CASE k = 2
  <2>1. ((h[1] + h[3] + x) % 256) # ((h[1] + h[3] + h[2]) % 256)
    BY SMT, <1>1, <1>4, Residue
  <2>2. g[1] = h[1] /\ g[2] = x /\ g[3] = h[3] /\ g[4] = h[4]
    BY SMT, <1>4
  <2>3. QED
    BY SMT, <1>2, <2>1, <2>2 DEF SumOK
<1>5. CASE k = 3
  <2>1. ((h[1] + x + h[2]) % 256) # ((h[1] + h[3] + h[2]) % 256)
    BY SMT, <1>1, <1>5, Residue
  <2>2. g[1] = h[1] /\ g[2] = h[2] /\ g[3] = x /\ g[4] = h[4]
    BY SMT, <1>5
  <2>3. QED
    BY SMT, <1>2, <2>1, <2>2 DEF SumOK
<1>6. CASE k = 4
  <2>1. g[1] = h[1] /\ g[2] = h[2] /\ g[3] = h[3] /\ g[4] = x
    BY SMT, <1>6
  <2>2. QED
    BY SMT, <1>2, <1>6, <2>1 DEF SumOK
<1>7. QED
  BY SMT, <1>3, <1>4, <1>5, <1>6

-----------------------------------------------------------------------------
(* Totals.  Total adds by halves; that it is the sum of all elements, and   *)
(* what one changed element does to it, is what the checksum rests on.      *)

\* A set of numbers with an element has a least one: what stands in for induction
\* below, where every lemma takes the least place at which it would fail.
LEMMA LeastNumber ==
  ASSUME NEW T \in SUBSET Nat, NEW n \in T
  PROVE  \E x \in T : \A y \in T : x <= y
<1> DEFINE R == {ss \in Nat \X Nat : ss[1] < ss[2]}
<1>1. IsWellFoundedOn(R, Nat)
  BY NatLessThanWellFounded DEF OpToRel
<1>2. ASSUME NEW x \in T, NEW y \in T, y < x
      PROVE  <<y, x>> \in R
  BY <1>2
<1> HIDE DEF R
<1>3. PICK x \in T : \A y \in T : <<y, x>> \notin R
  BY <1>1, WFMin
<1>4. \A y \in T : ~(y < x)
  BY <1>2, <1>3
<1>5. \A y \in T : x \in Nat /\ y \in Nat
  OBVIOUS
<1> QED
  BY <1>4, <1>5

\* The sums of the first elements of s, up to its n-th.
Sums(s, n) ==
  {f \in [0..n -> Nat] : /\ f[0] = 0
                         /\ \A k \in 1..n : f[k] = f[k - 1] + s[k]}

\* Two of them agree as far as both go.
LEMMA SumsAgree ==
  ASSUME NEW s, NEW n \in Nat, NEW m \in Nat, n <= m,
         NEW f \in Sums(s, n), NEW g \in Sums(s, m), NEW k \in 0..n
  PROVE  f[k] = g[k]
<1> DEFINE T == {i \in 0..n : f[i] # g[i]}
<1> SUFFICES ASSUME k \in T PROVE FALSE
  OBVIOUS
<1>1. T \in SUBSET Nat
  OBVIOUS
<1> HIDE DEF T
<1>2. PICK x \in T : \A y \in T : x <= y
  BY <1>1, LeastNumber
<1> USE DEF T
<1>3. x # 0
  BY <1>2 DEF Sums
<1>4. x - 1 \in 0..n /\ ~(x <= x - 1)
  BY <1>3
<1>5. f[x - 1] = g[x - 1]
  BY <1>2, <1>4
<1>6. x \in 1..n /\ x \in 1..m
  BY <1>3
<1> QED
  BY <1>2, <1>5, <1>6 DEF Sums

LEMMA SumsExist ==
  ASSUME NEW s \in Seq(Nat), NEW n \in 0..Len(s)
  PROVE  Sums(s, n) # {}
<1> DEFINE T == {i \in 0..Len(s) : Sums(s, i) = {}}
<1> SUFFICES ASSUME n \in T PROVE FALSE
  OBVIOUS
<1>1. T \in SUBSET Nat
  OBVIOUS
<1> HIDE DEF T
<1>2. PICK x \in T : \A y \in T : x <= y
  BY <1>1, LeastNumber
<1> USE DEF T
<1>3. x # 0
  <2>1. [k \in 0..0 |-> 0] \in Sums(s, 0)
    BY DEF Sums
  <2> QED BY <2>1, <1>2
<1>4. x - 1 \in 0..Len(s) /\ ~(x <= x - 1) /\ x \in 1..Len(s)
  BY <1>3
<1>5. x - 1 \notin T
  BY <1>2, <1>4, <1>1
<1>6. PICK f : f \in Sums(s, x - 1)
  BY <1>4, <1>5
<1> DEFINE g == [k \in 0..x |-> IF k < x THEN f[k] ELSE f[x - 1] + s[x]]
<1>7. f \in [0..(x - 1) -> Nat] /\ f[0] = 0 /\ \A k \in 1..(x - 1) : f[k] = f[k - 1] + s[k]
  BY <1>6 DEF Sums
<1>8. f[x - 1] \in Nat /\ s[x] \in Nat
  BY <1>4, <1>7
<1>9. g \in [0..x -> Nat]
  BY <1>7, <1>8
<1>10. g[0] = 0
  BY <1>7, <1>3
<1>11. ASSUME NEW k \in 1..x PROVE g[k] = g[k - 1] + s[k]
  <2>1. x \in Nat /\ k \in Nat
    BY <1>4
  <2>2. CASE k = x
    BY <1>4, <2>1, <2>2
  <2>3. CASE k < x
    <3>1. k \in 1..(x - 1) /\ k - 1 < x
      BY <2>1, <2>3
    <3>2. f[k] = f[k - 1] + s[k]
      BY <1>7, <3>1
    <3>3. g[k] = f[k] /\ g[k - 1] = f[k - 1]
      BY <2>1, <2>3, <3>1
    <3> QED BY <3>2, <3>3
  <2> QED BY <2>1, <2>2, <2>3
<1>12. g \in Sums(s, x)
  <2> HIDE DEF g
  <2> QED BY <1>9, <1>10, <1>11 DEF Sums
<1> QED
  BY <1>12

LEMMA SumsFacts ==
  ASSUME NEW s \in Seq(Nat), NEW f \in Sums(s, Len(s))
  PROVE  /\ Len(s) \in Nat
         /\ f[0] = 0
         /\ \A k \in 0..Len(s) : f[k] \in Nat
         /\ \A k \in 1..Len(s) : f[k] = f[k - 1] + s[k] /\ s[k] \in Nat
<1>1. Len(s) \in Nat /\ \A k \in 1..Len(s) : s[k] \in Nat
  OBVIOUS
<1>2. f \in [0..Len(s) -> Nat] /\ f[0] = 0
  BY DEF Sums
<1>3. \A k \in 1..Len(s) : f[k] = f[k - 1] + s[k]
  BY DEF Sums
<1> QED BY <1>1, <1>2, <1>3

\* The equation of Total's sum, between the places of s.
Halves(s, sum) ==
  \A a, b \in 0..Len(s) :
    sum[a][b] = IF b <= a THEN 0
                ELSE IF b = a + 1 THEN s[b]
                ELSE sum[a][(a + b) \div 2] + sum[(a + b) \div 2][b]

LEMMA Middle ==
  ASSUME NEW a \in Nat, NEW b \in Nat, a + 1 < b
  PROVE  /\ (a + b) \div 2 \in Nat
         /\ a < (a + b) \div 2
         /\ (a + b) \div 2 < b
OBVIOUS

\* Whatever solves it adds up what lies between two places.
LEMMA HalvesSum ==
  ASSUME NEW s \in Seq(Nat), NEW f \in Sums(s, Len(s)), NEW sum, Halves(s, sum),
         NEW a \in 0..Len(s), NEW b \in 0..Len(s), a <= b
  PROVE  sum[a][b] = f[b] - f[a]
<1> DEFINE Wrong(d) == \E i, j \in 0..Len(s) : i + d = j /\ sum[i][j] # f[j] - f[i]
           T == {d \in Nat : Wrong(d)}
<1>1. /\ Len(s) \in Nat
      /\ \A k \in 0..Len(s) : f[k] \in Nat
      /\ \A k \in 1..Len(s) : f[k] = f[k - 1] + s[k] /\ s[k] \in Nat
  BY SumsFacts
<1> SUFFICES ASSUME b - a \in T PROVE FALSE
  BY <1>1
<1>2. T \in SUBSET Nat
  OBVIOUS
<1> HIDE DEF T
<1>3. PICK d \in T : \A y \in T : d <= y
  BY <1>2, LeastNumber
<1> USE DEF T
<1>4. PICK i \in 0..Len(s), j \in 0..Len(s) : i + d = j /\ sum[i][j] # f[j] - f[i]
  BY <1>3
<1>5. d \in Nat /\ i \in Nat /\ j \in Nat /\ f[i] \in Nat /\ f[j] \in Nat
  BY <1>1, <1>3
<1> HIDE DEF T
<1>6. sum[i][j] = IF j <= i THEN 0
                  ELSE IF j = i + 1 THEN s[j]
                  ELSE sum[i][(i + j) \div 2] + sum[(i + j) \div 2][j]
  BY DEF Halves
<1>7. d # 0
  BY <1>4, <1>5, <1>6
<1>8. j # i + 1
  <2>1. SUFFICES ASSUME j = i + 1 PROVE FALSE
    OBVIOUS
  <2>2. j \in 1..Len(s) /\ j - 1 = i /\ ~(j <= i)
    <3>1. j <= Len(s)
      BY <1>1
    <3> QED BY <2>1, <3>1, <1>1, <1>5
  <2>3. sum[i][j] = s[j] /\ f[j] = f[i] + s[j] /\ s[j] \in Nat
    BY <2>1, <2>2, <1>1, <1>6
  <2>4. f[j] - f[i] = s[j]
    <3>1. f[i] \in Nat /\ s[j] \in Nat /\ f[j] = f[i] + s[j]
      BY <1>5, <2>3
    <3> QED BY <3>1
  <2> QED BY <1>4, <2>3, <2>4
<1>9. i + 1 < j
  BY <1>4, <1>5, <1>7, <1>8
<1> DEFINE m == (i + j) \div 2
<1>10. m \in Nat /\ i < m /\ m < j
  BY <1>5, <1>9, Middle
<1>11. sum[i][j] = sum[i][m] + sum[m][j]
  BY <1>5, <1>6, <1>9
<1> HIDE DEF m
<1>12. m \in 0..Len(s) /\ f[m] \in Nat
  <2>1. Len(s) \in Nat /\ j <= Len(s)
    BY <1>1
  <2>2. m <= Len(s)
    BY <2>1, <1>5, <1>10
  <2>3. m \in 0..Len(s)
    BY <2>1, <2>2, <1>10
  <2> QED BY <2>3, <1>1
<1>13. /\ m - i \in Nat /\ ~(d <= m - i) /\ i + (m - i) = m
       /\ j - m \in Nat /\ ~(d <= j - m) /\ m + (j - m) = j
  BY <1>4, <1>5, <1>10
<1> USE DEF T
<1>14. ~Wrong(m - i) /\ ~Wrong(j - m)
  BY <1>3, <1>13
<1> HIDE DEF T
<1>15. sum[i][m] = f[m] - f[i] /\ sum[m][j] = f[j] - f[m]
  BY <1>12, <1>13, <1>14
<1> QED
  BY <1>4, <1>5, <1>11, <1>12, <1>15

\* There is a solution.
LEMMA HalvesSolved ==
  ASSUME NEW s \in Seq(Nat)
  PROVE  \E g : g = [a \in 0..Len(s) |->
                      [b \in 0..Len(s) |->
                        IF b <= a THEN 0
                        ELSE IF b = a + 1 THEN s[b]
                        ELSE g[a][(a + b) \div 2] + g[(a + b) \div 2][b]]]
<1>1. PICK f : f \in Sums(s, Len(s))
  BY SumsExist
<1>2. /\ Len(s) \in Nat
      /\ \A k \in 0..Len(s) : f[k] \in Nat
      /\ \A k \in 1..Len(s) : f[k] = f[k - 1] + s[k] /\ s[k] \in Nat
  BY <1>1, SumsFacts
<1> DEFINE g == [a \in 0..Len(s) |-> [b \in 0..Len(s) |-> IF b <= a THEN 0 ELSE f[b] - f[a]]]
<1>3. \A a, b \in 0..Len(s) : g[a][b] = IF b <= a THEN 0 ELSE f[b] - f[a]
  OBVIOUS
<1>4. g = [a \in 0..Len(s) |-> [b \in 0..Len(s) |-> g[a][b]]]
  OBVIOUS
<1> HIDE DEF g
<1>5. ASSUME NEW a \in 0..Len(s), NEW b \in 0..Len(s)
      PROVE  g[a][b] = IF b <= a THEN 0
                       ELSE IF b = a + 1 THEN s[b]
                       ELSE g[a][(a + b) \div 2] + g[(a + b) \div 2][b]
  <2>0. a \in Nat /\ b \in Nat /\ f[a] \in Nat /\ f[b] \in Nat
    BY <1>2
  <2>1. CASE b <= a
    BY <1>3, <2>1
  <2>2. CASE b = a + 1
    <3>1. b \in 1..Len(s) /\ b - 1 = a /\ ~(b <= a)
      BY <2>0, <2>2
    <3>2. f[b] = f[a] + s[b] /\ s[b] \in Nat
      BY <1>2, <3>1
    <3>3. g[a][b] = f[b] - f[a]
      BY <1>3, <3>1
    <3> QED BY <2>0, <2>2, <3>1, <3>2, <3>3
  <2>3. CASE a + 1 < b
    <3> DEFINE m == (a + b) \div 2
    <3>1. m \in Nat /\ a < m /\ m < b
      BY <2>0, <2>3, Middle
    <3>2. ~(b <= a) /\ b # a + 1
      BY <2>0, <2>3
    <3> HIDE DEF m
    <3>3. m \in 0..Len(s) /\ f[m] \in Nat /\ ~(m <= a) /\ ~(b <= m)
      BY <1>2, <2>0, <3>1
    <3>4. g[a][b] = f[b] - f[a] /\ g[a][m] = f[m] - f[a] /\ g[m][b] = f[b] - f[m]
      BY <1>3, <3>2, <3>3
    <3>5. g[a][b] = g[a][m] + g[m][b]
      BY <2>0, <3>3, <3>4
    <3> QED BY <3>2, <3>5 DEF m
  <2> QED BY <2>0, <2>1, <2>2, <2>3
<1>6. g = [a \in 0..Len(s) |->
            [b \in 0..Len(s) |->
              IF b <= a THEN 0
              ELSE IF b = a + 1 THEN s[b]
              ELSE g[a][(a + b) \div 2] + g[(a + b) \div 2][b]]]
  <2> DEFINE e(a, b) == IF b <= a THEN 0
                        ELSE IF b = a + 1 THEN s[b]
                        ELSE g[a][(a + b) \div 2] + g[(a + b) \div 2][b]
  <2>1. \A a, b \in 0..Len(s) : g[a][b] = e(a, b)
    BY <1>5
  <2> HIDE DEF e
  <2>2. g = [a \in 0..Len(s) |-> [b \in 0..Len(s) |-> e(a, b)]]
    BY <1>4, <2>1
  <2> QED BY <2>2 DEF e
<1> QED
  BY <1>6

\* Total adds up all elements.
LEMMA TotalIsLast ==
  ASSUME NEW s \in Seq(Nat), NEW f \in Sums(s, Len(s))
  PROVE  Total(s) = f[Len(s)]
<1> DEFINE sum[a \in 0..Len(s)] ==
             [b \in 0..Len(s) |->
               IF b <= a THEN 0
               ELSE IF b = a + 1 THEN s[b]
               ELSE sum[a][(a + b) \div 2] + sum[(a + b) \div 2][b]]
<1>1. Total(s) = sum[0][Len(s)]
  BY DEF Total
<1>2. sum = [a \in 0..Len(s) |->
              [b \in 0..Len(s) |->
                IF b <= a THEN 0
                ELSE IF b = a + 1 THEN s[b]
                ELSE sum[a][(a + b) \div 2] + sum[(a + b) \div 2][b]]]
  BY HalvesSolved
<1> HIDE DEF sum
<1>3. Halves(s, sum)
  <2>1. ASSUME NEW a \in 0..Len(s), NEW b \in 0..Len(s)
        PROVE  sum[a][b] = IF b <= a THEN 0
                           ELSE IF b = a + 1 THEN s[b]
                           ELSE sum[a][(a + b) \div 2] + sum[(a + b) \div 2][b]
    <3>1. sum[a] = [c \in 0..Len(s) |->
                     IF c <= a THEN 0
                     ELSE IF c = a + 1 THEN s[c]
                     ELSE sum[a][(a + c) \div 2] + sum[(a + c) \div 2][c]]
      BY <1>2
    <3> QED BY <3>1
  <2> QED BY <2>1 DEF Halves
<1>4. Len(s) \in Nat /\ f[0] = 0 /\ f[Len(s)] \in Nat
  BY SumsFacts
<1>5. sum[0][Len(s)] = f[Len(s)] - f[0]
  BY <1>3, <1>4, HalvesSum
<1> QED
  BY <1>1, <1>4, <1>5

LEMMA OneMore ==
  ASSUME NEW i \in Nat, NEW k \in Nat, NEW a \in Nat, NEW b \in Nat,
         NEW o \in Nat, NEW x \in Nat, NEW y \in Nat, k # 0, k = i => y = o,
         a + (IF k - 1 < i THEN 0 ELSE o) = b + (IF k - 1 < i THEN 0 ELSE x)
  PROVE  (a + (IF k = i THEN x ELSE y)) + (IF k < i THEN 0 ELSE o)
         = (b + y) + (IF k < i THEN 0 ELSE x)
OBVIOUS

\* One element more or less by some amount changes the total by that amount.
LEMMA TotalOfChanged ==
  ASSUME NEW s \in Seq(Nat), NEW i \in 1..Len(s), NEW x \in Nat
  PROVE  LET t == [s EXCEPT ![i] = x]
         IN  /\ Total(s) \in Nat /\ Total(t) \in Nat
             /\ Total(t) + s[i] = Total(s) + x
<1> DEFINE t == [s EXCEPT ![i] = x]
<1>1. t \in Seq(Nat) /\ Len(t) = Len(s)
      /\ \A k \in 1..Len(s) : t[k] = IF k = i THEN x ELSE s[k]
  OBVIOUS
<1> HIDE DEF t
<1>2. PICK f : f \in Sums(s, Len(s))
  BY SumsExist
<1>3. PICK g : g \in Sums(t, Len(t))
  BY <1>1, SumsExist
<1>4. /\ Len(s) \in Nat
      /\ f[0] = 0 /\ \A k \in 0..Len(s) : f[k] \in Nat
      /\ \A k \in 1..Len(s) : f[k] = f[k - 1] + s[k] /\ s[k] \in Nat
  BY <1>2, SumsFacts
<1>5. /\ g[0] = 0 /\ \A k \in 0..Len(s) : g[k] \in Nat
      /\ \A k \in 1..Len(s) : g[k] = g[k - 1] + t[k]
  BY <1>1, <1>3, SumsFacts
<1> DEFINE Right(k) == g[k] + (IF k < i THEN 0 ELSE s[i]) = f[k] + (IF k < i THEN 0 ELSE x)
           T == {k \in 0..Len(s) : ~Right(k)}
<1>6. Len(s) \notin T
  <2>1. SUFFICES ASSUME Len(s) \in T PROVE FALSE
    OBVIOUS
  <2>2. T \in SUBSET Nat
    OBVIOUS
  <2> HIDE DEF T
  <2>3. PICK k \in T : \A y \in T : k <= y
    BY <2>1, <2>2, LeastNumber
  <2> USE DEF T
  <2>4. k \in Nat /\ k \in 0..Len(s) /\ i \in Nat /\ i # 0 /\ s[i] \in Nat
    BY <1>4, <2>3
  <2>5. k # 0
    <3>1. SUFFICES ASSUME k = 0 PROVE FALSE
      OBVIOUS
    <3>2. 0 < i
      BY <2>4
    <3>3. ~(g[0] + 0 = f[0] + 0)
      BY <2>3, <3>1, <3>2
    <3> QED BY <1>4, <1>5, <3>3
  <2>6. k \in 1..Len(s) /\ k - 1 \in 0..Len(s) /\ ~(k <= k - 1)
    BY <2>4, <2>5
  <2>7. Right(k - 1)
    BY <2>3, <2>6
  <2>8. f[k] = f[k - 1] + s[k] /\ g[k] = g[k - 1] + t[k] /\ t[k] = IF k = i THEN x ELSE s[k]
    BY <1>1, <1>4, <1>5, <2>6
  <2>9. f[k - 1] \in Nat /\ g[k - 1] \in Nat /\ s[k] \in Nat
    BY <1>4, <1>5, <2>6
  <2>10. /\ g[k] = g[k - 1] + (IF k = i THEN x ELSE s[k])
         /\ f[k] = f[k - 1] + s[k]
         /\ k = i => s[k] = s[i]
    BY <2>8
  <2> HIDE DEF T
  <2>11. (g[k - 1] + (IF k = i THEN x ELSE s[k])) + (IF k < i THEN 0 ELSE s[i])
         = (f[k - 1] + s[k]) + (IF k < i THEN 0 ELSE x)
    <3>1. g[k - 1] + (IF k - 1 < i THEN 0 ELSE s[i]) = f[k - 1] + (IF k - 1 < i THEN 0 ELSE x)
      BY <2>7
    <3> DEFINE a == g[k - 1]  b == f[k - 1]  y == s[k]  o == s[i]
    <3>2. /\ i \in Nat /\ k \in Nat /\ a \in Nat /\ b \in Nat /\ o \in Nat
          /\ y \in Nat /\ k # 0 /\ (k = i => y = o)
      BY <2>4, <2>5, <2>9, <2>10
    <3>3. a + (IF k - 1 < i THEN 0 ELSE o) = b + (IF k - 1 < i THEN 0 ELSE x)
      BY <3>1
    <3> HIDE DEF a, b, y, o
    <3>4. (a + (IF k = i THEN x ELSE y)) + (IF k < i THEN 0 ELSE o)
          = (b + y) + (IF k < i THEN 0 ELSE x)
      BY <3>2, <3>3, OneMore
    <3> QED BY <3>4 DEF a, b, y, o
  <2>12. Right(k)
    BY <2>10, <2>11
  <2> USE DEF T
  <2> QED BY <2>3, <2>12
<1>7. Right(Len(s))
  BY <1>4, <1>6
<1>8. Total(s) = f[Len(s)] /\ Total(t) = g[Len(s)]
  BY <1>1, <1>2, <1>3, TotalIsLast
<1> QED
  BY <1>4, <1>5, <1>7, <1>8 DEF t

-----------------------------------------------------------------------------
(* The message.                                                            *)

\* Commands keep their two parts apart.
LEMMA CommandParts ==
  ASSUME NEW cmd0 \in Nat, cmd0 <= 15, NEW cmd1 \in Nat, cmd1 <= 7
  PROVE  /\ Command(cmd0, cmd1) \in Byte
         /\ Command(cmd0, cmd1) \div 16 = cmd0
         /\ (Command(cmd0, cmd1) \div 2) % 8 = cmd1
  BY SMT DEF Command, Byte

\* b parses to these parts.
Parses(b, cmd0, cmd1, payload) ==
  /\ Len(b) = Len(payload) + 4
  /\ ChecksumOK(b)
  /\ ParseMessage(b) = <<cmd0, cmd1, payload>>

\* Parsing a message gives back what it was made of, checksummed or not.
LEMMA MessageRoundTrip ==
  ASSUME NEW cmd0 \in Nat, cmd0 <= 15, NEW cmd1 \in Nat, cmd1 <= 7,
         NEW checksum \in BOOLEAN,
         NEW payload \in Seq(Byte), Len(payload) < 65535
  PROVE  Parses(Message(cmd0, cmd1, payload, checksum), cmd0, cmd1, payload)
<1> DEFINE cmd == Command(cmd0, cmd1)
           len == Len(payload) + 1
           ck  == IF checksum THEN Checksum(cmd, Lo(len), Hi(len), payload) ELSE NoChecksum
           b   == Message(cmd0, cmd1, payload, checksum)
<1>1. b = <<cmd, Lo(len), Hi(len)>> \o payload \o <<ck>>
  BY SMT DEF Message
<1>2. Len(payload) \in Nat /\ len \in Nat /\ len <= 65535
  BY SMT
<1>3. /\ Lo(len) \in Nat /\ Hi(len) \in Nat
      /\ Lo(len) + 256 * Hi(len) = Len(payload) + 1
  BY SMT, <1>2, Split, Bytes
<1>4. ck \in {NoChecksum, Checksum(cmd, Lo(len), Hi(len), payload)}
  BY SMT
<1>5. cmd \div 16 = cmd0 /\ (cmd \div 2) % 8 = cmd1
  BY SMT, CommandParts
<1> HIDE DEF cmd, len, ck, b
<1>6. /\ Len(b) = Len(payload) + 4
      /\ b[1] = cmd /\ b[2] = Lo(len) /\ b[3] = Hi(len)
      /\ b[Len(payload) + 4] = ck
      /\ \A k \in 1..Len(payload) : b[3 + k] = payload[k]
  BY SMT, <1>1, <1>2
<1>7. InnerLength(b) = Len(payload)
  BY SMT, <1>2, <1>3, <1>6 DEF InnerLength
<1>8. SubSeq(b, 4, 3 + Len(payload)) = payload
  BY SMT, <1>1, <1>2, <1>6
<1>9. PayloadIn(b) = payload
  BY SMT, <1>2, <1>6, <1>7, <1>8 DEF PayloadIn
<1>10. ChecksumIn(b) = ck
  BY SMT, <1>2, <1>6, <1>7 DEF ChecksumIn
<1>11. ChecksumOK(b)
  BY SMT, <1>4, <1>6, <1>9, <1>10 DEF ChecksumOK
<1>12. ParseMessage(b) = <<cmd0, cmd1, payload>>
  BY SMT, <1>5, <1>6, <1>9 DEF ParseMessage
<1>13. QED
  BY SMT, <1>6, <1>11, <1>12 DEF b, Parses

-----------------------------------------------------------------------------
(* The wire.                                                               *)

\* What a sender frames is a body the receivers' buffers hold.
LEMMA Framed ==
  ASSUME NEW f \in Frames
  PROVE  LET b == Message(f.cmd0, f.cmd1, f.payload, f.checksum)
         IN  /\ Len(b) \in Nat /\ 0 < Len(b) /\ Len(b) <= BufMax /\ Len(b) <= 65535
             /\ ChecksumOK(b)
             /\ ParseMessage(b) = <<f.cmd0, f.cmd1, f.payload>>
<1>1. /\ f.cmd0 \in Nat /\ f.cmd0 <= 15 /\ f.cmd1 \in Nat /\ f.cmd1 <= 7
      /\ f.checksum \in BOOLEAN /\ f.payload \in Payloads
  <2>1. /\ f.cmd0 \in Cmd0 /\ f.cmd1 \in Cmd1
        /\ f.checksum \in BOOLEAN /\ f.payload \in Payloads
    BY SMT DEF Frames
  <2>2. ASSUME NEW x \in Cmd0
        PROVE  x \in Nat /\ x <= 15
    BY SMT, FrameAssumption
  <2>3. ASSUME NEW x \in Cmd1
        PROVE  x \in Nat /\ x <= 7
    BY SMT, FrameAssumption
  <2>4. QED
    BY SMT, <2>1, <2>2, <2>3
<1>2. /\ f.payload \in Seq(Byte) /\ Len(f.payload) \in Nat /\ Len(f.payload) < 65535
      /\ Len(f.payload) + 4 <= BufMax /\ Len(f.payload) + 4 <= 65535
  BY SMT, <1>1, FrameAssumption
<1> DEFINE b == Message(f.cmd0, f.cmd1, f.payload, f.checksum)
<1>3. Parses(b, f.cmd0, f.cmd1, f.payload)
  BY SMT, <1>1, <1>2, MessageRoundTrip
<1>4. QED
  BY SMT, <1>2, <1>3 DEF Parses

Checks == {CheckHeader(hdr), HeaderOK(hdr)}

\* The body is the message that was sent but for one byte outside its length field.
OneByteOff ==
  LET m == Message(sent.cmd0, sent.cmd1, sent.payload, sent.checksum)
  IN  \E k \in DOMAIN m \ {2, 3}, x \in Byte : x # m[k] /\ body = [m EXCEPT ![k] = x]

\* What is on the wire is what was framed, or bears the mark of what hurt it, and
\* what a receiver made of it follows from the header it saw.
WireInv ==
  /\ phase \in {"idle", "sent", "got"}
  /\ sent \in Frames
  /\ hdr \in [1..4 -> Byte]
  /\ hurt \in {"none", "header", "body", "length", "silent"}
  /\ phase # "idle" /\ hurt = "none" =>
       /\ body = Message(sent.cmd0, sent.cmd1, sent.payload, sent.checksum)
       /\ hdr = Header(Msg, Len(body))
  /\ phase = "idle" => hurt = "none"
  /\ hurt = "header" => ~SumOK(hdr)
  /\ hurt = "body" => phase # "idle" /\ OneByteOff
  /\ hurt = "silent" => hdr \in {<<0, 0, 0, 0>>, <<255, 255, 255, 255>>}
  /\ got.by \in {"nobody", "gxfp", "refseq"}
  /\ phase = "got" => \E n \in Checks : got = [len |-> BodyLength(n), by |-> got.by]
  /\ phase # "got" => got = Nothing

LEMMA WireCorrect == Spec => []WireInv
<1>1. Init => WireInv
  BY SMT DEF Init, WireInv, Nothing, Byte
<1>2. WireInv /\ [Next]_vars => WireInv'
  <2> SUFFICES ASSUME WireInv, [Next]_vars
               PROVE  WireInv'
    OBVIOUS
  <2> USE DEF WireInv, Checks
  <2>0. UNCHANGED <<sent, body>> => OneByteOff' = OneByteOff
    BY DEF OneByteOff
  <2>1. ASSUME NEW f \in Frames, Send(f)
        PROVE  WireInv'
    <3>1. body' = Message(f.cmd0, f.cmd1, f.payload, f.checksum)
      BY SMT, <2>1 DEF Send
    <3>2. hdr' = Header(Msg, Len(body')) /\ Len(body') \in Nat /\ Len(body') <= 65535
      BY SMT, <2>1, <3>1, Framed DEF Send
    <3>3. hdr' \in [1..4 -> Byte]
      BY SMT, <3>2, HeaderRoundTrip
    <3>4. QED
      BY SMT, <2>1, <3>1, <3>2, <3>3 DEF Send
  <2>2. ASSUME NEW k \in 1..4, NEW x \in Flips, HurtHeader(k, x)
        PROVE  WireInv'
    <3>1. phase = "sent" /\ hurt = "none" /\ x # hdr[k] /\ hdr' = [hdr EXCEPT ![k] = x]
      BY SMT, <2>2 DEF HurtHeader
    <3>2. x \in Byte
      BY SMT, FrameAssumption
    <3>3. SumOK(hdr)
      BY SMT, <3>1, Framed, HeaderRoundTrip
    <3>4. ~SumOK(hdr')
      BY SMT, <3>1, <3>2, <3>3, OneByteSpoils
    <3>5. QED
      BY SMT, <2>2, <3>1, <3>2, <3>4 DEF HurtHeader
  <2>3. ASSUME NEW k \in DOMAIN body, NEW x \in Flips, HurtBody(k, x)
        PROVE  WireInv'
    <3>1. /\ phase = "sent" /\ hurt = "none" /\ x # body[k] /\ body' = [body EXCEPT ![k] = x]
          /\ sent' = sent /\ phase' = phase
          /\ hurt' = IF k \in {2, 3} THEN "length" ELSE "body"
      BY SMT, <2>3 DEF HurtBody
    <3>2. body = Message(sent.cmd0, sent.cmd1, sent.payload, sent.checksum)
      BY SMT, <3>1
    <3>3. x \in Byte
      BY SMT, FrameAssumption
    <3>4. k \notin {2, 3} => OneByteOff'
      BY SMT, <3>1, <3>2, <3>3 DEF OneByteOff
    <3>5. UNCHANGED <<phase, sent, hdr, got>> /\ hurt' \in {"body", "length"}
      BY SMT, <2>3, <3>1 DEF HurtBody
    <3>6. QED
      BY SMT, <3>1, <3>4, <3>5
  <2>4. ASSUME NEW x \in {0, 255}, Silent(x)
        PROVE  WireInv'
    <3>1. /\ phase = "sent" /\ hurt' = "silent" /\ UNCHANGED <<phase, sent, body, got>>
          /\ hdr' = <<x, x, x, x>>
      BY SMT, <2>4 DEF Silent
    <3>2. hdr' \in [1..4 -> Byte] /\ hdr' \in {<<0, 0, 0, 0>>, <<255, 255, 255, 255>>}
      BY SMT, <3>1 DEF Byte
    <3>3. QED
      BY SMT, <3>1, <3>2
  <2>5. ASSUME NEW by \in {"gxfp", "refseq"}, NEW n \in Checks, Receive(by, n)
        PROVE  WireInv'
    BY SMT, <2>0, <2>5 DEF Receive
  <2>6. CASE Idle
    BY SMT, <2>6 DEF Idle, Nothing, Byte
  <2>7. CASE UNCHANGED vars
    BY SMT, <2>0, <2>7 DEF vars
  <2>8. QED
    BY SMT, <2>1, <2>2, <2>3, <2>4, <2>5, <2>6, <2>7 DEF Next
<1>3. QED
  BY <1>1, <1>2, PTL DEF Spec

\* No receiver goes on to read a body behind a header with one wrong byte, or
\* behind the header of a wire nobody drives.
THEOREM BadHeadersRefused == Spec => []BadHeaderRefused
<1>1. WireInv => BadHeaderRefused
  <2> SUFFICES ASSUME WireInv, phase = "got", hurt \in {"header", "silent"}
               PROVE  got.len = -1
    BY DEF BadHeaderRefused
  <2>1. PICK n \in Checks : got = [len |-> BodyLength(n), by |-> got.by]
    BY SMT DEF WireInv
  <2>2. n = -1 \/ n = 0
    <3>1. CASE ~SumOK(hdr)
      BY SMT, <3>1 DEF Checks, CheckHeader, HeaderOK
    <3>2. CASE hdr = <<0, 0, 0, 0>>
      BY SMT, <3>2 DEF Checks, CheckHeader, HeaderOK, Msg, Tls, Length
    <3>3. CASE hdr = <<255, 255, 255, 255>>
      <4>1. ~SumOK(hdr)
        BY SMT, <3>3 DEF SumOK
      <4>2. QED
        BY <3>1, <4>1
    <3>4. QED
      BY SMT, <3>1, <3>2, <3>3 DEF WireInv
  <2>3. BodyLength(n) = -1
    BY SMT, <2>2 DEF BodyLength
  <2>4. QED
    BY SMT, <2>1, <2>3
<1>2. QED
  BY <1>1, WireCorrect, PTL

LEMMA TotalIsNumber ==
  ASSUME NEW s \in Seq(Nat)
  PROVE  Total(s) \in Nat
<1>1. PICK f : f \in Sums(s, Len(s))
  BY SumsExist
<1>2. QED
  BY <1>1, SumsFacts, TotalIsLast

\* Sums less than 256 apart have different checksums.
LEMMA ChecksumsDiffer ==
  ASSUME NEW a \in Nat, NEW b \in Nat, a # b, a - b <= 255, b - a <= 255
  PROVE  ((170 - (a % 256)) % 256) # ((170 - (b % 256)) % 256)
<1>1. (a % 256) # (b % 256)
  BY SMT, Residue
<1>2. ASSUME NEW p \in Nat, NEW q \in Nat, p <= 255, q <= 255, p # q
      PROVE  ((170 - p) % 256) # ((170 - q) % 256)
  BY SMT, <1>2
<1>3. QED
  BY SMT, <1>1, <1>2, DivMod

\* A message by its parts, and what stands at its places.
Parts(cmd, lo, hi, payload, ck) == <<cmd, lo, hi>> \o payload \o <<ck>>

HasPlaces(m, cmd, lo, hi, payload, ck) ==
  /\ m \in Seq(Nat) /\ Len(m) = Len(payload) + 4
  /\ m[1] = cmd /\ m[2] = lo /\ m[3] = hi /\ m[Len(payload) + 4] = ck
  /\ \A j \in 1..Len(payload) : m[3 + j] = payload[j]

LEMMA Places ==
  ASSUME NEW cmd \in Nat, NEW lo \in Nat, NEW hi \in Nat, NEW payload \in Seq(Nat),
         NEW ck \in Nat
  PROVE  HasPlaces(Parts(cmd, lo, hi, payload, ck), cmd, lo, hi, payload, ck)
<1> DEFINE m == Parts(cmd, lo, hi, payload, ck)
<1>1. m = <<cmd, lo, hi>> \o payload \o <<ck>>
  BY DEF Parts
<1>2. Len(payload) \in Nat
  OBVIOUS
<1> HIDE DEF m
<1>3. /\ Len(m) = Len(payload) + 4
      /\ m[1] = cmd /\ m[2] = lo /\ m[3] = hi
      /\ m[Len(payload) + 4] = ck
      /\ \A j \in 1..Len(payload) : m[3 + j] = payload[j]
  BY SMT, <1>1, <1>2
<1>4. m \in Seq(Nat)
  <2>1. <<cmd, lo, hi>> \in Seq(Nat) /\ <<ck>> \in Seq(Nat)
    OBVIOUS
  <2>2. QED
    BY <1>1, <2>1
<1>5. QED
  BY <1>3, <1>4 DEF HasPlaces, m

LEMMA Element ==
  ASSUME NEW s \in Seq(Nat), NEW j \in 1..Len(s)
  PROVE  s[j] \in Nat
OBVIOUS

\* What a receiver finds in a body whose length field fits it.
LEMMA Found ==
  ASSUME NEW b \in Seq(Nat), NEW q \in Seq(Nat)
  PROVE  /\ Len(b) = Len(q) + 4
         /\ b[2] + 256 * b[3] = Len(q) + 1
         /\ \A j \in 1..Len(q) : b[3 + j] = q[j]
         => PayloadIn(b) = q /\ ChecksumIn(b) = b[Len(q) + 4]
<1>1. Len(q) \in Nat /\ Len(b) \in Nat
  OBVIOUS
<1>2. SUFFICES ASSUME Len(b) = Len(q) + 4,
                      b[2] + 256 * b[3] = Len(q) + 1,
                      \A j \in 1..Len(q) : b[3 + j] = q[j]
               PROVE  PayloadIn(b) = q /\ ChecksumIn(b) = b[Len(q) + 4]
  OBVIOUS
<1>3. InnerLength(b) = Len(q)
  <2>1. 2 \in 1..Len(b) /\ 3 \in 1..Len(b)
    BY <1>1, <1>2
  <2>2. b[2] \in Nat /\ b[3] \in Nat
    BY <2>1, Element
  <2>3. b[2] + 256 * b[3] = Len(q) + 1
    BY <1>2
  <2> DEFINE lo == b[2]
             hi == b[3]
             n  == Len(q)
  <2>4. lo \in Nat /\ hi \in Nat /\ n \in Nat /\ lo + 256 * hi = n + 1
    BY <1>1, <2>2, <2>3
  <2> HIDE DEF lo, hi, n
  <2>5. lo + 256 * hi - 1 = n
    BY <2>4
  <2>6. QED
    BY <2>5 DEF InnerLength, lo, hi, n
<1>4. ChecksumIn(b) = b[Len(q) + 4]
  BY <1>1, <1>2, <1>3 DEF ChecksumIn
<1>5. PayloadIn(b) = SubSeq(b, 4, 3 + Len(q))
  BY <1>1, <1>2, <1>3 DEF PayloadIn
<1>6. SubSeq(b, 4, 3 + Len(q)) = q
  BY <1>1, <1>2
<1>7. QED
  BY <1>4, <1>5, <1>6

\* Checksums of two messages of one length differ when their sums are less than 256
\* apart and not equal.
LEMMA ChecksumTells ==
  ASSUME NEW c \in Nat, NEW d \in Nat, NEW lo \in Nat, NEW hi \in Nat,
         NEW p \in Seq(Nat), NEW q \in Seq(Nat)
  PROVE  /\ c + Total(p) # d + Total(q)
         /\ (c + Total(p)) - (d + Total(q)) <= 255
         /\ (d + Total(q)) - (c + Total(p)) <= 255
         => Checksum(c, lo, hi, p) # Checksum(d, lo, hi, q)
<1>1. Total(p) \in Nat /\ Total(q) \in Nat
  BY TotalIsNumber
<1> DEFINE x == Total(p)
           y == Total(q)
           a == c + lo + hi + x
           b == d + lo + hi + y
<1>2. SUFFICES ASSUME c + Total(p) # d + Total(q),
                      (c + Total(p)) - (d + Total(q)) <= 255,
                      (d + Total(q)) - (c + Total(p)) <= 255
               PROVE  Checksum(c, lo, hi, p) # Checksum(d, lo, hi, q)
  OBVIOUS
<1>3. /\ x \in Nat /\ y \in Nat
      /\ c + x # d + y /\ (c + x) - (d + y) <= 255 /\ (d + y) - (c + x) <= 255
  BY <1>1, <1>2
<1> HIDE DEF x, y
<1>4. /\ a \in Nat /\ b \in Nat
      /\ a # b /\ a - b <= 255 /\ b - a <= 255
  BY <1>3
<1> HIDE DEF a, b
<1>5. ((170 - (a % 256)) % 256) # ((170 - (b % 256)) % 256)
  BY <1>4, ChecksumsDiffer
<1>6. QED
  BY <1>5 DEF Checksum, a, b, x, y

\* A checksummed message with one wrong byte outside the length field is refused,
\* unless the byte in the checksum's place says that there is no checksum.
OneOff(b, m, payload, k, x) ==
  /\ k \in 1..(Len(payload) + 4) /\ k # 2 /\ k # 3
  /\ x # m[k]
  /\ b = [m EXCEPT ![k] = x]

Announces(lo, hi, payload) == lo + 256 * hi = Len(payload) + 1

Noticed(b) == ChecksumOK(b) => b[Len(b)] = NoChecksum

LEMMA OneByteNoticed ==
  ASSUME NEW cmd \in Byte, NEW lo \in Nat, NEW hi \in Nat, NEW payload \in Seq(Byte),
         Announces(lo, hi, payload),
         NEW m, m = Parts(cmd, lo, hi, payload, Checksum(cmd, lo, hi, payload)),
         NEW b, NEW k, NEW x \in Byte, OneOff(b, m, payload, k, x)
  PROVE  Noticed(b)
<1> DEFINE len == Len(payload)
           ck  == Checksum(cmd, lo, hi, payload)
<1>1. SUFFICES ASSUME lo + 256 * hi = len + 1,
                      m = Parts(cmd, lo, hi, payload, ck),
                      k \in 1..(len + 4), k # 2, k # 3, x # m[k],
                      b = [m EXCEPT ![k] = x],
                      ChecksumOK(b),
                      b[Len(b)] # NoChecksum
               PROVE  FALSE
  BY DEF Announces, OneOff, Noticed
<1>2. /\ len \in Nat /\ k \in Nat /\ k >= 1 /\ k <= len + 4
      /\ payload \in Seq(Nat) /\ Total(payload) \in Nat
  <2>1. payload \in Seq(Nat) /\ len \in Nat
    BY Bytes
  <2>2. k \in 1..(len + 4)
    BY <1>1
  <2>3. QED
    BY <2>1, <2>2, TotalIsNumber
<1>3. cmd \in Nat /\ cmd <= 255 /\ x \in Nat /\ x <= 255
  BY Bytes
<1>4. ck \in Nat
  <2>1. cmd + lo + hi + Total(payload) \in Nat
    BY <1>2, <1>3
  <2>2. QED
    BY <2>1, DivMod DEF Checksum
<1> HIDE DEF ck, len
<1>5. /\ m \in Seq(Nat) /\ Len(m) = len + 4
      /\ m[1] = cmd /\ m[2] = lo /\ m[3] = hi /\ m[len + 4] = ck
      /\ \A j \in 1..len : m[3 + j] = payload[j]
  <2>1. m = Parts(cmd, lo, hi, payload, ck)
    BY <1>1
  <2>2. cmd \in Nat /\ payload \in Seq(Nat)
    BY <1>2, <1>3
  <2>3. HasPlaces(m, cmd, lo, hi, payload, ck)
    BY <1>4, <2>1, <2>2, Places
  <2>4. QED
    BY <2>3 DEF len, HasPlaces
<1>6. /\ b \in Seq(Nat) /\ Len(b) = len + 4 /\ b[k] = x
      /\ \A j \in 1..(len + 4) : j # k => b[j] = m[j]
  <2>1. b = [m EXCEPT ![k] = x]
    BY <1>1
  <2>2. m \in Seq(Nat) /\ Len(m) = len + 4
    BY <1>5
  <2>3. QED
    BY <1>2, <1>3, <2>1, <2>2
<1>7. lo + 256 * hi = len + 1 /\ k # 2 /\ k # 3 /\ x # m[k]
  BY <1>1
<1>8. b[2] = lo /\ b[3] = hi
  BY <1>2, <1>5, <1>6, <1>7
<1>9. ASSUME NEW q \in Seq(Nat), Len(q) = len, \A j \in 1..len : b[3 + j] = q[j]
      PROVE  b[len + 4] = Checksum(b[1], lo, hi, q)
  <2>1. PayloadIn(b) = q /\ ChecksumIn(b) = b[len + 4]
    BY <1>6, <1>7, <1>8, <1>9, Found
  <2>2. QED
    BY <1>1, <1>6, <1>8, <2>1 DEF ChecksumOK
<1>10. CASE k <= 3 \/ k = len + 4
  <2>1. \A j \in 1..len : b[3 + j] = payload[j]
    BY <1>2, <1>5, <1>6, <1>10
  <2>2. b[len + 4] = Checksum(b[1], lo, hi, payload)
    BY <1>2, <1>9, <2>1 DEF len
  <2>3. CASE k = len + 4
    <3>1. b[1] = cmd /\ b[len + 4] # ck
      BY <1>2, <1>5, <1>6, <1>7, <2>3
    <3>2. QED
      BY <2>2, <3>1 DEF ck
  <2>4. CASE k <= 3
    <3>1. b[1] = x /\ x # cmd /\ b[len + 4] = ck
      BY <1>2, <1>5, <1>6, <1>7, <2>4
    <3>2. Checksum(x, lo, hi, payload) # Checksum(cmd, lo, hi, payload)
      <4> DEFINE y == Total(payload)
      <4>1. x + y # cmd + y /\ (x + y) - (cmd + y) <= 255 /\ (cmd + y) - (x + y) <= 255
        <5>1. y \in Nat
          BY <1>2
        <5> HIDE DEF y
        <5>2. QED
          BY <1>3, <3>1, <5>1
      <4>2. QED
        BY <1>2, <1>3, <4>1, ChecksumTells
    <3>3. QED
      BY <2>2, <3>1, <3>2 DEF ck
  <2>5. QED
    BY <1>10, <2>3, <2>4
<1>11. CASE k > 3 /\ k < len + 4
  <2> DEFINE i == k - 3
             q == [payload EXCEPT ![i] = x]
  <2>1. i \in 1..len /\ k = 3 + i
    BY <1>2, <1>11
  <2> HIDE DEF i
  <2>2. /\ q \in Seq(Nat) /\ Len(q) = len
        /\ \A j \in 1..len : q[j] = IF j = i THEN x ELSE payload[j]
    BY <1>2, <1>3, <2>1 DEF len
  <2>3. /\ Total(q) \in Nat
        /\ Total(q) + payload[i] = Total(payload) + x
    BY <1>2, <1>3, <2>1, TotalOfChanged DEF len
  <2> HIDE DEF q
  <2>4. ASSUME NEW j \in 1..len
        PROVE  b[3 + j] = q[j]
    <3>1. 3 + j \in 1..(len + 4) /\ (3 + j = k <=> j = i)
      BY <1>2, <2>1
    <3>2. QED
      BY <1>5, <1>6, <2>2, <3>1
  <2>5. b[len + 4] = Checksum(b[1], lo, hi, q)
    BY <1>9, <2>2, <2>4
  <2>6. b[1] = cmd /\ b[len + 4] = ck
    BY <1>2, <1>5, <1>6, <1>11
  <2>7. payload[i] \in Nat /\ payload[i] <= 255 /\ payload[i] # x
    <3>1. payload[i] \in Byte
      BY <2>1 DEF len
    <3>2. payload[i] # x
      BY <1>5, <1>7, <2>1
    <3>3. QED
      BY <3>1, <3>2, Bytes
  <2>8. Checksum(cmd, lo, hi, q) # Checksum(cmd, lo, hi, payload)
    <3> DEFINE y == Total(payload)
               z == Total(q)
               o == payload[i]
    <3>1. cmd + z # cmd + y /\ (cmd + z) - (cmd + y) <= 255 /\ (cmd + y) - (cmd + z) <= 255
      <4>1. y \in Nat /\ z \in Nat /\ z + o = y + x /\ o \in Nat /\ o <= 255 /\ o # x
        BY <1>2, <2>3, <2>7
      <4> HIDE DEF y, z, o
      <4>2. QED
        BY <1>3, <4>1
    <3>2. QED
      BY <1>2, <1>3, <2>2, <3>1, ChecksumTells
  <2>9. QED
    BY <2>5, <2>6, <2>8 DEF ck
<1>12. QED
  BY <1>2, <1>10, <1>11

\* An undisturbed frame of any permitted length and content is read whole and
\* parses to what was sent.
THEOREM AlwaysDelivered == Spec => []Delivered
<1>1. WireInv => Delivered
  <2> SUFFICES ASSUME WireInv, phase = "got", hurt = "none"
               PROVE  /\ got.len = Len(body)
                      /\ ChecksumOK(body)
                      /\ ParseMessage(body) = <<sent.cmd0, sent.cmd1, sent.payload>>
    BY DEF Delivered
  <2>1. /\ sent \in Frames
        /\ body = Message(sent.cmd0, sent.cmd1, sent.payload, sent.checksum)
        /\ hdr = Header(Msg, Len(body))
    BY SMT DEF WireInv
  <2>2. /\ Len(body) \in Nat /\ 0 < Len(body) /\ Len(body) <= BufMax /\ Len(body) <= 65535
        /\ ChecksumOK(body)
        /\ ParseMessage(body) = <<sent.cmd0, sent.cmd1, sent.payload>>
    BY SMT, <2>1, Framed
  <2>3. Checks = {Len(body)}
    BY SMT, <2>1, <2>2, HeaderRoundTrip DEF Checks
  <2>4. got = [len |-> BodyLength(Len(body)), by |-> got.by]
    BY SMT, <2>3 DEF WireInv
  <2>5. BodyLength(Len(body)) = Len(body)
    BY SMT, <2>2, FrameAssumption DEF BodyLength
  <2>6. QED
    BY SMT, <2>2, <2>4, <2>5
<1>2. QED
  BY <1>1, WireCorrect, PTL

\* One wrong byte of a checksummed message, whatever its payload, is noticed by the
\* parsers, unless it is in the length field or the message's last byte reads 0x88.
THEOREM BadBodiesNoticed == Spec => []BadBodyNoticed
<1>1. WireInv => BadBodyNoticed
  <2>1. SUFFICES ASSUME WireInv, hurt = "body", sent.checksum, ChecksumOK(body)
                 PROVE  body[Len(body)] = NoChecksum
    BY DEF BadBodyNoticed
  <2> DEFINE f   == sent
             len == Len(f.payload) + 1
             cmd == Command(f.cmd0, f.cmd1)
             m   == Message(f.cmd0, f.cmd1, f.payload, f.checksum)
  <2>2. f \in Frames /\ OneByteOff
    BY <2>1 DEF WireInv
  <2>3. PICK k \in DOMAIN m \ {2, 3}, x \in Byte : x # m[k] /\ body = [m EXCEPT ![k] = x]
    BY <2>2 DEF OneByteOff
  <2>4. m = Parts(cmd, Lo(len), Hi(len), f.payload, Checksum(cmd, Lo(len), Hi(len), f.payload))
    BY <2>1 DEF Message, Parts
  <2>5. f.cmd0 \in Cmd0 /\ f.cmd1 \in Cmd1 /\ f.payload \in Payloads
    BY <2>2 DEF Frames
  <2>6. f.payload \in Seq(Byte) /\ Len(f.payload) \in Nat /\ Len(f.payload) + 4 <= 65535
    BY <2>5, FrameAssumption
  <2>7. cmd \in Byte
    <3>1. /\ \A c \in Cmd0 : c \in Nat /\ c <= 15
          /\ \A c \in Cmd1 : c \in Nat /\ c <= 7
      BY FrameAssumption
    <3>2. QED
      BY <2>5, <3>1, CommandParts
  <2> HIDE DEF f, cmd, m
  <2>8. len \in Nat /\ len <= 65535
    BY <2>6
  <2>9. Lo(len) \in Nat /\ Hi(len) \in Nat /\ Lo(len) + 256 * Hi(len) = len
    <3> HIDE DEF len
    <3>1. Lo(len) \in Byte /\ Hi(len) \in Byte /\ Lo(len) + 256 * Hi(len) = len
      BY <2>8, Split
    <3>2. QED
      BY <3>1, Bytes
  <2>10. k \in 1..(Len(f.payload) + 4) /\ k # 2 /\ k # 3
    BY <2>3, <2>4, <2>6 DEF Parts
  <2> HIDE DEF len
  <2>11. Lo(len) + 256 * Hi(len) = Len(f.payload) + 1
    BY <2>9 DEF len
  <2>12. QED
    <3> DEFINE lo == Lo(len)
               hi == Hi(len)
               p  == f.payload
    <3>1. /\ cmd \in Byte /\ lo \in Nat /\ hi \in Nat /\ p \in Seq(Byte)
          /\ x \in Byte
          /\ Announces(lo, hi, p)
          /\ m = Parts(cmd, lo, hi, p, Checksum(cmd, lo, hi, p))
          /\ OneOff(body, m, p, k, x)
      BY <2>3, <2>4, <2>6, <2>7, <2>9, <2>10, <2>11 DEF Announces, OneOff
    <3> HIDE DEF lo, hi, p
    <3>2. Noticed(body)
      BY <3>1, OneByteNoticed
    <3>3. QED
      BY <2>1, <3>2 DEF Noticed
<1>2. QED
  BY <1>1, WireCorrect, PTL

\* Headers are bytes and no receiver reads more than its buffer holds.
THEOREM TypeCorrect == Spec => []TypeOK
<1>1. WireInv => TypeOK
  <2> SUFFICES ASSUME WireInv
               PROVE  TypeOK
    OBVIOUS
  <2>1. ASSUME NEW n \in Checks
        PROVE  BodyLength(n) \in -1..BufMax
    <3>1. n \in Int /\ n >= -1
      <4>1. Length(hdr) \in Nat
        BY SMT, Bytes DEF WireInv, Length
      <4>2. QED
        BY SMT, <4>1 DEF Checks, CheckHeader, HeaderOK
    <3>2. QED
      BY SMT, <3>1, FrameAssumption DEF BodyLength
  <2>2. got \in [len : -1..BufMax, by : {"nobody", "gxfp", "refseq"}]
    <3>1. CASE phase = "got"
      BY SMT, <2>1, <3>1 DEF WireInv
    <3>2. CASE phase # "got"
      BY SMT, <3>2, FrameAssumption DEF WireInv, Nothing
    <3>3. QED
      BY SMT, <3>1, <3>2
  <2>3. QED
    BY SMT, <2>2 DEF WireInv, TypeOK
<1>2. QED
  BY <1>1, WireCorrect, PTL

=============================================================================
