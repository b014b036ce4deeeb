------------------------ MODULE TensorFromProtoProofs ------------------------
(***************************************************************************)
(* Proofs about TensorSize (part 1), for every word width and every list   *)
(* of dims, and on top of them about TensorFromProto (part 2), which       *)
(* extends it, for every payload.                                          *)
(***************************************************************************)
EXTENDS TensorFromProto, WellFoundedInduction, TLAPS

-----------------------------------------------------------------------------
(* PART 1: the computation of the size.                                    *)

-----------------------------------------------------------------------------
(* Induction over the natural numbers, for a set instead of a predicate.   *)

(* A set of natural numbers that is not empty has a least element.         *)
LEMMA LeastNat ==
  ASSUME NEW T \in SUBSET Nat, T # {}
  PROVE  \E x \in T : \A y \in T : x <= y
<1> DEFINE R == OpToRel(<, Nat)
<1>1. IsWellFoundedOn(R, Nat)
  BY NatLessThanWellFounded
<1>2. \E x \in T : \A y \in T : ~ (<<y, x>> \in R)
  <2> HIDE DEF R
  <2> QED BY <1>1, WFMin
<1>3. \A x \in T, y \in T : y < x => <<y, x>> \in R
  BY DEF OpToRel
<1>4. PICK x \in T : \A y \in T : ~ (<<y, x>> \in R)
  BY <1>2
<1>5. \A y \in T : ~(y < x)
  <2> HIDE DEF R
  <2> QED BY <1>3, <1>4
<1>6. \A y \in T : x <= y
  BY <1>5
<1> QED BY <1>6

(* A set that holds 0, and n + 1 with n, holds every natural number.       *)
LEMMA Induction ==
  ASSUME NEW S, 0 \in S, \A n \in Nat : n \in S => n + 1 \in S
  PROVE  Nat \subseteq S
<1> DEFINE T == Nat \ S
<1>1. SUFFICES ASSUME T # {} PROVE FALSE
  OBVIOUS
<1>2. PICK x \in T : \A y \in T : x <= y
  BY <1>1, LeastNat
<1>3. x # 0 /\ x \in Nat
  OBVIOUS
<1>4. x - 1 \in Nat /\ ~(x <= x - 1) /\ (x - 1) + 1 = x
  BY <1>3
<1>5. x - 1 \in S
  BY <1>2, <1>4
<1> QED BY <1>4, <1>5

-----------------------------------------------------------------------------
(* Arithmetic.                                                             *)

(* The test by division asks whether the product fits.                     *)
LEMMA DivisionTest ==
  ASSUME NEW m \in Nat, NEW p \in Nat, NEW d \in Nat \ {0}
  PROVE  p <= m \div d <=> p * d <= m
<1> DEFINE q == m \div d
<1>1. q \in Int /\ q * d <= m /\ m < q * d + d
  OBVIOUS
<1> HIDE DEF q
<1>2. ASSUME p <= q PROVE p * d <= m
  <2>1. (q - p) \in Nat
    BY <1>1, <1>2
  <2>2. (q - p) * d \in Nat
    BY <2>1
  <2>3. (q - p) * d = q * d - p * d
    BY <1>1
  <2> QED BY <1>1, <2>2, <2>3
<1>3. ASSUME p > q PROVE p * d > m
  <2>1. (p - q) - 1 \in Nat
    BY <1>1, <1>3
  <2>2. ((p - q) - 1) * d \in Nat
    BY <2>1
  <2>3. ((p - q) - 1) * d = p * d - q * d - d
    BY <1>1
  <2> QED BY <1>1, <2>2, <2>3
<1> QED BY <1>1, <1>2, <1>3 DEF q

(* A number that fits in a word does not wrap around.                      *)
LEMMA WrapFits ==
  ASSUME NEW n \in 0..MaxWord
  PROVE  Wrap(n) = n
BY MaxWordAssumption DEF Wrap

(* The running products satisfy the equations that define them.            *)
LEMMA ProductsDef ==
  ASSUME dims \in Seq(Int)
  PROVE  /\ Products \in [0..Len(dims) -> Int]
         /\ Products[0] = 1
         /\ \A n \in 1..Len(dims) : Products[n] = Products[n - 1] * dims[n]
<1> DEFINE L == Len(dims)
           Runs(f, m) == f[0] = 1 /\ \A n \in 1..m : f[n] = f[n - 1] * dims[n]
           Exist(m) == m <= L => \E f \in [0..m -> Int] : Runs(f, m)
           S == {m \in Nat : Exist(m)}
<1>1. L \in Nat /\ \A n \in 1..L : dims[n] \in Int
  OBVIOUS
<1>2. Exist(0)
  <2> DEFINE f == [n \in 0..0 |-> 1]
  <2>1. f \in [0..0 -> Int] /\ Runs(f, 0)
    OBVIOUS
  <2> QED BY <2>1
<1>3. ASSUME NEW m \in Nat, Exist(m) PROVE Exist(m + 1)
  <2> SUFFICES ASSUME m + 1 <= L PROVE \E g \in [0..(m + 1) -> Int] : Runs(g, m + 1)
    OBVIOUS
  <2>0. m <= L
    BY <1>1
  <2>1. PICK f \in [0..m -> Int] : Runs(f, m)
    BY <2>0, <1>3
  <2> DEFINE g == [n \in 0..(m + 1) |-> IF n = m + 1 THEN f[m] * dims[m + 1] ELSE f[n]]
  <2>2. f[m] * dims[m + 1] \in Int
    BY <1>1
  <2>3. g \in [0..(m + 1) -> Int]
    BY <2>2
  <2>4. g[0] = 1
    BY <2>1
  <2>5. ASSUME NEW n \in 1..(m + 1) PROVE g[n] = g[n - 1] * dims[n]
    <3>1. CASE n = m + 1
      BY <3>1
    <3>2. CASE n # m + 1
      <4>1. n \in 1..m /\ n \in 0..(m + 1) /\ n - 1 \in 0..(m + 1) /\ n - 1 # m + 1
        BY <3>2
      <4>2. g[n] = f[n] /\ g[n - 1] = f[n - 1]
        BY <4>1, <3>2
      <4> QED BY <4>1, <4>2, <2>1
    <3> QED BY <3>1, <3>2
  <2> HIDE DEF g
  <2>6. Runs(g, m + 1)
    BY <2>4, <2>5
  <2> QED BY <2>3, <2>6
<1>4. Exist(L)
  <2> HIDE DEF Exist
  <2>1. 0 \in S /\ \A n \in Nat : n \in S => n + 1 \in S
    BY <1>2, <1>3
  <2>2. Nat \subseteq S
    <3> HIDE DEF S
    <3> QED BY <2>1, Induction
  <2> QED BY <2>2, <1>1
<1>5. PICK f \in [0..L -> Int] : Runs(f, L)
  BY <1>1, <1>4
<1> DEFINE Eq(p) == p = [n \in 0..L |-> IF n = 0 THEN 1 ELSE p[n - 1] * dims[n]]
<1>6. Eq(f)
  <2>1. \A n \in 0..L : f[n] = IF n = 0 THEN 1 ELSE f[n - 1] * dims[n]
    <3> TAKE n \in 0..L
    <3>1. n # 0 => n \in 1..L
      BY <1>1
    <3> QED BY <3>1, <1>5
  <2> QED BY <2>1, <1>5
<1>7. Products = CHOOSE p : Eq(p)
  BY DEF Products
<1>8. Eq(Products)
  <2> HIDE DEF Eq
  <2> QED BY <1>6, <1>7
<1>9. /\ DOMAIN Products = 0..L
      /\ \A n \in 0..L : Products[n] = IF n = 0 THEN 1 ELSE Products[n - 1] * dims[n]
  <2>1. Products = [n \in 0..L |-> IF n = 0 THEN 1 ELSE Products[n - 1] * dims[n]]
    BY <1>8
  <2> DEFINE e == [n \in 0..L |-> IF n = 0 THEN 1 ELSE Products[n - 1] * dims[n]]
  <2>2. DOMAIN e = 0..L /\ \A n \in 0..L : e[n] = IF n = 0 THEN 1 ELSE Products[n - 1] * dims[n]
    OBVIOUS
  <2> HIDE DEF e
  <2>3. Products = e
    BY <2>1 DEF e
  <2> QED BY <2>2, <2>3
<1>10. Products[0] = 1 /\ \A n \in 1..L : Products[n] = Products[n - 1] * dims[n]
  <2>1. 0 \in 0..L /\ \A n \in 1..L : n \in 0..L /\ n # 0
    BY <1>1
  <2> QED BY <2>1, <1>9
<1> DEFINE D == {n \in Nat : n <= L => Products[n] \in Int}
<1>11. \A n \in 0..L : Products[n] \in Int
  <2>1. 0 \in D
    BY <1>10
  <2>2. ASSUME NEW n \in Nat, n \in D PROVE n + 1 \in D
    <3> SUFFICES ASSUME n + 1 <= L PROVE Products[n + 1] \in Int
      OBVIOUS
    <3>1. Products[n] \in Int /\ dims[n + 1] \in Int /\ n + 1 \in 1..L /\ (n + 1) - 1 = n
      BY <2>2, <1>1
    <3>2. Products[n + 1] = Products[n] * dims[n + 1]
      BY <3>1, <1>10
    <3> QED BY <3>1, <3>2
  <2>3. Nat \subseteq D
    <3> HIDE DEF D
    <3> QED BY <2>1, <2>2, Induction
  <2> QED BY <2>3, <1>1
<1>12. Products \in [0..L -> Int]
  <2>1. Products = [n \in 0..L |-> Products[n]]
    BY <1>8, <1>9
  <2> QED BY <2>1, <1>11
<1> QED BY <1>10, <1>12

(* A dim of 0 makes every later running product 0.                         *)
LEMMA ZeroSticks ==
  ASSUME dims \in Seq(Int), NEW z \in 1..Len(dims), dims[z] = 0
  PROVE  TrueCount = 0
<1> DEFINE L == Len(dims)
           S == {m \in Nat : z + m <= L => Products[z + m] = 0}
<1>1. /\ L \in Nat /\ \A n \in 1..L : dims[n] \in Int
      /\ \A n \in 0..L : Products[n] \in Int
      /\ \A n \in 1..L : Products[n] = Products[n - 1] * dims[n]
  <2>1. L \in Nat /\ \A n \in 1..L : dims[n] \in Int
    OBVIOUS
  <2>2. Products \in [0..L -> Int] /\ \A n \in 1..L : Products[n] = Products[n - 1] * dims[n]
    BY ProductsDef
  <2> QED BY <2>1, <2>2
<1>2. 0 \in S
  <2>1. Products[z - 1] \in Int /\ z + 0 = z
    BY <1>1
  <2> QED BY <2>1, <1>1
<1>3. ASSUME NEW m \in Nat, m \in S PROVE m + 1 \in S
  <2> SUFFICES ASSUME z + (m + 1) <= L PROVE Products[z + (m + 1)] = 0
    OBVIOUS
  <2> DEFINE n == z + (m + 1)
  <2>1. n \in 1..L /\ n - 1 = z + m /\ z + m <= L
    BY <1>1
  <2>2. Products[n - 1] = 0
    BY <2>1, <1>3
  <2> HIDE DEF n
  <2>3. Products[n] = Products[n - 1] * dims[n] /\ dims[n] \in Int
    BY <2>1, <1>1
  <2> QED BY <2>2, <2>3 DEF n
<1>4. Nat \subseteq S
  <2> HIDE DEF S
  <2> QED BY <1>2, <1>3, Induction
<1>5. L - z \in Nat /\ z + (L - z) = L
  BY <1>1
<1> QED BY <1>4, <1>5 DEF TrueCount

-----------------------------------------------------------------------------
(* The inductive invariant: what each loop has established so far.         *)

(* No product the counting loop forms is larger than a word.               *)
Countable ==
  \A n \in DOMAIN dims : (\A j \in 1..n : dims[j] > 0) => Products[n] <= MaxWord

LoopInv ==
  /\ pc = "convert" =>
       /\ product = 1
       /\ \A j \in DOMAIN dims : dims[j] <= MaxWord
       /\ \A j \in 1..(i - 1) : dims[j] >= 0
  /\ pc = "count" =>
       /\ NonNegative /\ product # 0
       /\ \A j \in DOMAIN dims : dims[j] <= MaxWord
       /\ product = Products[i - 1]
       /\ \A n \in 1..(i - 1) : dims[n] > 0 /\ Products[n] <= MaxWord
  /\ pc = "bytes" \/ status \in {"ok", "bytes_overflow"} =>
       NonNegative /\ product = TrueCount /\ Countable
  /\ status = "none" <=> pc # "done"

IInv == TypeOK /\ LoopInv /\ SizeIsTrue /\ ErrorsJustified

(* What the invariant says of the numbers.                                 *)
LEMMA DimFacts ==
  ASSUME TypeOK
  PROVE  /\ Len(dims) \in Nat /\ DOMAIN dims = 1..Len(dims)
         /\ \A n \in 1..Len(dims) : dims[n] \in Int
         /\ i \in Nat \ {0} /\ product \in Nat /\ product <= MaxWord /\ MaxWord \in Nat
         /\ dims \in Seq(Int) /\ SizeOfDataType(dtype) \in {4, 8}
<1>1. dims \in Seq(Int) /\ i \in 1..(Len(dims) + 1) /\ product \in 0..MaxWord
  BY DEF TypeOK
<1>2. Len(dims) \in Nat /\ DOMAIN dims = 1..Len(dims) /\ \A n \in 1..Len(dims) : dims[n] \in Int
  BY <1>1
<1> QED BY <1>1, <1>2, MaxWordAssumption DEF SizeOfDataType

(* Where a step does not change the dims, what is said of them stays.      *)
LEMMA SameDims ==
  ASSUME dims' = dims
  PROVE  /\ Products' = Products /\ TrueCount' = TrueCount
         /\ (NonNegative' <=> NonNegative) /\ (Countable' <=> Countable)
BY DEF Products, TrueCount, NonNegative, Countable

LEMMA InitInv == Init => IInv
<1> SUFFICES ASSUME Init PROVE IInv
  OBVIOUS
<1>1. dims \in Seq(Int) /\ i = 1 /\ product = 1 /\ nbytes = 0 /\ status = "none"
      /\ \A j \in DOMAIN dims : dims[j] <= MaxWord
  <2>1. CASE dims \in SignedDims
    BY <2>1, DimsAssumption DEF Init
  <2>2. CASE dims \in Dims
    <3>1. dims \in Seq(0..MaxWord)
      BY <2>2, DimsAssumption
    <3>2. dims \in Seq(Int) /\ \A j \in DOMAIN dims : dims[j] \in 0..MaxWord
      BY <3>1, MaxWordAssumption
    <3>3. \A j \in DOMAIN dims : dims[j] <= MaxWord
      BY <3>2, MaxWordAssumption
    <3> QED BY <3>2, <3>3 DEF Init
  <2> QED BY <2>1, <2>2 DEF Init
<1>2. TypeOK
  <2>1. Len(dims) \in Nat
    BY <1>1
  <2> QED BY <2>1, <1>1, MaxWordAssumption DEF Init, TypeOK
<1>3. pc = "count" => NonNegative
  <2> SUFFICES ASSUME dims \in Dims PROVE NonNegative
    BY DEF Init
  <2>1. dims \in Seq(0..MaxWord)
    BY DimsAssumption
  <2>2. dims \in Seq(Int) /\ \A j \in DOMAIN dims : dims[j] \in 0..MaxWord
    BY <2>1, MaxWordAssumption
  <2> QED BY <2>2, MaxWordAssumption DEF NonNegative
<1>4. product = Products[i - 1]
  <2>1. i - 1 = 0
    BY <1>1
  <2> QED BY <2>1, <1>1, ProductsDef
<1>5. LoopInv
  <2>1. \A j \in 1..(i - 1) : FALSE
    BY <1>1
  <2>2. pc # "bytes" /\ pc # "done"
    BY DEF Init
  <2> QED BY <2>1, <2>2, <1>1, <1>3, <1>4 DEF LoopInv
<1> QED BY <1>1, <1>2, <1>5 DEF IInv, SizeIsTrue, ErrorsJustified

-----------------------------------------------------------------------------
(* FromSignedDims.                                                         *)

LEMMA ConvertInv ==
  IInv /\ (RejectNegative \/ ConvertDim \/ Converted) => IInv'
<1> SUFFICES ASSUME IInv, RejectNegative \/ ConvertDim \/ Converted PROVE IInv'
  OBVIOUS
<1> USE DEF IInv
<1>1. /\ dims' = dims /\ dtype' = dtype /\ product' = product /\ nbytes' = nbytes
      /\ pc = "convert" /\ status = "none" /\ product = 1
      /\ (\A j \in DOMAIN dims : dims[j] <= MaxWord) /\ \A j \in 1..(i - 1) : dims[j] >= 0
  BY DEF RejectNegative, ConvertDim, Converted, LoopInv
<1>2. Len(dims) \in Nat /\ DOMAIN dims = 1..Len(dims) /\ i \in Nat \ {0} /\ i <= Len(dims) + 1
  BY DimFacts DEF TypeOK
<1>3. CASE RejectNegative
  <2>1. i \in DOMAIN dims /\ dims[i] < 0 /\ i' = i /\ pc' = "done" /\ status' = "negative_dim"
    BY <1>2, <1>3 DEF RejectNegative, Return
  <2>2. ~NonNegative
    <3>1. dims[i] \in Int
      BY <2>1, <1>2, DimFacts
    <3> QED BY <2>1, <3>1 DEF NonNegative
  <2>3. TypeOK'
    BY <2>1, <1>1 DEF TypeOK
  <2>4. LoopInv' /\ SizeIsTrue' /\ ErrorsJustified'
    BY <2>1, <2>2, <1>1, SameDims DEF LoopInv, SizeIsTrue, ErrorsJustified
  <2> QED BY <2>3, <2>4
<1>4. CASE ConvertDim
  <2>1. i <= Len(dims) /\ dims[i] >= 0 /\ i' = i + 1 /\ pc' = "convert" /\ status' = "none"
    BY <1>1, <1>4 DEF ConvertDim
  <2>2. \A j \in 1..(i' - 1) : dims[j] >= 0
    BY <2>1, <1>1, <1>2
  <2>3. i' \in 1..(Len(dims) + 1)
    BY <2>1, <1>2
  <2>4. TypeOK'
    BY <2>1, <2>3, <1>1 DEF TypeOK
  <2>5. LoopInv' /\ SizeIsTrue' /\ ErrorsJustified'
    BY <2>1, <2>2, <1>1 DEF LoopInv, SizeIsTrue, ErrorsJustified
  <2> QED BY <2>4, <2>5
<1>5. CASE Converted
  <2>1. i > Len(dims) /\ i' = 1 /\ pc' = "count" /\ status' = "none"
    BY <1>1, <1>5 DEF Converted
  <2>2. NonNegative
    BY <2>1, <1>1, <1>2 DEF NonNegative
  <2>3. Products[i' - 1] = 1 /\ \A n \in 1..(i' - 1) : FALSE
    <3>1. i' - 1 = 0
      BY <2>1
    <3> QED BY <3>1, DimFacts, ProductsDef
  <2>4. TypeOK'
    BY <2>1, <1>1, <1>2 DEF TypeOK
  <2>5. LoopInv' /\ SizeIsTrue' /\ ErrorsJustified'
    BY <2>1, <2>2, <2>3, <1>1, SameDims DEF LoopInv, SizeIsTrue, ErrorsJustified
  <2> QED BY <2>4, <2>5
<1> QED BY <1>3, <1>4, <1>5

-----------------------------------------------------------------------------
(* NumElementsChecked.                                                     *)

(* The next dim: the test by division decides whether the next running     *)
(* product fits in a word.                                                 *)
LEMMA NextProduct ==
  ASSUME IInv, pc = "count", i <= Len(dims), dims[i] # 0
  PROVE  /\ i \in DOMAIN dims /\ dims[i] > 0
         /\ Products[i] = product * dims[i] /\ Products[i] \in Nat
         /\ Products[i] # 0
         /\ Overflows(dims[i]) <=> Products[i] > MaxWord
<1>1. /\ Len(dims) \in Nat /\ DOMAIN dims = 1..Len(dims) /\ i \in 1..Len(dims)
      /\ product \in Nat \ {0} /\ MaxWord \in Nat /\ product = Products[i - 1]
      /\ dims[i] \in Int /\ dims[i] >= 0
  <2>1. NonNegative /\ product = Products[i - 1] /\ product # 0
    BY DEF IInv, LoopInv
  <2>2. i \in 1..Len(dims) /\ TypeOK
    BY DimFacts DEF IInv
  <2> QED BY <2>1, <2>2, DimFacts DEF NonNegative
<1>2. dims[i] \in Nat \ {0}
  BY <1>1
<1>3. Products[i] = product * dims[i]
  BY <1>1, ProductsDef DEF IInv, TypeOK
<1>4. product * dims[i] \in Nat \ {0}
  <2>1. (product - 1) * dims[i] \in Nat
    BY <1>1, <1>2
  <2>2. product * dims[i] = (product - 1) * dims[i] + dims[i]
    BY <1>1, <1>2
  <2> QED BY <2>1, <2>2, <1>2
<1>5. product <= MaxWord \div dims[i] <=> product * dims[i] <= MaxWord
  BY <1>1, <1>2, DivisionTest
<1>6. MaxWord \div dims[i] \in Int
  BY <1>1, <1>2
<1>7. Overflows(dims[i]) <=> ~(product <= MaxWord \div dims[i])
  BY <1>1, <1>6 DEF Overflows
<1> QED BY <1>1, <1>2, <1>3, <1>4, <1>5, <1>7

LEMMA CountInv ==
  IInv /\ (ZeroDim \/ RejectCount \/ Multiply \/ Counted) => IInv'
<1> SUFFICES ASSUME IInv, ZeroDim \/ RejectCount \/ Multiply \/ Counted PROVE IInv'
  OBVIOUS
<1> USE DEF IInv
<1>1. /\ dims' = dims /\ dtype' = dtype /\ nbytes' = nbytes
      /\ pc = "count" /\ status = "none" /\ NonNegative /\ product # 0
      /\ (\A j \in DOMAIN dims : dims[j] <= MaxWord)
      /\ product = Products[i - 1]
      /\ \A n \in 1..(i - 1) : dims[n] > 0 /\ Products[n] <= MaxWord
  BY DEF ZeroDim, RejectCount, Multiply, Counted, LoopInv
<1>2. /\ Len(dims) \in Nat /\ DOMAIN dims = 1..Len(dims) /\ i \in Nat \ {0}
      /\ i <= Len(dims) + 1 /\ dims \in Seq(Int)
  BY DimFacts DEF TypeOK
<1>3. CASE ZeroDim
  <2>1. /\ i \in 1..Len(dims) /\ dims[i] = 0 /\ product' = 0 /\ pc' = "bytes" /\ i' = i
        /\ status' = "none"
    BY <1>1, <1>2, <1>3 DEF ZeroDim
  <2>2. TrueCount = 0
    BY <2>1, <1>2, ZeroSticks
  <2>3. Countable
    <3> SUFFICES ASSUME NEW n \in DOMAIN dims, \A j \in 1..n : dims[j] > 0
                 PROVE  Products[n] <= MaxWord
      BY DEF Countable
    <3>1. ~(i \in 1..n)
      BY <2>1
    <3>2. n \in 1..(i - 1)
      BY <3>1, <2>1, <1>2
    <3> QED BY <3>2, <1>1
  <2>4. TypeOK'
    BY <2>1, <1>1, MaxWordAssumption DEF TypeOK
  <2>5. LoopInv' /\ SizeIsTrue' /\ ErrorsJustified'
    BY <2>1, <2>2, <2>3, <1>1, SameDims DEF LoopInv, SizeIsTrue, ErrorsJustified
  <2> QED BY <2>4, <2>5
<1>4. CASE RejectCount
  <2>1. /\ i <= Len(dims) /\ dims[i] # 0 /\ Overflows(dims[i]) /\ pc' = "done"
        /\ status' = "elements_overflow" /\ i' = i /\ product' = product
    BY <1>4 DEF RejectCount, Return
  <2>2. i \in DOMAIN dims /\ dims[i] > 0 /\ Products[i] > MaxWord
    BY <2>1, <1>1, NextProduct
  <2>3. \A j \in 1..i : dims[j] > 0
    BY <2>2, <1>1, <1>2
  <2>4. TypeOK'
    BY <2>1, <1>1 DEF TypeOK
  <2>5. LoopInv' /\ SizeIsTrue' /\ ErrorsJustified'
    BY <2>1, <2>2, <2>3, <1>1, SameDims DEF LoopInv, SizeIsTrue, ErrorsJustified
  <2> QED BY <2>4, <2>5
<1>5. CASE Multiply
  <2>1. /\ i <= Len(dims) /\ dims[i] # 0 /\ ~Overflows(dims[i]) /\ pc' = "count"
        /\ product' = Wrap(product * dims[i]) /\ i' = i + 1 /\ status' = "none"
    BY <1>1, <1>5 DEF Multiply
  <2>2. /\ i \in DOMAIN dims /\ dims[i] > 0 /\ Products[i] \in Nat /\ Products[i] # 0
        /\ Products[i] <= MaxWord /\ product' = Wrap(Products[i])
    BY <2>1, <1>1, NextProduct, MaxWordAssumption
  <2>3. product' = Products[i] /\ product' \in 0..MaxWord
    BY <2>2, WrapFits, MaxWordAssumption
  <2>4. i' - 1 = i /\ i' \in 1..(Len(dims) + 1)
    BY <2>1, <1>2
  <2>5. \A n \in 1..i : dims[n] > 0 /\ Products[n] <= MaxWord
    <3> TAKE n \in 1..i
    <3>1. n \in 1..(i - 1) \/ n = i
      BY <1>2
    <3> QED BY <3>1, <2>2, <1>1
  <2>6. TypeOK'
    BY <2>1, <2>3, <2>4, <1>1 DEF TypeOK
  <2>7. LoopInv'
    BY <2>1, <2>2, <2>3, <2>4, <2>5, <1>1, SameDims DEF LoopInv
  <2>8. SizeIsTrue' /\ ErrorsJustified'
    BY <2>1 DEF SizeIsTrue, ErrorsJustified
  <2> QED BY <2>6, <2>7, <2>8
<1>6. CASE Counted
  <2>1. i > Len(dims) /\ pc' = "bytes" /\ i' = i /\ product' = product /\ status' = "none"
    BY <1>1, <1>6 DEF Counted
  <2>2. i - 1 = Len(dims)
    BY <2>1, <1>2
  <2>3. product = TrueCount /\ Countable
    BY <2>2, <1>1, <1>2 DEF TrueCount, Countable
  <2>4. TypeOK'
    BY <2>1, <1>1 DEF TypeOK
  <2>5. LoopInv' /\ SizeIsTrue' /\ ErrorsJustified'
    BY <2>1, <2>3, <1>1, SameDims DEF LoopInv, SizeIsTrue, ErrorsJustified
  <2> QED BY <2>4, <2>5
<1> QED BY <1>3, <1>4, <1>5, <1>6

-----------------------------------------------------------------------------
(* ComputeNBytes.                                                          *)

LEMMA BytesInv == IInv /\ (RejectBytes \/ Sized) => IInv'
<1> SUFFICES ASSUME IInv, RejectBytes \/ Sized PROVE IInv'
  OBVIOUS
<1> USE DEF IInv
<1> DEFINE e == SizeOfDataType(dtype)
<1>1. /\ dims' = dims /\ dtype' = dtype /\ i' = i /\ product' = product
      /\ pc = "bytes" /\ status = "none" /\ NonNegative /\ product = TrueCount /\ Countable
      /\ pc' = "done"
  BY DEF RejectBytes, Sized, Return, LoopInv
<1>2. product \in Nat /\ MaxWord \in Nat /\ e \in Nat \ {0}
  <2>1. e \in {4, 8}
    BY DimFacts
  <2> QED BY <2>1, DimFacts
<1> HIDE DEF e
<1>3. product <= MaxWord \div e <=> product * e <= MaxWord
  BY <1>2, DivisionTest
<1>4. MaxWord \div e \in Int /\ product * e \in Nat
  BY <1>2
<1>5. CASE RejectBytes
  <2>1. status' = "bytes_overflow" /\ nbytes' = nbytes /\ product > MaxWord \div e
    BY <1>5 DEF RejectBytes, Return, e
  <2>2. TrueCount * e > MaxWord
    BY <2>1, <1>1, <1>2, <1>3, <1>4
  <2>3. TrueCount' * SizeOfDataType(dtype)' > MaxWord
    BY <2>2, <1>1, SameDims DEF e
  <2>4. TypeOK'
    BY <2>1, <1>1 DEF TypeOK
  <2>5. LoopInv' /\ SizeIsTrue' /\ ErrorsJustified'
    BY <2>1, <2>3, <1>1, SameDims DEF LoopInv, SizeIsTrue, ErrorsJustified
  <2> QED BY <2>4, <2>5
<1>6. CASE Sized
  <2>1. status' = "ok" /\ nbytes' = Wrap(product * e) /\ product <= MaxWord \div e
    BY <1>6 DEF Sized, Return, e
  <2>2. nbytes' = product * e /\ nbytes' \in 0..MaxWord
    <3>1. product * e \in 0..MaxWord
      BY <2>1, <1>2, <1>3, <1>4
    <3> QED BY <3>1, <2>1, WrapFits
  <2>3. nbytes' = TrueCount' * SizeOfDataType(dtype)'
    BY <2>2, <1>1, SameDims DEF e
  <2>4. TypeOK'
    BY <2>1, <2>2, <1>1 DEF TypeOK
  <2>5. LoopInv' /\ SizeIsTrue' /\ ErrorsJustified'
    BY <2>1, <2>3, <1>1, SameDims DEF LoopInv, SizeIsTrue, ErrorsJustified
  <2> QED BY <2>4, <2>5
<1> QED BY <1>5, <1>6

-----------------------------------------------------------------------------
LEMMA StutterInv == IInv /\ UNCHANGED vars => IInv'
<1> SUFFICES ASSUME IInv, UNCHANGED vars PROVE IInv'
  OBVIOUS
<1>1. /\ dims' = dims /\ dtype' = dtype /\ pc' = pc /\ i' = i /\ product' = product
      /\ nbytes' = nbytes /\ status' = status
  BY DEF vars
<1>2. TypeOK'
  BY <1>1 DEF IInv, TypeOK
<1>3. LoopInv' /\ SizeIsTrue' /\ ErrorsJustified'
  BY <1>1, SameDims DEF IInv, LoopInv, SizeIsTrue, ErrorsJustified
<1> QED BY <1>2, <1>3 DEF IInv

LEMMA NextInv == IInv /\ [Next]_vars => IInv'
BY ConvertInv, CountInv, BytesInv, StutterInv DEF Next, Returned

LEMMA Inductive == Spec => []IInv
<1>1. Init => IInv
  BY InitInv
<1>2. IInv /\ [Next]_vars => IInv'
  BY NextInv
<1> QED BY <1>1, <1>2, PTL DEF Spec

-----------------------------------------------------------------------------
(* The results.                                                            *)

(* A size that is returned is the true one, in unbounded arithmetic: no    *)
(* multiplication on the way has wrapped around.                           *)
THEOREM SizesAreTrue == Spec => []SizeIsTrue
<1>1. IInv => SizeIsTrue
  BY DEF IInv
<1> QED BY <1>1, Inductive, PTL

(* An error is returned only for a negative dim, for a running product of  *)
(* dims in front of any 0 that does not fit, or for too many bytes.        *)
THEOREM ErrorsAreJustified == Spec => []ErrorsJustified
<1>1. IInv => ErrorsJustified
  BY DEF IInv
<1> QED BY <1>1, Inductive, PTL

-----------------------------------------------------------------------------
(* PART 2: the conversion.                                                 *)

(* The inductive invariant: which of its values a stage can count on.      *)

Typed ==
  /\ proto \in Payloads
  /\ stage \in {"type", "shape", "create", "fill", "copy", "done"}
  /\ size \in 0..MaxWord /\ written \in Nat
  /\ result \in {"none", "ok", "bad_tensor", "oom"} /\ (result = "none") = (stage # "done")

(* The product of the loader, which nothing guards, in the words of        *)
(* TensorSize.                                                             *)
Multiplied == size = Wrap(product * Element)

Stages ==
  /\ stage # "type" /\ stage # "done" => proto.data_type # "OTHER"
  /\ stage \in {"type", "shape", "create"} => status = "none" /\ written = 0
  /\ stage = "create" => pc = "bytes"
  /\ stage \in {"create", "fill", "copy"} => Multiplied
  /\ HasBuffer => status = "ok" /\ Multiplied
  /\ stage = "fill" => written = 0
  /\ stage = "copy" =>
       /\ size > 0 /\ proto.raw_data = 0 /\ Elements = product
       /\ \E m \in 0..product : written = m * Element
  /\ written > 0 => HasBuffer
  /\ result = "ok" => written = nbytes /\ Convertible
  /\ result = "bad_tensor" => ~Convertible

ProtoInv == IInv /\ Typed /\ Stages

(* With a buffer both products are the true size of the shape, which fits  *)
(* in a word.                                                              *)
LEMMA BufferSize ==
  ASSUME IInv, status = "ok", Multiplied
  PROVE  /\ size = nbytes /\ nbytes = TrueCount * Element
         /\ product = TrueCount /\ product \in Nat
         /\ nbytes \in 0..MaxWord
         /\ NonNegative
         /\ \A n \in DOMAIN dims : (\A j \in 1..n : dims[j] > 0) => Products[n] <= MaxWord
<1>1. /\ NonNegative /\ product = TrueCount /\ Countable
      /\ nbytes = TrueCount * SizeOfDataType(dtype)
      /\ nbytes \in 0..MaxWord /\ product \in 0..MaxWord
  BY DEF IInv, LoopInv, SizeIsTrue, TypeOK
<1>2. product \in Nat
  BY <1>1, MaxWordAssumption
<1>3. Wrap(nbytes) = nbytes
  BY <1>1, WrapFits
<1>4. size = nbytes
  BY <1>1, <1>3 DEF Multiplied, Element
<1> QED BY <1>1, <1>2, <1>4 DEF Countable, Element

(* The argument and the element type do not change, nor what follows from  *)
(* them.                                                                   *)
LEMMA SameArgument ==
  ASSUME dims' = dims, dtype' = dtype, proto' = proto
  PROVE  /\ Convertible' <=> Convertible
         /\ Elements' = Elements /\ Element' = Element
         /\ TrueCount' = TrueCount
BY DEF Convertible, Elements, Element, SizeOfDataType, TrueCount, Products,
       NonNegative

LEMMA ElementFacts == Element \in Nat \ {0}
BY DEF Element, SizeOfDataType

LEMMA ProtoInitInv == ProtoInit => ProtoInv
<1> SUFFICES ASSUME ProtoInit PROVE ProtoInv
  OBVIOUS
<1>1. IInv
  BY InitInv DEF ProtoInit
<1>2. status = "none" /\ size = 0 /\ written = 0 /\ stage = "type" /\ result = "none"
      /\ proto \in Payloads
  BY DEF ProtoInit, Init
<1>3. Typed /\ Stages
  BY <1>2, MaxWordAssumption DEF Typed, Stages, HasBuffer
<1> QED BY <1>1, <1>3 DEF ProtoInv

-----------------------------------------------------------------------------
(* Up to the buffer.                                                       *)

(* A step of the callee, or none, leaves its invariant true.               *)
LEMMA SizeGoesOn ==
  ASSUME IInv,
         \/ RejectNegative \/ ConvertDim \/ Converted
         \/ ZeroDim \/ RejectCount \/ Multiply \/ Counted
         \/ RejectBytes \/ Sized
         \/ UNCHANGED sizeVars
  PROVE  IInv'
BY ConvertInv, CountInv, BytesInv, StutterInv DEF sizeVars

LEMMA MapElemTypeInv == ProtoInv /\ MapElemType => ProtoInv'
<1> SUFFICES ASSUME ProtoInv, MapElemType PROVE ProtoInv'
  OBVIOUS
<1>1. /\ dims' = dims /\ dtype' = dtype /\ proto' = proto /\ size' = size /\ written' = written
      /\ status' = status /\ status = "none" /\ written = 0 /\ stage = "type"
      /\ UNCHANGED sizeVars
  BY DEF ProtoInv, Stages, MapElemType, sizeVars, vars
<1>2. IInv'
  BY <1>1, SizeGoesOn DEF ProtoInv
<1>3. CASE proto.data_type = "OTHER" /\ Answer("bad_tensor")
  <2>1. stage' = "done" /\ result' = "bad_tensor" /\ ~Convertible
    BY <1>3 DEF Answer, Convertible
  <2> QED BY <2>1, <1>1, <1>2, SameArgument DEF ProtoInv, Typed, Stages, HasBuffer
<1>4. CASE proto.data_type # "OTHER" /\ Enter("shape")
  <2>1. stage' = "shape" /\ result' = result
    BY <1>4 DEF Enter
  <2>2. result' = "none"
    BY <2>1, <1>1 DEF ProtoInv, Typed
  <2> QED BY <2>1, <2>2, <1>1, <1>2, <1>4 DEF ProtoInv, Typed, Stages, HasBuffer
<1> QED BY <1>3, <1>4 DEF MapElemType

(* A shape is refused for a defect that Convertible excludes.              *)
LEMMA ShapeInv == ProtoInv /\ Shape => ProtoInv'
<1> SUFFICES ASSUME ProtoInv, Shape PROVE ProtoInv'
  OBVIOUS
<1>1. /\ dims' = dims /\ dtype' = dtype /\ proto' = proto /\ size' = size /\ written' = written
      /\ status = "none" /\ written = 0 /\ stage = "shape" /\ result = "none"
      /\ proto.data_type # "OTHER"
  BY DEF ProtoInv, Stages, Typed, Shape, RejectNegative, ConvertDim, Converted,
         ZeroDim, RejectCount, Multiply, Counted
<1>2. IInv'
  BY SizeGoesOn DEF ProtoInv, Shape
<1>3. CASE pc' = "done"
  <2>1. stage' = "done" /\ result' = "bad_tensor"
    BY <1>3 DEF Shape, Answer
  <2>2. status' \in {"negative_dim", "elements_overflow"}
    <3>1. pc # "done"
      BY <1>1 DEF ProtoInv, IInv, LoopInv
    <3> QED BY <3>1, <1>3 DEF Shape, RejectNegative, ConvertDim, Converted,
         ZeroDim, RejectCount, Multiply, Counted, Return
  <2>3. /\ status' = "negative_dim" => ~NonNegative
        /\ status' = "elements_overflow" =>
             \E n \in DOMAIN dims :
               Products[n] > MaxWord /\ \A j \in 1..n : dims[j] > 0
    <3>1. ErrorsJustified'
      BY <1>2 DEF IInv
    <3>2. (NonNegative' <=> NonNegative) /\ Products' = Products
      BY <1>1 DEF NonNegative, Products
    <3> QED BY <3>1, <3>2, <1>1 DEF ErrorsJustified
  <2>4. ~Convertible
    <3>1. TypeOK
      BY DEF ProtoInv, IInv
    <3>2. \A n \in DOMAIN dims : Products[n] \in Int
      <4>1. dims \in Seq(Int) /\ Len(dims) \in Nat /\ DOMAIN dims = 1..Len(dims)
        BY <3>1, DimFacts
      <4>2. Products \in [0..Len(dims) -> Int]
        BY <4>1, ProductsDef
      <4> QED BY <4>1, <4>2
    <3> QED BY <3>2, <2>2, <2>3, MaxWordAssumption DEF Convertible
  <2> QED BY <2>1, <2>4, <1>1, <1>2, SameArgument DEF ProtoInv, Typed, Stages, HasBuffer
<1>4. CASE pc' # "done"
  <2>1. stage' = "shape" /\ result' = "none" /\ status' = "none"
    <3>1. LoopInv'
      BY <1>2 DEF IInv
    <3> QED BY <3>1, <1>1, <1>4 DEF Shape, LoopInv
  <2> QED BY <2>1, <1>1, <1>2 DEF ProtoInv, Typed, Stages, HasBuffer
<1> QED BY <1>3, <1>4

LEMMA MultiplySizeInv == ProtoInv /\ MultiplySize => ProtoInv'
<1> SUFFICES ASSUME ProtoInv, MultiplySize PROVE ProtoInv'
  OBVIOUS
<1>1. /\ dims' = dims /\ dtype' = dtype /\ proto' = proto /\ written' = written /\ product' = product
      /\ status' = status /\ status = "none" /\ written = 0 /\ stage = "shape"
      /\ pc' = pc /\ pc = "bytes" /\ result = "none" /\ result' = "none" /\ stage' = "create"
      /\ size' = Wrap(product * Element) /\ UNCHANGED sizeVars
      /\ proto.data_type # "OTHER"
  BY DEF ProtoInv, Stages, Typed, MultiplySize, Enter, sizeVars, vars
<1>2. IInv'
  BY <1>1, SizeGoesOn DEF ProtoInv
<1>3. size' \in 0..MaxWord
  <2>1. product \in 0..MaxWord
    BY DEF ProtoInv, IInv, TypeOK
  <2>2. product * Element \in Nat
    BY <2>1, ElementFacts, MaxWordAssumption
  <2> HIDE DEF Element
  <2> QED BY <2>2, <1>1, MaxWordAssumption DEF Wrap
<1>4. Multiplied'
  BY <1>1, SameArgument DEF Multiplied, Wrap
<1> QED BY <1>1, <1>2, <1>3, <1>4 DEF ProtoInv, Typed, Stages, HasBuffer

LEMMA CreateInv == ProtoInv /\ Create => ProtoInv'
<1> SUFFICES ASSUME ProtoInv, Create PROVE ProtoInv'
  OBVIOUS
<1>1. /\ dims' = dims /\ dtype' = dtype /\ proto' = proto /\ written' = written /\ product' = product
      /\ status = "none" /\ written = 0 /\ stage = "create" /\ size' = size
      /\ result = "none" /\ proto.data_type # "OTHER" /\ Multiplied
      /\ status' \in {"ok", "bytes_overflow"}
  BY DEF ProtoInv, Stages, Typed, Create, RejectBytes, Sized, Return
<1>2. IInv'
  BY SizeGoesOn DEF ProtoInv, Create
<1>3. Multiplied'
  BY <1>1, SameArgument DEF Multiplied, Wrap
<1>4. CASE status' = "bytes_overflow"
  <2>1. stage' = "done" /\ result' = "bad_tensor"
    BY <1>4 DEF Create, Answer
  <2>2. TrueCount * Element > MaxWord
    <3>1. TrueCount' * SizeOfDataType(dtype)' > MaxWord
      BY <1>2, <1>4 DEF IInv, ErrorsJustified
    <3>2. TrueCount' = TrueCount /\ SizeOfDataType(dtype)' = SizeOfDataType(dtype)
      BY <1>1 DEF TrueCount, Products, SizeOfDataType
    <3> QED BY <3>1, <3>2 DEF Element
  <2>3. TrueCount * Element \in Int
    <3>1. TypeOK
      BY DEF ProtoInv, IInv
    <3>2. TrueCount \in Int
      BY <3>1, DimFacts, ProductsDef DEF TrueCount
    <3> QED BY <3>2, ElementFacts
  <2>4. ~Convertible
    BY <2>2, <2>3, MaxWordAssumption DEF Convertible
  <2> QED BY <2>1, <2>4, <1>1, <1>2, <1>4, SameArgument DEF ProtoInv, Typed, Stages, HasBuffer
<1>5. CASE status' = "ok"
  <2>1. CASE Answer("oom")
    <3>1. stage' = "done" /\ result' = "oom"
      BY <2>1 DEF Answer
    <3> QED BY <3>1, <1>1, <1>2, <1>5 DEF ProtoInv, Typed, Stages, HasBuffer
  <2>2. CASE Enter("fill")
    <3>1. stage' = "fill" /\ result' = "none"
      BY <2>2, <1>1 DEF Enter
    <3> QED BY <3>1, <1>1, <1>2, <1>3, <1>5 DEF ProtoInv, Typed, Stages, HasBuffer
  <2> QED BY <2>1, <2>2, <1>5 DEF Create
<1> QED BY <1>1, <1>4, <1>5

-----------------------------------------------------------------------------
(* The copies.                                                             *)

(* The state in which a tensor is handed out or refused for its payload.   *)
LEMMA Filling ==
  ASSUME ProtoInv, stage \in {"fill", "copy"}, UNCHANGED <<sizeVars, proto, size>>
  PROVE  /\ IInv' /\ Multiplied' /\ status' = "ok"
         /\ (Convertible' <=> Convertible)
         /\ Elements' = Elements /\ Element' = Element /\ product' = product
         /\ nbytes' = nbytes /\ size' = size /\ proto' = proto
         /\ size = nbytes /\ nbytes \in Nat /\ product \in Nat /\ nbytes = product * Element
         /\ proto.raw_data \in Nat /\ Elements \in Nat /\ result = "none"
         /\ proto.data_type # "OTHER"
         /\ Convertible <=> \/ nbytes = 0 \/ proto.raw_data = nbytes
                            \/ (proto.raw_data = 0 /\ Elements = product)
<1>1. /\ dims' = dims /\ dtype' = dtype /\ product' = product /\ nbytes' = nbytes
      /\ status' = status /\ proto' = proto /\ size' = size /\ UNCHANGED sizeVars
  BY DEF sizeVars, vars
<1>2. status = "ok" /\ Multiplied /\ IInv /\ result = "none" /\ proto.data_type # "OTHER"
  BY DEF ProtoInv, Stages, Typed, HasBuffer
<1>3. IInv'
  BY <1>1, <1>2, SizeGoesOn
<1>4. Multiplied'
  BY <1>1, <1>2, SameArgument DEF Multiplied, Wrap
<1>5. proto.raw_data \in Nat /\ Elements \in Nat
  BY PayloadsAssumption DEF ProtoInv, Typed, Payload, Elements
<1>6. /\ size = nbytes /\ nbytes = TrueCount * Element /\ product = TrueCount
      /\ product \in Nat /\ nbytes \in 0..MaxWord /\ NonNegative
      /\ \A n \in DOMAIN dims : (\A j \in 1..n : dims[j] > 0) => Products[n] <= MaxWord
  BY <1>2, BufferSize
<1>7. nbytes \in Nat /\ nbytes <= MaxWord
  BY <1>6, MaxWordAssumption
<1>8. Convertible <=> \/ nbytes = 0 \/ proto.raw_data = nbytes
                      \/ (proto.raw_data = 0 /\ Elements = product)
  BY <1>2, <1>6, <1>7 DEF Convertible
<1> QED BY <1>1, <1>2, <1>3, <1>4, <1>5, <1>6, <1>7, <1>8, SameArgument

LEMMA NoBytesInv == ProtoInv /\ NoBytes => ProtoInv'
<1> SUFFICES ASSUME ProtoInv, NoBytes PROVE ProtoInv'
  OBVIOUS
<1>1. /\ stage = "fill" /\ size = 0 /\ stage' = "done" /\ result' = "ok" /\ written' = 0
      /\ UNCHANGED <<sizeVars, proto, size>>
  BY DEF NoBytes, Answer, ProtoInv, Stages
<1> QED BY <1>1, Filling DEF ProtoInv, Typed, Stages, HasBuffer

LEMMA CopyRawInv == ProtoInv /\ CopyRaw => ProtoInv'
<1> SUFFICES ASSUME ProtoInv, CopyRaw PROVE ProtoInv'
  OBVIOUS
<1>1. /\ stage = "fill" /\ size > 0 /\ proto.raw_data > 0 /\ written = 0 /\ stage' = "done"
      /\ IF proto.raw_data = size THEN written' = proto.raw_data /\ result' = "ok"
         ELSE result' = "bad_tensor" /\ written' = written
      /\ UNCHANGED <<sizeVars, proto, size>>
  BY DEF CopyRaw, RawFits, Answer, ProtoInv, Stages
<1>2. CASE proto.raw_data = size
  BY <1>1, <1>2, Filling DEF ProtoInv, Typed, Stages, HasBuffer
<1>3. CASE proto.raw_data # size
  BY <1>1, <1>3, Filling DEF ProtoInv, Typed, Stages, HasBuffer
<1> QED BY <1>2, <1>3

LEMMA CheckElementsInv == ProtoInv /\ CheckElements => ProtoInv'
<1> SUFFICES ASSUME ProtoInv, CheckElements PROVE ProtoInv'
  OBVIOUS
<1>1. /\ stage = "fill" /\ size > 0 /\ proto.raw_data = 0 /\ written = 0 /\ written' = 0
      /\ IF Elements = product THEN stage' = "copy" /\ result' = result
         ELSE stage' = "done" /\ result' = "bad_tensor"
      /\ UNCHANGED <<sizeVars, proto, size>>
  BY DEF CheckElements, Answer, Enter, ProtoInv, Stages
<1>2. CASE Elements = product
  <2>1. 0 \in 0..product /\ 0 = 0 * Element
    BY <1>1, Filling, ElementFacts
  <2> QED BY <2>1, <1>1, <1>2, Filling DEF ProtoInv, Typed, Stages, HasBuffer
<1>3. CASE Elements # product
  BY <1>1, <1>3, Filling DEF ProtoInv, Typed, Stages, HasBuffer
<1> QED BY <1>2, <1>3

LEMMA CopyElementInv == ProtoInv /\ CopyElement => ProtoInv'
<1> SUFFICES ASSUME ProtoInv, CopyElement PROVE ProtoInv'
  OBVIOUS
<1>1. /\ stage = "copy" /\ size > 0 /\ proto.raw_data = 0 /\ Elements = product
      /\ UNCHANGED <<sizeVars, proto, size>>
      /\ IF written < product * Element
         THEN written' = written + Element /\ stage' = stage /\ result' = result
         ELSE stage' = "done" /\ result' = "ok" /\ written' = written
  BY DEF CopyElement, Answer, ProtoInv, Stages
<1>2. PICK m \in 0..product : written = m * Element
  BY <1>1 DEF ProtoInv, Stages
<1>3. product \in Nat /\ m \in Nat /\ m <= product /\ Element \in Nat \ {0}
  BY <1>1, Filling, ElementFacts
<1>4. CASE written < product * Element
  <2>1. m # product
    BY <1>2, <1>3, <1>4
  <2>2. m + 1 \in 0..product /\ written' = (m + 1) * Element /\ written' \in Nat
    <3>1. m + 1 \in 0..product
      BY <2>1, <1>3
    <3>2. (m + 1) * Element = m * Element + Element /\ (m + 1) * Element \in Nat
      BY <1>3
    <3> QED BY <3>1, <3>2, <1>1, <1>2, <1>4
  <2> QED BY <2>2, <1>1, <1>4, Filling DEF ProtoInv, Typed, Stages, HasBuffer
<1>5. CASE ~(written < product * Element)
  <2>1. written = product * Element
    <3>1. (product - m) * Element \in Nat
      BY <1>3
    <3>2. (product - m) * Element = product * Element - m * Element
      BY <1>3
    <3>3. product * Element \in Int /\ m * Element \in Int
      BY <1>3
    <3> QED BY <3>1, <3>2, <3>3, <1>2, <1>5
  <2> QED BY <2>1, <1>1, <1>5, Filling DEF ProtoInv, Typed, Stages, HasBuffer
<1> QED BY <1>4, <1>5

LEMMA ProtoStutterInv == ProtoInv /\ UNCHANGED protoVars => ProtoInv'
<1> SUFFICES ASSUME ProtoInv, UNCHANGED protoVars PROVE ProtoInv'
  OBVIOUS
<1>1. /\ dims' = dims /\ dtype' = dtype /\ product' = product /\ nbytes' = nbytes /\ pc' = pc
      /\ status' = status /\ proto' = proto /\ size' = size /\ stage' = stage
      /\ written' = written /\ result' = result /\ UNCHANGED sizeVars
  BY DEF protoVars, sizeVars, vars
<1>2. IInv'
  BY <1>1, SizeGoesOn DEF ProtoInv
<1>3. Multiplied' <=> Multiplied
  BY <1>1, SameArgument DEF Multiplied, Wrap
<1> QED BY <1>1, <1>2, <1>3, SameArgument DEF ProtoInv, Typed, Stages, HasBuffer

LEMMA ProtoNextInv == ProtoInv /\ [ProtoNext]_protoVars => ProtoInv'
BY MapElemTypeInv, ShapeInv, MultiplySizeInv, CreateInv, NoBytesInv, CopyRawInv,
   CheckElementsInv, CopyElementInv, ProtoStutterInv DEF ProtoNext, Answered

LEMMA ProtoInductive == ProtoSpec => []ProtoInv
<1>1. ProtoInit => ProtoInv
  BY ProtoInitInv
<1>2. ProtoInv /\ [ProtoNext]_protoVars => ProtoInv'
  BY ProtoNextInv
<1> QED BY <1>1, <1>2, PTL DEF ProtoSpec

-----------------------------------------------------------------------------
(* The results.                                                            *)

(* Every variable keeps its type, and nothing is copied before Create has  *)
(* sized the buffer.                                                       *)
THEOREM TypeCorrect == ProtoSpec => []ProtoTypeOK
<1>1. ProtoInv => ProtoTypeOK
  BY DEF ProtoInv, IInv, Typed, Stages, ProtoTypeOK
<1> QED BY <1>1, ProtoInductive, PTL

(* The loader's unguarded product and the guarded one of Create are both   *)
(* the true size once there is a buffer, and no copy writes behind it.     *)
THEOREM CopiesFit == ProtoSpec => []NoOverrun
<1>1. ProtoInv => NoOverrun
  <2> SUFFICES ASSUME ProtoInv PROVE NoOverrun
    OBVIOUS
  <2>1. HasBuffer => size = nbytes /\ nbytes = TrueCount * Element
    BY BufferSize DEF ProtoInv, Stages
  <2>2. ASSUME written > 0 PROVE written <= nbytes
    <3>1. HasBuffer /\ stage # "fill"
      BY <2>2 DEF ProtoInv, Stages, Typed
    <3>2. nbytes = product * Element /\ product \in Nat /\ nbytes \in Nat
      BY <3>1, BufferSize, MaxWordAssumption DEF ProtoInv, Stages
    <3>3. CASE stage = "copy"
      <4>1. PICK m \in 0..product : written = m * Element
        BY <3>3 DEF ProtoInv, Stages
      <4>2. (product - m) \in Nat /\ (product - m) * Element \in Nat
        BY <3>2, ElementFacts
      <4>3. (product - m) * Element = product * Element - m * Element
        BY <3>2, ElementFacts
      <4>4. m * Element \in Int
        BY <3>2, ElementFacts
      <4> QED BY <4>1, <4>2, <4>3, <4>4, <3>2
    <3>4. CASE result = "ok"
      BY <3>2, <3>4 DEF ProtoInv, Stages
    <3> QED BY <3>1, <3>3, <3>4 DEF HasBuffer
  <2> QED BY <2>1, <2>2 DEF NoOverrun
<1> QED BY <1>1, ProtoInductive, PTL

(* A tensor is handed out only when every byte of its buffer was written.  *)
THEOREM BuffersAreFull == ProtoSpec => []FullyWritten
<1>1. ProtoInv => FullyWritten
  BY DEF ProtoInv, Stages, FullyWritten
<1> QED BY <1>1, ProtoInductive, PTL

(* But for memory, the verdict is that of Convertible: a function of the   *)
(* TensorProto in unbounded arithmetic.                                    *)
THEOREM VerdictsExact == ProtoSpec => []VerdictExact
<1>1. ProtoInv => VerdictExact
  <2> SUFFICES ASSUME ProtoInv, stage = "done", result # "oom"
               PROVE  (result = "ok") = Convertible
    BY DEF VerdictExact
  <2>1. CASE result = "ok"
    <3>1. Convertible
      BY <2>1 DEF ProtoInv, Stages
    <3>2. Convertible \in BOOLEAN
      BY DEF Convertible
    <3> QED BY <2>1, <3>1, <3>2
  <2>2. CASE result = "bad_tensor"
    <3>1. ~Convertible
      BY <2>2 DEF ProtoInv, Stages
    <3>2. Convertible \in BOOLEAN
      BY DEF Convertible
    <3> QED BY <2>2, <3>1, <3>2
  <2> QED BY <2>1, <2>2 DEF ProtoInv, Typed
<1> QED BY <1>1, ProtoInductive, PTL
=============================================================================
