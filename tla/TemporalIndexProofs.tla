------------------------- MODULE TemporalIndexProofs -------------------------
(***************************************************************************)
(* Theorems about TemporalIndex for every set of objects, every calendar   *)
(* and every set of resolutions: carries add what they are asked to, the   *)
(* integers lose nothing and sort like the values, and objects change      *)
(* together only when one was assigned to the other.                       *)
(*                                                                         *)
(* Whatever a call stores fits its fields but for one unit a setter leaves *)
(* in excess (Typed, CallsFit); what is said of the words follows from the *)
(* arithmetic of digits in TemporalFormatLemmas.  For sharing it does not  *)
(* matter what is stored, only where: a call writes into the fields its    *)
(* object points to, gives the object fields of its own, lets it point to  *)
(* another's, or changes nothing.  Objects with the same fields are in one *)
(* group, and the groups partition the objects (IInv).                     *)
(*                                                                         *)
(* And about TemporalSeries, for every sorted array: its turns keep every  *)
(* value at its time and make it reach its neighbours, the masked          *)
(* comparison of two integers tells whether their times meet, and unions   *)
(* and intersections cover what they should to within a millisecond.       *)
(* That rests on the order of the integers above, on the resolutions, and  *)
(* on what the mask takes off an integer (SeriesInv).                      *)
(***************************************************************************)
EXTENDS TemporalIndex, TemporalSeries, TemporalFormatLemmas

-----------------------------------------------------------------------------
(***************************************************************************)
(* Carries.  Fields in range are the digits of a number below Base in a    *)
(* mixed radix (PlacesAreRadix, NumberBelowBase).  A carry takes a radix   *)
(* from one field and adds 1 to the next coarser one, so it keeps the      *)
(* number but for what leaves the year (CarryingKeepsNumber); a borrow is  *)
(* a carry of a negative amount.                                           *)
(***************************************************************************)
\* The recursion that defines Place has a solution.
LEMMA PlaceRecursion ==
  Place = [i \in Ids |-> IF i = Finest THEN 1 ELSE (MaxValue(i + 1) + 1) * Place[i + 1]]
<1> DEFINE Solves(f, m) == f = [i \in m .. Finest |->
                                  IF i = Finest THEN 1 ELSE (MaxValue(i + 1) + 1) * f[i + 1]]
           S == {m \in 1 .. Finest : \E f : Solves(f, m)}
<1>0. Finest \in Nat /\ Finest > 1 /\ Ids = 1 .. Finest
  BY FormatFacts
<1>1. Finest \in S
  <2> DEFINE g == [i \in Finest .. Finest |-> 1]
  <2>1. Solves(g, Finest)
    BY <1>0
  <2>2. \E f : Solves(f, Finest)
    BY <2>1
  <2> HIDE DEF Solves
  <2> QED
    BY <1>0, <2>2
<1>2. ASSUME NEW m \in 1 .. Finest - 1, m + 1 \in S PROVE m \in S
  <2>1. PICK f : Solves(f, m + 1)
    BY <1>2
  <2> DEFINE g == [i \in m .. Finest |->
                     IF i = m THEN (MaxValue(m + 1) + 1) * f[m + 1] ELSE f[i]]
  <2>2. \A i \in m + 1 .. Finest :
          f[i] = IF i = Finest THEN 1 ELSE (MaxValue(i + 1) + 1) * f[i + 1]
    BY <2>1
  <2>3. \A i \in m .. Finest :
          g[i] = IF i = Finest THEN 1 ELSE (MaxValue(i + 1) + 1) * g[i + 1]
    <3> TAKE i \in m .. Finest
    <3>1. CASE i = m
      <4>1. i # Finest /\ m + 1 \in m .. Finest /\ m + 1 # m
        BY <1>0, <3>1
      <4>2. g[i] = (MaxValue(m + 1) + 1) * f[m + 1] /\ g[m + 1] = f[m + 1]
        BY <3>1, <4>1
      <4> QED
        BY <3>1, <4>1, <4>2
    <3>2. CASE i # m /\ i = Finest
      BY <1>0, <3>2, <2>2
    <3>3. CASE i # m /\ i # Finest
      <4>1. i \in m + 1 .. Finest /\ i + 1 \in m .. Finest /\ i + 1 # m
        BY <1>0, <3>3
      <4> QED
        BY <4>1, <3>3, <2>2
    <3> QED
      BY <3>1, <3>2, <3>3
  <2>4. Solves(g, m)
    BY <2>3
  <2>5. \E h : Solves(h, m)
    BY <2>4
  <2> HIDE DEF Solves
  <2> QED
    BY <1>0, <2>5
<1>3. 1 \in S
  <2>1. 1 \in Int /\ Finest \in Int /\ 1 \in 1 .. Finest
    BY <1>0
  <2> HIDE DEF S
  <2>2. \A m \in 1 .. Finest : m \in S
    BY <1>1, <1>2, <2>1, Descending
  <2> QED
    BY <2>1, <2>2
<1>4. \E f : Solves(f, 1)
  BY <1>3
<1> HIDE DEF S
<1>5. Place = CHOOSE f : Solves(f, 1)
  BY DEF Place, Finest, Ids
<1> HIDE DEF Solves
<1>6. Solves(Place, 1)
  BY <1>4, <1>5
<1> QED
  BY <1>0, <1>6 DEF Solves

\* Places grow with the number of values a field has.
Base == (MaxValue(1) + 1) * Place[1]

LEMMA PlacesAreRadix ==
  /\ Radix(Radices, Place, 1)
  /\ \A i \in Ids : Radices[i] = MaxValue(i) + 1
  /\ Base \in Nat /\ Base = Radices[1] * Place[1]
<1>1. Finest \in Nat /\ Finest > 1 /\ Ids = 1 .. Finest /\ 1 \in Ids /\ Finest \in Ids
      /\ \A i \in Ids : MaxValue(i) \in Nat
  BY FormatFacts
<1>2. \A i \in Ids : Place[i] = IF i = Finest THEN 1 ELSE (MaxValue(i + 1) + 1) * Place[i + 1]
  BY PlaceRecursion
<1>3. \A i \in Ids : Radices[i] = MaxValue(i) + 1
  BY DEF Radices
<1> DEFINE T == {k \in 1 .. Finest : Place[k] \in Nat /\ Place[k] > 0}
<1>4. Finest \in T
  BY <1>1, <1>2
<1>5. ASSUME NEW k \in 1 .. Finest - 1, k + 1 \in T PROVE k \in T
  <2>1. k \in Ids /\ k # Finest /\ k + 1 \in Ids
    BY <1>1
  <2>2. Place[k] = (MaxValue(k + 1) + 1) * Place[k + 1]
    BY <1>2, <2>1
  <2>3. \A x, y \in Nat : x > 0 /\ y > 0 => x * y > 0 /\ x * y \in Nat
    OBVIOUS
  <2>4. MaxValue(k + 1) + 1 \in Nat /\ MaxValue(k + 1) + 1 > 0
        /\ Place[k + 1] \in Nat /\ Place[k + 1] > 0
    BY <1>1, <1>5, <2>1
  <2>5. Place[k] > 0 /\ Place[k] \in Nat
    BY <2>2, <2>3, <2>4
  <2> QED
    BY <1>1, <2>1, <2>5
<1>6. \A k \in 1 .. Finest : k \in T
  <2>1. 1 \in Int /\ Finest \in Int
    BY <1>1
  <2> HIDE DEF T
  <2> QED
    BY <1>4, <1>5, <2>1, Descending
<1>7. ASSUME NEW k \in Ids, k < Finest
      PROVE  Place[k] = Radices[k + 1] * Place[k + 1]
  <2>1. k # Finest /\ k + 1 \in Ids
    BY <1>1, <1>7
  <2> QED
    BY <1>2, <1>3, <2>1
<1>8. Radix(Radices, Place, 1)
  BY <1>1, <1>3, <1>6, <1>7 DEF Radix
<1>9. MaxValue(1) \in Nat /\ Place[1] \in Nat /\ Radices[1] = MaxValue(1) + 1
  BY <1>1, <1>3, <1>6
<1>10. Base \in Nat /\ Base = Radices[1] * Place[1]
  BY <1>9 DEF Base
<1> QED
  BY <1>3, <1>8, <1>10

\* What digits in range say is below Base.
LEMMA NumberBelowBase ==
  ASSUME NEW d, Digits(d, Radices)
  PROVE  Worth(d, Place)[1] \in Nat /\ Worth(d, Place)[1] < Base
<1>1. Finest \in Nat /\ Finest > 1 /\ Ids = 1 .. Finest /\ 1 \in Ids /\ 1 \in 1 .. Finest
      /\ 1 \in 1 .. Finest + 1 /\ Finest \in Ids
  BY FormatFacts
<1>2. Radix(Radices, Place, 1) /\ Base = Radices[1] * Place[1]
  BY PlacesAreRadix
<1>3. Worth(d, Place)[1 + 1] \in Nat /\ Worth(d, Place)[1 + 1] + Place[Finest] <= Place[1]
  BY <1>1, <1>2, TailBound
<1>4. Worth(d, Place)[1] = d[1] * Place[1] + Worth(d, Place)[1 + 1]
      /\ Worth(d, Place)[1] \in Nat
  <2>1. \A k \in Ids : d[k] \in Nat /\ Place[k] \in Nat
    BY <1>2 DEF Radix, Digits
  <2> QED
    BY <1>1, <2>1, WorthOf
<1>5. d[1] \in Nat /\ d[1] < Radices[1] /\ Radices[1] \in Nat
      /\ Place[1] \in Nat /\ Place[Finest] \in Nat /\ Place[Finest] > 0
  BY <1>1, <1>2 DEF Radix, Digits
<1>6. \A f, g, h \in Nat : f < g => f * h + h <= g * h
  <2> SUFFICES ASSUME NEW f \in Nat, NEW g \in Nat, NEW h \in Nat, f < g
               PROVE  f * h + h <= g * h
    OBVIOUS
  <2>1. (g - (f + 1)) * h >= 0
    OBVIOUS
  <2> QED
    BY <2>1
<1>7. d[1] * Place[1] + Place[1] <= Radices[1] * Place[1]
  BY <1>5, <1>6
<1>8. d[1] * Place[1] \in Nat /\ Radices[1] * Place[1] \in Nat
  BY <1>5
<1>9. Worth(d, Place)[1] < Base
  BY <1>2, <1>3, <1>4, <1>5, <1>7, <1>8
<1> QED
  BY <1>4, <1>9

\* Digits that are changed by what is carried into them, less what they carry
\* on, change the number by what is carried into the finest of them.
LEMMA CarryingKeepsNumber ==
  ASSUME NEW d, Digits(d, Radices), NEW e, Digits(e, Radices), NEW i \in Ids,
         NEW c, \A j \in 0 .. i : c[j] \in Int,
         \A j \in Ids : e[j] = IF j > i THEN d[j] ELSE d[j] + c[j] - c[j - 1] * Radices[j]
  PROVE  Worth(e, Place)[1] + c[0] * Base = Worth(d, Place)[1] + c[i] * Place[i]
<1> DEFINE u == Worth(d, Place)
           v == Worth(e, Place)
           p == [k \in 0 .. Finest |-> IF k = 0 THEN Base ELSE Place[k]]
<1>1. Finest \in Nat /\ Finest > 1 /\ Ids = 1 .. Finest
  BY FormatFacts
<1>2. \A k \in Ids : /\ d[k] \in Nat /\ e[k] \in Nat /\ Radices[k] \in Nat
                     /\ Place[k] \in Nat /\ Base \in Nat
  BY PlacesAreRadix DEF Radix, Digits
<1>3. \A k \in 0 .. Finest : p[k] \in Nat
  BY <1>1, <1>2
<1>4. \A k \in 0 .. Finest - 1 : p[k] = Radices[k + 1] * p[k + 1]
  <2> TAKE k \in 0 .. Finest - 1
  <2>1. k + 1 \in 0 .. Finest /\ k + 1 # 0 /\ k \in 0 .. Finest
    BY <1>1
  <2>2. CASE k = 0
    <3>1. p[k] = Base /\ p[k + 1] = Place[1] /\ k + 1 = 1
      BY <2>1, <2>2
    <3> HIDE DEF p
    <3> QED
      BY <3>1, PlacesAreRadix
  <2>3. CASE k # 0
    <3>1. p[k] = Place[k] /\ p[k + 1] = Place[k + 1] /\ k \in Ids /\ 1 <= k /\ k < Finest
      BY <1>1, <2>1, <2>3
    <3> HIDE DEF p
    <3> QED
      BY <3>1, PlacesAreRadix DEF Radix
  <2> QED
    BY <2>2, <2>3
<1>5. \A k \in Ids : p[k] = Place[k]
  BY <1>1
<1>6. p[0] = Base
  BY <1>1
<1> HIDE DEF p
<1>7. /\ \A k \in Ids : u[k] = d[k] * Place[k] + u[k + 1]
      /\ \A k \in 1 .. Finest + 1 : u[k] \in Nat
      /\ u[Finest + 1] = 0
  <2>1. \A k \in Ids : d[k] \in Nat /\ Place[k] \in Nat
    BY <1>2
  <2> QED
    BY <2>1, WorthOf
<1>8. /\ \A k \in Ids : v[k] = e[k] * Place[k] + v[k + 1]
      /\ \A k \in 1 .. Finest + 1 : v[k] \in Nat
      /\ v[Finest + 1] = 0
  <2>1. \A k \in Ids : e[k] \in Nat /\ Place[k] \in Nat
    BY <1>2
  <2> QED
    BY <2>1, WorthOf
<1> HIDE DEF u, v
<1>9. v[i + 1] = u[i + 1]
  <2> DEFINE T == {k \in i + 1 .. Finest + 1 : v[k] = u[k]}
  <2>1. Finest + 1 \in T
    BY <1>1, <1>7, <1>8
  <2>2. ASSUME NEW k \in i + 1 .. (Finest + 1) - 1, k + 1 \in T PROVE k \in T
    <3>1. k \in Ids /\ k > i /\ k \in i + 1 .. Finest + 1
      BY <1>1
    <3>2. e[k] = d[k]
      BY <3>1
    <3> QED
      BY <1>7, <1>8, <2>2, <3>1, <3>2
  <2>3. i + 1 \in Int /\ Finest + 1 \in Int /\ i + 1 \in i + 1 .. Finest + 1
    BY <1>1
  <2> HIDE DEF T
  <2>4. \A k \in i + 1 .. Finest + 1 : k \in T
    BY <2>1, <2>2, <2>3, Descending
  <2>5. i + 1 \in T
    BY <2>3, <2>4
  <2> QED
    BY <2>5 DEF T
<1> DEFINE total == c[i] * p[i]
           T == {k \in 0 .. i : v[k + 1] + c[k] * p[k] = u[k + 1] + total}
<1>10. i \in T
  BY <1>1, <1>9
<1>11. ASSUME NEW k \in 0 .. i - 1, k + 1 \in T PROVE k \in T
  <2>1. k + 1 \in Ids /\ ~(k + 1 > i) /\ (k + 1) - 1 = k /\ k \in 0 .. Finest - 1
        /\ k \in 0 .. i /\ k + 1 \in 0 .. i /\ (k + 1) + 1 \in 1 .. Finest + 1
        /\ k + 1 \in 0 .. Finest /\ i \in 0 .. i /\ i \in 0 .. Finest
    BY <1>1
  <2>2. e[k + 1] = d[k + 1] + c[k + 1] - c[k] * Radices[k + 1]
    BY <2>1
  <2>3. v[(k + 1) + 1] + c[k + 1] * p[k + 1] = u[(k + 1) + 1] + total
    BY <1>11
  <2>4. v[k + 1] = e[k + 1] * p[k + 1] + v[(k + 1) + 1]
        /\ u[k + 1] = d[k + 1] * p[k + 1] + u[(k + 1) + 1]
        /\ p[k] = Radices[k + 1] * p[k + 1]
    BY <1>4, <1>5, <1>7, <1>8, <2>1
  <2>5. /\ d[k + 1] \in Nat /\ Radices[k + 1] \in Nat /\ p[k + 1] \in Nat
        /\ v[(k + 1) + 1] \in Nat /\ u[(k + 1) + 1] \in Nat
        /\ c[k] \in Int /\ c[k + 1] \in Int
    BY <1>2, <1>3, <1>7, <1>8, <2>1
  <2>6. total \in Int
    BY <1>3, <2>1
  <2> HIDE DEF total
  <2>7. \A x, a, b, r, q, y, z, t \in Int :
          y + a * q = z + t => ((x + a - b * r) * q + y) + b * (r * q) = (x * q + z) + t
    <3> TAKE x, a, b, r, q, y, z, t \in Int
    <3>1. (x + a - b * r) * q = x * q + a * q - b * (r * q)
      BY SMTT(30)
    <3>2. x * q \in Int /\ a * q \in Int /\ b * (r * q) \in Int /\ (x + a - b * r) * q \in Int
      OBVIOUS
    <3> QED
      BY <3>1, <3>2
  <2>8. v[k + 1] + c[k] * p[k] = u[k + 1] + total
    BY <2>2, <2>3, <2>4, <2>5, <2>6, <2>7
  <2> QED
    BY <2>1, <2>8
<1>12. 0 \in T
  <2>1. 0 \in Int /\ i \in Int /\ 0 \in 0 .. i
    BY <1>1
  <2> HIDE DEF T
  <2>2. \A k \in 0 .. i : k \in T
    BY <1>10, <1>11, <2>1, Descending
  <2> QED
    BY <2>1, <2>2
<1>13. v[0 + 1] + c[0] * p[0] = u[0 + 1] + c[i] * p[i]
  BY <1>12
<1>14. p[i] = Place[i] /\ p[0] = Base
  BY <1>5, <1>6
<1> QED
  BY <1>13, <1>14 DEF u, v

\* The recursion that defines Carry has a solution.
LEMMA CarryRecursion ==
  ASSUME NEW field, NEW i \in 0 .. Finest, NEW delta
  PROVE  Carry(field, i, delta) =
           [j \in 0 .. i |->
              IF j = i THEN delta
              ELSE IF RunsOver(field, j + 1, Carry(field, i, delta)[j + 1]) THEN 1 ELSE 0]
<1> DEFINE Solves(f, m) ==
             f = [j \in m .. i |-> IF j = i THEN delta
                                   ELSE IF RunsOver(field, j + 1, f[j + 1]) THEN 1 ELSE 0]
           S == {m \in 0 .. i : \E f : Solves(f, m)}
<1>0. i \in Nat /\ i \in 0 .. i /\ 0 \in 0 .. i
  BY FormatFacts
<1>1. i \in S
  <2> DEFINE g == [j \in i .. i |-> delta]
  <2>1. Solves(g, i)
    BY <1>0
  <2>2. \E f : Solves(f, i)
    BY <2>1
  <2> HIDE DEF Solves
  <2> QED
    BY <1>0, <2>2
<1>2. ASSUME NEW m \in 0 .. i - 1, m + 1 \in S PROVE m \in S
  <2>1. PICK f : Solves(f, m + 1)
    BY <1>2
  <2> DEFINE first == IF RunsOver(field, m + 1, f[m + 1]) THEN 1 ELSE 0
             g     == [j \in m .. i |-> IF j = m THEN first ELSE f[j]]
  <2>2. \A j \in m + 1 .. i :
          f[j] = IF j = i THEN delta
                 ELSE IF RunsOver(field, j + 1, f[j + 1]) THEN 1 ELSE 0
    BY <2>1
  <2>3. \A j \in m .. i :
          g[j] = IF j = i THEN delta
                 ELSE IF RunsOver(field, j + 1, g[j + 1]) THEN 1 ELSE 0
    <3> TAKE j \in m .. i
    <3>1. CASE j = m
      <4>1. j # i /\ m + 1 \in m .. i /\ m + 1 # m
        BY <1>0, <3>1
      <4>2. g[j] = first /\ g[m + 1] = f[m + 1]
        BY <3>1, <4>1
      <4> QED
        BY <3>1, <4>1, <4>2
    <3>2. CASE j # m /\ j = i
      BY <1>0, <3>2, <2>2
    <3>3. CASE j # m /\ j # i
      <4>1. j \in m + 1 .. i /\ j + 1 \in m .. i /\ j + 1 # m
        BY <1>0, <3>3
      <4>2. g[j] = f[j] /\ g[j + 1] = f[j + 1]
        BY <3>3, <4>1
      <4> HIDE DEF g
      <4> QED
        BY <4>1, <4>2, <3>3, <2>2
    <3> QED
      BY <3>1, <3>2, <3>3
  <2>4. Solves(g, m)
    BY <2>3
  <2>5. \E h : Solves(h, m)
    BY <2>4
  <2> HIDE DEF Solves
  <2> QED
    BY <1>0, <2>5
<1>3. 0 \in S
  <2>1. 0 \in Int /\ i \in Int
    BY <1>0
  <2> HIDE DEF S
  <2>2. \A m \in 0 .. i : m \in S
    BY <1>1, <1>2, <2>1, Descending
  <2> QED
    BY <1>0, <2>2
<1>4. \E f : Solves(f, 0)
  BY <1>3
<1> HIDE DEF S
<1>5. Carry(field, i, delta) = CHOOSE f : Solves(f, 0)
  BY DEF Carry
<1> HIDE DEF Solves
<1>6. Solves(Carry(field, i, delta), 0)
  BY <1>4, <1>5
<1> QED
  BY <1>6 DEF Solves

\* The recursion that defines Borrow has a solution.
LEMMA BorrowRecursion ==
  ASSUME NEW field, NEW i \in 0 .. Finest, NEW delta
  PROVE  Borrow(field, i, delta) =
           [j \in 0 .. i |->
              IF j = i THEN delta
              ELSE IF RunsUnder(field, j + 1, Borrow(field, i, delta)[j + 1]) THEN 1 ELSE 0]
<1> DEFINE Solves(f, m) ==
             f = [j \in m .. i |-> IF j = i THEN delta
                                   ELSE IF RunsUnder(field, j + 1, f[j + 1]) THEN 1 ELSE 0]
           S == {m \in 0 .. i : \E f : Solves(f, m)}
<1>0. i \in Nat /\ i \in 0 .. i /\ 0 \in 0 .. i
  BY FormatFacts
<1>1. i \in S
  <2> DEFINE g == [j \in i .. i |-> delta]
  <2>1. Solves(g, i)
    BY <1>0
  <2>2. \E f : Solves(f, i)
    BY <2>1
  <2> HIDE DEF Solves
  <2> QED
    BY <1>0, <2>2
<1>2. ASSUME NEW m \in 0 .. i - 1, m + 1 \in S PROVE m \in S
  <2>1. PICK f : Solves(f, m + 1)
    BY <1>2
  <2> DEFINE first == IF RunsUnder(field, m + 1, f[m + 1]) THEN 1 ELSE 0
             g     == [j \in m .. i |-> IF j = m THEN first ELSE f[j]]
  <2>2. \A j \in m + 1 .. i :
          f[j] = IF j = i THEN delta
                 ELSE IF RunsUnder(field, j + 1, f[j + 1]) THEN 1 ELSE 0
    BY <2>1
  <2>3. \A j \in m .. i :
          g[j] = IF j = i THEN delta
                 ELSE IF RunsUnder(field, j + 1, g[j + 1]) THEN 1 ELSE 0
    <3> TAKE j \in m .. i
    <3>1. CASE j = m
      <4>1. j # i /\ m + 1 \in m .. i /\ m + 1 # m
        BY <1>0, <3>1
      <4>2. g[j] = first /\ g[m + 1] = f[m + 1]
        BY <3>1, <4>1
      <4> QED
        BY <3>1, <4>1, <4>2
    <3>2. CASE j # m /\ j = i
      BY <1>0, <3>2, <2>2
    <3>3. CASE j # m /\ j # i
      <4>1. j \in m + 1 .. i /\ j + 1 \in m .. i /\ j + 1 # m
        BY <1>0, <3>3
      <4>2. g[j] = f[j] /\ g[j + 1] = f[j + 1]
        BY <3>3, <4>1
      <4> HIDE DEF g
      <4> QED
        BY <4>1, <4>2, <3>3, <2>2
    <3> QED
      BY <3>1, <3>2, <3>3
  <2>4. Solves(g, m)
    BY <2>3
  <2>5. \E h : Solves(h, m)
    BY <2>4
  <2> HIDE DEF Solves
  <2> QED
    BY <1>0, <2>5
<1>3. 0 \in S
  <2>1. 0 \in Int /\ i \in Int
    BY <1>0
  <2> HIDE DEF S
  <2>2. \A m \in 0 .. i : m \in S
    BY <1>1, <1>2, <2>1, Descending
  <2> QED
    BY <1>0, <2>2
<1>4. \E f : Solves(f, 0)
  BY <1>3
<1> HIDE DEF S
<1>5. Borrow(field, i, delta) = CHOOSE f : Solves(f, 0)
  BY DEF Borrow
<1> HIDE DEF Solves
<1>6. Solves(Borrow(field, i, delta), 0)
  BY <1>4, <1>5
<1> QED
  BY <1>6 DEF Solves

\* Where the carry starts, even at id 0.
LEMMA CarryStarts ==
  ASSUME NEW field, NEW i \in 0 .. Finest, NEW delta
  PROVE  Carry(field, i, delta)[i] = delta
<1> DEFINE c == Carry(field, i, delta)
<1>1. i \in 0 .. i
  BY FormatFacts
<1>2. c = [j \in 0 .. i |-> IF j = i THEN delta
                            ELSE IF RunsOver(field, j + 1, c[j + 1]) THEN 1 ELSE 0]
  BY CarryRecursion
<1> HIDE DEF c
<1>3. c[i] = delta
  BY <1>1, <1>2, Zenon
<1> QED
  BY <1>3 DEF c

\* Every field but the one that is changed has at most 1 carried into it.
LEMMA CarryIs ==
  ASSUME NEW field, NEW i \in Ids, NEW delta \in Nat, delta <= MaxValue(i) + 1
  PROVE  /\ Carry(field, i, delta)[i] = delta
         /\ \A j \in 0 .. i - 1 :
              Carry(field, i, delta)[j] =
                IF RunsOver(field, j + 1, Carry(field, i, delta)[j + 1]) THEN 1 ELSE 0
         /\ \A j \in 0 .. i : Carry(field, i, delta)[j] \in Nat
         /\ \A j \in Ids : j <= i => Carry(field, i, delta)[j] <= MaxValue(j) + 1
<1> DEFINE c == Carry(field, i, delta)
<1>1. Finest \in Nat /\ Ids = 1 .. Finest /\ i \in 0 .. Finest /\ i \in 1 .. Finest
      /\ i \in 0 .. i
      /\ \A j \in Ids : MaxValue(j) \in Nat
  BY FormatFacts
<1>2. c = [j \in 0 .. i |-> IF j = i THEN delta
                            ELSE IF RunsOver(field, j + 1, c[j + 1]) THEN 1 ELSE 0]
  <2>1. i \in 0 .. Finest
    BY <1>1
  <2>2. Carry(field, i, delta) =
          [j \in 0 .. i |->
             IF j = i THEN delta
             ELSE IF RunsOver(field, j + 1, Carry(field, i, delta)[j + 1]) THEN 1 ELSE 0]
    BY <2>1, CarryRecursion
  <2> QED
    BY <2>2
<1> HIDE DEF c
<1>3. \A j \in 0 .. i : c[j] = IF j = i THEN delta
                               ELSE IF RunsOver(field, j + 1, c[j + 1]) THEN 1 ELSE 0
  BY <1>2, Zenon
<1>4. c[i] = delta
  BY <1>1, <1>3
<1>5. \A j \in 0 .. i - 1 : c[j] = IF RunsOver(field, j + 1, c[j + 1]) THEN 1 ELSE 0
  <2> TAKE j \in 0 .. i - 1
  <2>1. j \in 0 .. i /\ j # i
    BY <1>1
  <2> QED
    BY <1>3, <2>1
<1>6. \A j \in 0 .. i : c[j] \in Nat /\ (j # i => c[j] <= 1)
  <2> TAKE j \in 0 .. i
  <2>1. c[j] = delta \/ c[j] = 1 \/ c[j] = 0
    BY <1>3
  <2>2. j # i => c[j] = 1 \/ c[j] = 0
    BY <1>3
  <2> QED
    BY <2>1, <2>2
<1>7. \A j \in Ids : j <= i => c[j] <= MaxValue(j) + 1
  <2> SUFFICES ASSUME NEW j \in Ids, j <= i PROVE c[j] <= MaxValue(j) + 1
    OBVIOUS
  <2>1. j \in 0 .. i /\ MaxValue(j) \in Nat
    BY <1>1
  <2>2. c[j] \in Nat /\ (j # i => c[j] <= 1)
    BY <1>6, <2>1
  <2> QED
    BY <1>4, <2>1, <2>2
<1> QED
  BY <1>4, <1>5, <1>6, <1>7 DEF c

\* Where the borrow starts, even at id 0.
LEMMA BorrowStarts ==
  ASSUME NEW field, NEW i \in 0 .. Finest, NEW delta
  PROVE  Borrow(field, i, delta)[i] = delta
<1> DEFINE c == Borrow(field, i, delta)
<1>1. i \in 0 .. i
  BY FormatFacts
<1>2. c = [j \in 0 .. i |-> IF j = i THEN delta
                            ELSE IF RunsUnder(field, j + 1, c[j + 1]) THEN 1 ELSE 0]
  BY BorrowRecursion
<1> HIDE DEF c
<1>3. c[i] = delta
  BY <1>1, <1>2, Zenon
<1> QED
  BY <1>3 DEF c

\* Every field but the one that is changed has at most 1 borrowed from it.
LEMMA BorrowIs ==
  ASSUME NEW field, NEW i \in Ids, NEW delta \in Nat, delta <= MaxValue(i) + 1
  PROVE  /\ Borrow(field, i, delta)[i] = delta
         /\ \A j \in 0 .. i - 1 :
              Borrow(field, i, delta)[j] =
                IF RunsUnder(field, j + 1, Borrow(field, i, delta)[j + 1]) THEN 1 ELSE 0
         /\ \A j \in 0 .. i : Borrow(field, i, delta)[j] \in Nat
         /\ \A j \in Ids : j <= i => Borrow(field, i, delta)[j] <= MaxValue(j) + 1
<1> DEFINE c == Borrow(field, i, delta)
<1>1. Finest \in Nat /\ Ids = 1 .. Finest /\ i \in 0 .. Finest /\ i \in 1 .. Finest
      /\ i \in 0 .. i
      /\ \A j \in Ids : MaxValue(j) \in Nat
  BY FormatFacts
<1>2. c = [j \in 0 .. i |-> IF j = i THEN delta
                            ELSE IF RunsUnder(field, j + 1, c[j + 1]) THEN 1 ELSE 0]
  <2>1. i \in 0 .. Finest
    BY <1>1
  <2>2. Borrow(field, i, delta) =
          [j \in 0 .. i |->
             IF j = i THEN delta
             ELSE IF RunsUnder(field, j + 1, Borrow(field, i, delta)[j + 1]) THEN 1 ELSE 0]
    BY <2>1, BorrowRecursion
  <2> QED
    BY <2>2
<1> HIDE DEF c
<1>3. \A j \in 0 .. i : c[j] = IF j = i THEN delta
                               ELSE IF RunsUnder(field, j + 1, c[j + 1]) THEN 1 ELSE 0
  BY <1>2, Zenon
<1>4. c[i] = delta
  BY <1>1, <1>3
<1>5. \A j \in 0 .. i - 1 : c[j] = IF RunsUnder(field, j + 1, c[j + 1]) THEN 1 ELSE 0
  <2> TAKE j \in 0 .. i - 1
  <2>1. j \in 0 .. i /\ j # i
    BY <1>1
  <2> QED
    BY <1>3, <2>1
<1>6. \A j \in 0 .. i : c[j] \in Nat /\ (j # i => c[j] <= 1)
  <2> TAKE j \in 0 .. i
  <2>1. c[j] = delta \/ c[j] = 1 \/ c[j] = 0
    BY <1>3
  <2>2. j # i => c[j] = 1 \/ c[j] = 0
    BY <1>3
  <2> QED
    BY <2>1, <2>2
<1>7. \A j \in Ids : j <= i => c[j] <= MaxValue(j) + 1
  <2> SUFFICES ASSUME NEW j \in Ids, j <= i PROVE c[j] <= MaxValue(j) + 1
    OBVIOUS
  <2>1. j \in 0 .. i /\ MaxValue(j) \in Nat
    BY <1>1
  <2>2. c[j] \in Nat /\ (j # i => c[j] <= 1)
    BY <1>6, <2>1
  <2> QED
    BY <1>4, <2>1, <2>2
<1> QED
  BY <1>4, <1>5, <1>6, <1>7 DEF c

\* What a carry leaves in a field, which may hold one more than its maximum.
LEMMA IncrementedIs ==
  ASSUME NEW d, NEW i \in Ids, NEW delta \in Nat, delta <= MaxValue(i) + 1,
         \A j \in Ids : d[j] \in 0 .. MaxValue(j) + 1
  PROVE  \A j \in Ids :
           LET e == Incremented(d, i, delta)
               c == Carry(d, i, delta)
           IN  /\ e[j] = IF j > i THEN d[j] ELSE d[j] + c[j] - c[j - 1] * Radices[j]
               /\ e[j] \in 0 .. MaxValue(j) + 1
               /\ d[j] <= MaxValue(j) => e[j] <= MaxValue(j)
<1> TAKE j \in Ids
<1> DEFINE e == Incremented(d, i, delta)
           c == Carry(d, i, delta)
<1>1. /\ Finest \in Nat /\ Ids = 1 .. Finest
      /\ MaxValue(j) \in Nat /\ d[j] \in 0 .. MaxValue(j) + 1
      /\ Radices[j] = MaxValue(j) + 1
  BY FormatFacts, PlacesAreRadix
<1>2. /\ \A k \in 0 .. i - 1 : c[k] = IF RunsOver(d, k + 1, c[k + 1]) THEN 1 ELSE 0
      /\ \A k \in 0 .. i : c[k] \in Nat
      /\ \A k \in Ids : k <= i => c[k] <= MaxValue(k) + 1
  <2>1. \A k \in 0 .. i - 1 : c[k] = IF RunsOver(d, k + 1, c[k + 1]) THEN 1 ELSE 0
    BY CarryIs
  <2>2. \A k \in 0 .. i : c[k] \in Nat
    BY CarryIs
  <2>3. \A k \in Ids : k <= i => c[k] <= MaxValue(k) + 1
    BY CarryIs
  <2> QED
    BY <2>1, <2>2, <2>3
<1>3. e[j] = IF j > i THEN d[j]
             ELSE d[j] + c[j] - (IF RunsOver(d, j, c[j]) THEN MaxValue(j) + 1 ELSE 0)
  BY DEF Incremented
<1> HIDE DEF e, c
<1>4. CASE j > i
  BY <1>1, <1>3, <1>4 DEF e, c
<1>5. CASE ~(j > i)
  <2>1. j - 1 \in 0 .. i - 1 /\ (j - 1) + 1 = j /\ j \in 0 .. i /\ j <= i
    BY <1>1, <1>5
  <2>2. c[j - 1] = (IF RunsOver(d, j, c[j]) THEN 1 ELSE 0) /\ c[j] \in Nat
        /\ c[j] <= MaxValue(j) + 1
    BY <1>2, <2>1
  <2>3. e[j] = d[j] + c[j] - (IF RunsOver(d, j, c[j]) THEN MaxValue(j) + 1 ELSE 0)
    BY <1>3, <1>5
  <2>4. CASE RunsOver(d, j, c[j])
    <3>1. e[j] = d[j] + c[j] - (MaxValue(j) + 1) /\ c[j - 1] = 1 /\ d[j] + c[j] > MaxValue(j)
      BY <2>2, <2>3, <2>4 DEF RunsOver
    <3>2. c[j - 1] * Radices[j] = MaxValue(j) + 1
      BY <1>1, <3>1
    <3> QED
      BY <1>1, <1>5, <2>2, <3>1, <3>2 DEF e, c
  <2>5. CASE ~RunsOver(d, j, c[j])
    <3>1. e[j] = d[j] + c[j] - 0 /\ c[j - 1] = 0 /\ (c[j] > 0 => d[j] + c[j] <= MaxValue(j))
      BY <1>1, <2>2, <2>3, <2>5 DEF RunsOver
    <3>2. c[j - 1] * Radices[j] = 0
      BY <1>1, <3>1
    <3> QED
      BY <1>1, <1>5, <2>2, <3>1, <3>2 DEF e, c
  <2> QED
    BY <2>4, <2>5
<1> QED
  BY <1>4, <1>5

\* What a borrow leaves in a field.
LEMMA DecrementedIs ==
  ASSUME NEW d, NEW i \in Ids, NEW delta \in Nat, delta <= MaxValue(i) + 1,
         \A j \in Ids : d[j] \in 0 .. MaxValue(j) + 1
  PROVE  \A j \in Ids :
           LET e == Decremented(d, i, delta)
               c == Borrow(d, i, delta)
           IN  /\ e[j] = IF j > i THEN d[j] ELSE d[j] - c[j] + c[j - 1] * Radices[j]
               /\ e[j] \in 0 .. MaxValue(j) + 1
               /\ d[j] <= MaxValue(j) => e[j] <= MaxValue(j)
<1> TAKE j \in Ids
<1> DEFINE e == Decremented(d, i, delta)
           c == Borrow(d, i, delta)
<1>1. /\ Finest \in Nat /\ Ids = 1 .. Finest
      /\ MaxValue(j) \in Nat /\ d[j] \in 0 .. MaxValue(j) + 1
      /\ Radices[j] = MaxValue(j) + 1
  BY FormatFacts, PlacesAreRadix
<1>2. /\ \A k \in 0 .. i - 1 : c[k] = IF RunsUnder(d, k + 1, c[k + 1]) THEN 1 ELSE 0
      /\ \A k \in 0 .. i : c[k] \in Nat
      /\ \A k \in Ids : k <= i => c[k] <= MaxValue(k) + 1
  <2>1. \A k \in 0 .. i - 1 : c[k] = IF RunsUnder(d, k + 1, c[k + 1]) THEN 1 ELSE 0
    BY BorrowIs
  <2>2. \A k \in 0 .. i : c[k] \in Nat
    BY BorrowIs
  <2>3. \A k \in Ids : k <= i => c[k] <= MaxValue(k) + 1
    BY BorrowIs
  <2> QED
    BY <2>1, <2>2, <2>3
<1>3. e[j] = IF j > i THEN d[j]
             ELSE d[j] - c[j] + (IF RunsUnder(d, j, c[j]) THEN MaxValue(j) + 1 ELSE 0)
  BY DEF Decremented
<1> HIDE DEF e, c
<1>4. CASE j > i
  BY <1>1, <1>3, <1>4 DEF e, c
<1>5. CASE ~(j > i)
  <2>1. j - 1 \in 0 .. i - 1 /\ (j - 1) + 1 = j /\ j \in 0 .. i /\ j <= i
    BY <1>1, <1>5
  <2>2. c[j - 1] = (IF RunsUnder(d, j, c[j]) THEN 1 ELSE 0) /\ c[j] \in Nat
        /\ c[j] <= MaxValue(j) + 1
    BY <1>2, <2>1
  <2>3. e[j] = d[j] - c[j] + (IF RunsUnder(d, j, c[j]) THEN MaxValue(j) + 1 ELSE 0)
    BY <1>3, <1>5
  <2>4. CASE RunsUnder(d, j, c[j])
    <3>1. e[j] = d[j] - c[j] + (MaxValue(j) + 1) /\ c[j - 1] = 1 /\ d[j] - c[j] < 0
      BY <2>2, <2>3, <2>4 DEF RunsUnder
    <3>2. c[j - 1] * Radices[j] = MaxValue(j) + 1
      BY <1>1, <3>1
    <3> QED
      BY <1>1, <1>5, <2>2, <3>1, <3>2 DEF e, c
  <2>5. CASE ~RunsUnder(d, j, c[j])
    <3>1. e[j] = d[j] - c[j] + 0 /\ c[j - 1] = 0 /\ (c[j] > 0 => d[j] - c[j] >= 0)
      BY <1>1, <2>2, <2>3, <2>5 DEF RunsUnder
    <3>2. c[j - 1] * Radices[j] = 0
      BY <1>1, <3>1
    <3> QED
      BY <1>1, <1>5, <2>2, <3>1, <3>2 DEF e, c
  <2> QED
    BY <2>4, <2>5
<1> QED
  BY <1>4, <1>5

\* From fields in range, what is added is added, or more than the fields can
\* hold and carried out of the year.
LEMMA IncrementAdds ==
  ASSUME NEW d, Digits(d, Radices), NEW i \in Ids,
         NEW delta \in Nat, delta <= MaxValue(i) + 1
  PROVE  LET c == Carry(d, i, delta)[0]
             n == Worth(d, Place)[1]
             m == Worth(Incremented(d, i, delta), Place)[1]
         IN  /\ c \in 0 .. 1
             /\ n \in Nat /\ n < Base
             /\ m \in Nat /\ m < Base
             /\ m + c * Base = n + delta * Place[i]
<1> DEFINE e == Incremented(d, i, delta)
           c == Carry(d, i, delta)
<1>1. /\ Finest \in Nat /\ Ids = 1 .. Finest /\ i \in 1 .. Finest
      /\ \A j \in Ids : MaxValue(j) \in Nat /\ Radices[j] = MaxValue(j) + 1
  BY FormatFacts, PlacesAreRadix
<1>2. \A j \in Ids : d[j] \in 0 .. MaxValue(j) + 1 /\ d[j] <= MaxValue(j)
  BY <1>1, SMTT(30) DEF Digits
<1>3. \A j \in Ids : /\ e[j] = IF j > i THEN d[j] ELSE d[j] + c[j] - c[j - 1] * Radices[j]
                     /\ e[j] \in 0 .. MaxValue(j) + 1
                     /\ e[j] <= MaxValue(j)
  BY <1>2, IncrementedIs
<1>4. /\ c[i] = delta
      /\ \A j \in 0 .. i - 1 : c[j] = IF RunsOver(d, j + 1, c[j + 1]) THEN 1 ELSE 0
      /\ \A j \in 0 .. i : c[j] \in Nat
  <2>1. c[i] = delta
    BY <1>1, CarryStarts
  <2>2. \A j \in 0 .. i - 1 : c[j] = IF RunsOver(d, j + 1, c[j + 1]) THEN 1 ELSE 0
    BY CarryIs
  <2>3. \A j \in 0 .. i : c[j] \in Nat
    BY CarryIs
  <2> QED
    BY <2>1, <2>2, <2>3
<1> HIDE DEF e, c
<1>5. Digits(e, Radices)
  <2> SUFFICES ASSUME NEW j \in Ids PROVE e[j] \in Nat /\ e[j] < Radices[j]
    BY DEF Digits
  <2>1. MaxValue(j) \in Nat /\ Radices[j] = MaxValue(j) + 1
    BY <1>1
  <2>2. e[j] \in 0 .. MaxValue(j) + 1 /\ e[j] <= MaxValue(j)
    BY <1>3
  <2> QED
    BY <2>1, <2>2
<1>6. c[0] \in 0 .. 1
  <2>1. 0 \in 0 .. i - 1
    BY <1>1
  <2> QED
    BY <1>4, <2>1
<1>7. /\ \A j \in 0 .. i : c[j] \in Int
      /\ \A j \in Ids : e[j] = IF j > i THEN d[j] ELSE d[j] + c[j] - c[j - 1] * Radices[j]
  BY <1>3, <1>4
<1>8. Worth(e, Place)[1] + c[0] * Base = Worth(d, Place)[1] + c[i] * Place[i]
  BY <1>5, <1>7, CarryingKeepsNumber
<1>9. /\ Worth(d, Place)[1] \in Nat /\ Worth(d, Place)[1] < Base
      /\ Worth(e, Place)[1] \in Nat /\ Worth(e, Place)[1] < Base
  BY <1>5, NumberBelowBase
<1> QED
  BY <1>4, <1>6, <1>8, <1>9 DEF e, c

\* What is taken is taken, or more than there is and borrowed from id 0.
LEMMA DecrementTakes ==
  ASSUME NEW d, Digits(d, Radices), NEW i \in Ids,
         NEW delta \in Nat, delta <= MaxValue(i) + 1
  PROVE  LET c == Borrow(d, i, delta)[0]
             n == Worth(d, Place)[1]
             m == Worth(Decremented(d, i, delta), Place)[1]
         IN  /\ c \in 0 .. 1
             /\ n \in Nat /\ n < Base
             /\ m \in Nat /\ m < Base
             /\ m - c * Base = n - delta * Place[i]
<1> DEFINE e == Decremented(d, i, delta)
           b == Borrow(d, i, delta)
           c == [j \in 0 .. i |-> -b[j]]
<1>1. /\ Finest \in Nat /\ Ids = 1 .. Finest /\ i \in 1 .. Finest
      /\ \A j \in Ids : MaxValue(j) \in Nat /\ Radices[j] = MaxValue(j) + 1
      /\ Base \in Nat /\ Place[i] \in Nat
  BY FormatFacts, PlacesAreRadix DEF Radix
<1>2. \A j \in Ids : d[j] \in 0 .. MaxValue(j) + 1 /\ d[j] <= MaxValue(j)
  BY <1>1, SMTT(30) DEF Digits
<1>3. \A j \in Ids : /\ e[j] = IF j > i THEN d[j] ELSE d[j] - b[j] + b[j - 1] * Radices[j]
                     /\ e[j] \in 0 .. MaxValue(j) + 1
                     /\ e[j] <= MaxValue(j)
  BY <1>2, DecrementedIs
<1>4. /\ b[i] = delta
      /\ \A j \in 0 .. i - 1 : b[j] = IF RunsUnder(d, j + 1, b[j + 1]) THEN 1 ELSE 0
      /\ \A j \in 0 .. i : b[j] \in Nat
  <2>1. b[i] = delta
    BY <1>1, BorrowStarts
  <2>2. \A j \in 0 .. i - 1 : b[j] = IF RunsUnder(d, j + 1, b[j + 1]) THEN 1 ELSE 0
    BY BorrowIs
  <2>3. \A j \in 0 .. i : b[j] \in Nat
    BY BorrowIs
  <2> QED
    BY <2>1, <2>2, <2>3
<1> HIDE DEF e, b
<1>5. Digits(e, Radices)
  <2> SUFFICES ASSUME NEW j \in Ids PROVE e[j] \in Nat /\ e[j] < Radices[j]
    BY DEF Digits
  <2>1. MaxValue(j) \in Nat /\ Radices[j] = MaxValue(j) + 1
    BY <1>1
  <2>2. e[j] \in 0 .. MaxValue(j) + 1 /\ e[j] <= MaxValue(j)
    BY <1>3
  <2> QED
    BY <2>1, <2>2
<1>6. b[0] \in 0 .. 1
  <2>1. 0 \in 0 .. i - 1
    BY <1>1
  <2> QED
    BY <1>4, <2>1
<1>7. \A j \in 0 .. i : c[j] = -b[j] /\ c[j] \in Int
  BY <1>4
<1> HIDE DEF c
<1>8. \A j \in Ids : e[j] = IF j > i THEN d[j] ELSE d[j] + c[j] - c[j - 1] * Radices[j]
  <2> TAKE j \in Ids
  <2>1. CASE j > i
    BY <1>3, <2>1
  <2>2. CASE ~(j > i)
    <3>1. j \in 0 .. i /\ j - 1 \in 0 .. i
      BY <1>1, <2>2
    <3>2. /\ c[j] = -b[j] /\ c[j - 1] = -b[j - 1]
          /\ b[j] \in Nat /\ b[j - 1] \in Nat
          /\ d[j] \in Nat /\ Radices[j] \in Nat
      <4>1. c[j] = -b[j] /\ c[j - 1] = -b[j - 1]
        BY <1>7, <3>1
      <4>2. b[j] \in Nat /\ b[j - 1] \in Nat
        BY <1>4, <3>1
      <4>3. d[j] \in Nat /\ Radices[j] \in Nat
        BY <1>1, <1>2, SMTT(30)
      <4> QED
        BY <4>1, <4>2, <4>3
    <3>3. e[j] = d[j] - b[j] + b[j - 1] * Radices[j]
      BY <1>3, <2>2
    <3>4. c[j - 1] * Radices[j] = -(b[j - 1] * Radices[j]) /\ b[j - 1] * Radices[j] \in Nat
      BY <3>2
    <3>5. e[j] = d[j] + c[j] - c[j - 1] * Radices[j]
      BY <3>2, <3>3, <3>4
    <3> QED
      BY <2>2, <3>5
  <2> QED
    BY <2>1, <2>2
<1>9. Worth(e, Place)[1] + c[0] * Base = Worth(d, Place)[1] + c[i] * Place[i]
  BY <1>5, <1>7, <1>8, CarryingKeepsNumber
<1>10. /\ Worth(d, Place)[1] \in Nat /\ Worth(d, Place)[1] < Base
       /\ Worth(e, Place)[1] \in Nat /\ Worth(e, Place)[1] < Base
  BY <1>5, NumberBelowBase
<1>11. Worth(e, Place)[1] - b[0] * Base = Worth(d, Place)[1] - delta * Place[i]
  <2>1. 0 \in 0 .. i /\ i \in 0 .. i
    BY <1>1
  <2>2. c[0] = -b[0] /\ c[i] = -delta /\ b[0] \in Nat
    BY <1>4, <1>7, <2>1
  <2>3. c[0] * Base = -(b[0] * Base) /\ c[i] * Place[i] = -(delta * Place[i])
        /\ b[0] * Base \in Nat /\ delta * Place[i] \in Nat
    <3>1. \A x, y \in Nat : (-x) * y = -(x * y) /\ x * y \in Nat
      OBVIOUS
    <3> QED
      BY <1>1, <2>2, <3>1
  <2> QED
    BY <1>9, <1>10, <2>3
<1> QED
  BY <1>6, <1>10, <1>11 DEF e, b

\* What is given to increment and decrement.
LEMMA DeltasAre ==
  ASSUME NEW i \in Ids, NEW delta \in DeltasGiven(i)
  PROVE  delta \in Nat /\ delta > 0 /\ delta <= MaxValue(i) + 1
<1>1. MaxValue(i) \in Nat /\ MaxValue(i) > 0
  BY FormatFacts
<1>2. delta = 1 \/ delta = MaxValue(i) + 1
  BY DEF DeltasGiven
<1> QED
  BY <1>1, <1>2

\* What every set of fields holds: one more than the maximum, after a setter.
Fit(w) ==
  /\ w \in Words
  /\ w.type = 1
  /\ \A i \in Ids : w.field[i] \in 0 .. MaxValue(i) + 1

Typed ==
  /\ held \in [Objects -> Objects]
  /\ assigned \in [Objects -> SUBSET Objects]
  /\ data \in [Objects -> Words]
  /\ \A f \in Objects : Fit(data[f])

LEMMA NewFields ==
  ASSUME NEW w \in Words, NEW field
  PROVE  /\ [w EXCEPT !.field = field].field = field
         /\ [w EXCEPT !.field = field] =
              [ba |-> w.ba, field |-> field, forward |-> w.forward,
               reverse |-> w.reverse, type |-> w.type]
BY WordParts DEF Words

\* Carries and borrows of one word add and take, or throw, as CarriesAdd says.
LEMMA CarryFromWord ==
  ASSUME NEW w, Fit(w), Canonical(w), NEW i \in Ids, NEW delta \in DeltasGiven(i)
  PROVE  /\ IF Number(w) + delta * Place[i] \in Counts
            THEN /\ Carry(w.field, i, delta)[0] = 0
                 /\ Number([w EXCEPT !.field = Incremented(w.field, i, delta)])
                      = Number(w) + delta * Place[i]
            ELSE Carry(w.field, i, delta)[0] > 0
         /\ IF Number(w) - delta * Place[i] \in Counts
            THEN /\ Borrow(w.field, i, delta)[0] = 0
                 /\ Number([w EXCEPT !.field = Decremented(w.field, i, delta)])
                      = Number(w) - delta * Place[i]
            ELSE Borrow(w.field, i, delta)[0] > 0
<1> DEFINE d == w.field
           plus == [w EXCEPT !.field = Incremented(d, i, delta)]
           minus == [w EXCEPT !.field = Decremented(d, i, delta)]
           n == Number(w)
           x == delta * Place[i]
           c == Carry(d, i, delta)[0]
           b == Borrow(d, i, delta)[0]
<1>1. delta \in Nat /\ delta <= MaxValue(i) + 1
  BY DeltasAre
<1>2. Digits(d, Radices)
  <2>1. \A j \in Ids : d[j] \in 0 .. MaxValue(j)
    BY Zenon DEF Canonical
  <2>2. \A j \in Ids : MaxValue(j) \in Nat /\ Radices[j] = MaxValue(j) + 1
    BY FormatFacts, PlacesAreRadix
  <2> HIDE DEF d
  <2> QED
    BY <2>1, <2>2 DEF Digits
<1>3. n = Worth(d, Place)[1]
  BY DEF Number, Worth
<1>4. /\ Number(plus) = Worth(Incremented(d, i, delta), Place)[1]
      /\ Number(minus) = Worth(Decremented(d, i, delta), Place)[1]
  <2>1. plus.field = Incremented(d, i, delta) /\ minus.field = Decremented(d, i, delta)
    BY NewFields DEF Fit
  <2> HIDE DEF plus, minus, d
  <2> QED
    BY <2>1 DEF Number, Worth
<1>5. /\ Base \in Nat /\ x \in Nat
      /\ Counts = 0 .. Base - 1
  <2>1. Base \in Nat /\ Place[i] \in Nat
    BY PlacesAreRadix DEF Radix
  <2>2. \A f, g \in Nat : f * g \in Nat
    OBVIOUS
  <2>3. x \in Nat
    BY <1>1, <2>1, <2>2
  <2> QED
    BY <2>1, <2>3 DEF Counts, Base
<1>6. /\ c \in 0 .. 1
      /\ n \in Nat /\ n < Base
      /\ Number(plus) \in Nat /\ Number(plus) < Base
      /\ Number(plus) + c * Base = n + x
  <2> HIDE DEF d
  <2>1. /\ Carry(d, i, delta)[0] \in 0 .. 1
      /\ Worth(d, Place)[1] \in Nat /\ Worth(d, Place)[1] < Base
      /\ Worth(Incremented(d, i, delta), Place)[1] \in Nat
      /\ Worth(Incremented(d, i, delta), Place)[1] < Base
      /\ Worth(Incremented(d, i, delta), Place)[1] + Carry(d, i, delta)[0] * Base
           = Worth(d, Place)[1] + delta * Place[i]
    BY <1>1, <1>2, IncrementAdds
  <2> QED
    BY <2>1, <1>3, <1>4
<1>7. /\ b \in 0 .. 1
      /\ Number(minus) \in Nat /\ Number(minus) < Base
      /\ Number(minus) - b * Base = n - x
  <2> HIDE DEF d
  <2>1. /\ Borrow(d, i, delta)[0] \in 0 .. 1
      /\ Worth(Decremented(d, i, delta), Place)[1] \in Nat
      /\ Worth(Decremented(d, i, delta), Place)[1] < Base
      /\ Worth(Decremented(d, i, delta), Place)[1] - Borrow(d, i, delta)[0] * Base
           = Worth(d, Place)[1] - delta * Place[i]
    BY <1>1, <1>2, DecrementTakes
  <2> QED
    BY <2>1, <1>3, <1>4
<1> HIDE DEF plus, minus, n, x, c, b
<1>8. IF n + x \in Counts THEN c = 0 /\ Number(plus) = n + x ELSE c > 0
  <2>1. CASE c = 0
    BY <1>5, <1>6, <2>1
  <2>2. CASE c = 1
    BY <1>5, <1>6, <2>2
  <2> QED
    BY <1>6, <2>1, <2>2
<1>9. IF n - x \in Counts THEN b = 0 /\ Number(minus) = n - x ELSE b > 0
  <2>1. CASE b = 0
    BY <1>5, <1>6, <1>7, <2>1
  <2>2. CASE b = 1
    BY <1>5, <1>6, <1>7, <2>2
  <2> QED
    BY <1>7, <2>1, <2>2
<1> QED
  BY <1>8, <1>9 DEF plus, minus, n, x, c, b

LEMMA TypedCarriesAdd == Typed => CarriesAdd
<1> SUFFICES ASSUME Typed, NEW o \in Objects, NEW i \in Ids, NEW delta \in DeltasGiven(i),
                    Canonical(Value(o))
             PROVE  LET w == Value(o)
                        n == Number(w)
                        plus == [w EXCEPT !.field = Incremented(w.field, i, delta)]
                        minus == [w EXCEPT !.field = Decremented(w.field, i, delta)]
                    IN
          /\ IF n + delta * Place[i] \in Counts
             THEN Carry(w.field, i, delta)[0] = 0 /\ Number(plus) = n + delta * Place[i]
             ELSE Carry(w.field, i, delta)[0] > 0
          /\ IF n - delta * Place[i] \in Counts
             THEN Borrow(w.field, i, delta)[0] = 0 /\ Number(minus) = n - delta * Place[i]
             ELSE Borrow(w.field, i, delta)[0] > 0
  BY Zenon DEF CarriesAdd
<1>1. Fit(Value(o))
  BY DEF Typed, Value
<1> QED
  BY <1>1, CarryFromWord, Zenon

-----------------------------------------------------------------------------
(***************************************************************************)
(* Words that fit.  Whatever a call stores is a word whose fields are at   *)
(* most one beyond their maximum, as a setter leaves them before it        *)
(* throws.                                                                 *)
(***************************************************************************)
LEMMA WordFits ==
  ASSUME NEW ba \in 0 .. 1, NEW field \in [Ids -> Int],
         NEW forward \in 0 .. ResolutionMask, NEW reverse \in 0 .. ResolutionMask,
         \A i \in Ids : field[i] \in 0 .. MaxValue(i) + 1
  PROVE  Fit([ba |-> ba, field |-> field, forward |-> forward,
              reverse |-> reverse, type |-> 1])
BY DEF Fit, Words

LEMMA FitParts ==
  ASSUME NEW w, Fit(w)
  PROVE  /\ w \in Words /\ w.type = 1
         /\ w.ba \in 0 .. 1
         /\ w.field \in [Ids -> Int]
         /\ \A i \in Ids : w.field[i] \in 0 .. MaxValue(i) + 1
         /\ w.forward \in 0 .. ResolutionMask
         /\ w.reverse \in 0 .. ResolutionMask
         /\ w = [ba |-> w.ba, field |-> w.field, forward |-> w.forward,
                 reverse |-> w.reverse, type |-> 1]
<1>1. w \in Words /\ w.type = 1 /\ \A i \in Ids : w.field[i] \in 0 .. MaxValue(i) + 1
  BY DEF Fit
<1> QED
  BY <1>1, WordParts

LEMMA SoundFits ==
  ASSUME NEW w, Sound(w)
  PROVE  Fit(w)
<1>1. \A i \in Ids : MaxValue(i) \in Nat
  BY FormatFacts
<1>2. \A i \in Ids : w.field[i] \in 0 .. MaxValue(i) + 1
  BY <1>1 DEF Sound
<1> QED
  BY <1>2 DEF Sound, Fit

LEMMA MaskIsNat == ResolutionMask \in Nat
BY LowPowers

LEMMA ZeroFits == Fit(ZeroWord)
<1> DEFINE zero == [i \in Ids |-> 0]
<1>1. zero \in [Ids -> Int] /\ \A i \in Ids : zero[i] \in 0 .. MaxValue(i) + 1
  BY FormatFacts
<1>2. 0 \in 0 .. 1 /\ 0 \in 0 .. ResolutionMask
  BY MaskIsNat
<1> HIDE DEF zero
<1>3. Fit([ba |-> 0, field |-> zero, forward |-> 0, reverse |-> 0, type |-> 1])
  BY <1>1, <1>2, WordFits
<1> QED
  BY <1>3 DEF ZeroWord, zero

LEMMA ZeroWordIs ==
  /\ ZeroWord \in Words /\ ZeroWord.type = 1
  /\ ZeroWord.forward = 0 /\ ZeroWord.reverse = 0
BY ZeroFits DEF ZeroWord, Fit

\* One field set, as a setter stores it.
LEMMA FieldSetFits ==
  ASSUME NEW w, Fit(w), NEW i \in Ids, NEW x \in 0 .. MaxValue(i) + 1
  PROVE  Fit([w EXCEPT !.field[i] = x])
<1> DEFINE field == [w.field EXCEPT ![i] = x]
<1>1. field \in [Ids -> Int] /\ \A j \in Ids : field[j] \in 0 .. MaxValue(j) + 1
  BY FitParts, FormatFacts, SMTT(30)
<1> HIDE DEF field
<1>2. Fit([ba |-> w.ba, field |-> field, forward |-> w.forward,
           reverse |-> w.reverse, type |-> 1])
  BY <1>1, FitParts, WordFits
<1>3. [w EXCEPT !.field[i] = x]
        = [ba |-> w.ba, field |-> field, forward |-> w.forward,
           reverse |-> w.reverse, type |-> 1]
  BY FitParts DEF field
<1> QED
  BY <1>2, <1>3

\* All fields set at once.
LEMMA FieldsSetFit ==
  ASSUME NEW w, Fit(w), NEW field \in [Ids -> Int],
         \A i \in Ids : field[i] \in 0 .. MaxValue(i) + 1
  PROVE  Fit([w EXCEPT !.field = field])
<1>1. Fit([ba |-> w.ba, field |-> field, forward |-> w.forward,
           reverse |-> w.reverse, type |-> 1])
  BY FitParts, WordFits
<1>2. [w EXCEPT !.field = field]
        = [ba |-> w.ba, field |-> field, forward |-> w.forward,
           reverse |-> w.reverse, type |-> 1]
  BY FitParts
<1> QED
  BY <1>1, <1>2

\* The bit before the year, and each resolution.
LEMMA PartsSetFit ==
  ASSUME NEW w, Fit(w)
  PROVE  /\ \A b \in 0 .. 1 : Fit([w EXCEPT !.ba = b])
         /\ \A r \in 0 .. ResolutionMask : /\ Fit([w EXCEPT !.forward = r])
                                          /\ Fit([w EXCEPT !.reverse = r])
<1>1. w = [ba |-> w.ba, field |-> w.field, forward |-> w.forward,
           reverse |-> w.reverse, type |-> 1]
  BY FitParts
<1>2. ASSUME NEW b \in 0 .. 1 PROVE Fit([w EXCEPT !.ba = b])
  <2>1. Fit([ba |-> b, field |-> w.field, forward |-> w.forward,
             reverse |-> w.reverse, type |-> 1])
    BY FitParts, WordFits
  <2>2. [w EXCEPT !.ba = b] = [ba |-> b, field |-> w.field, forward |-> w.forward,
                               reverse |-> w.reverse, type |-> 1]
    BY <1>1
  <2> QED
    BY <2>1, <2>2
<1>3. ASSUME NEW r \in 0 .. ResolutionMask PROVE Fit([w EXCEPT !.forward = r])
  <2>1. Fit([ba |-> w.ba, field |-> w.field, forward |-> r,
             reverse |-> w.reverse, type |-> 1])
    BY FitParts, WordFits
  <2>2. [w EXCEPT !.forward = r] = [ba |-> w.ba, field |-> w.field, forward |-> r,
                                    reverse |-> w.reverse, type |-> 1]
    BY <1>1
  <2> QED
    BY <2>1, <2>2
<1>4. ASSUME NEW r \in 0 .. ResolutionMask PROVE Fit([w EXCEPT !.reverse = r])
  <2>1. Fit([ba |-> w.ba, field |-> w.field, forward |-> w.forward,
             reverse |-> r, type |-> 1])
    BY FitParts, WordFits
  <2>2. [w EXCEPT !.reverse = r] = [ba |-> w.ba, field |-> w.field, forward |-> w.forward,
                                    reverse |-> r, type |-> 1]
    BY <1>1
  <2> QED
    BY <2>1, <2>2
<1> QED
  BY <1>2, <1>3, <1>4

\* Both resolutions, in either order.
LEMMA ReachSetFits ==
  ASSUME NEW w, Fit(w), NEW r \in 0 .. ResolutionMask, NEW f \in 0 .. ResolutionMask
  PROVE  /\ Fit([w EXCEPT !.reverse = r, !.forward = f])
         /\ Fit([w EXCEPT !.forward = f, !.reverse = r])
<1> DEFINE u == [w EXCEPT !.reverse = r]
           v == [w EXCEPT !.forward = f]
<1>1. Fit(u) /\ Fit(v)
  BY PartsSetFit
<1>2. [w EXCEPT !.reverse = r, !.forward = f] = [u EXCEPT !.forward = f]
  OBVIOUS
<1>3. [w EXCEPT !.forward = f, !.reverse = r] = [v EXCEPT !.reverse = r]
  OBVIOUS
<1> HIDE DEF u, v
<1>4. Fit([u EXCEPT !.forward = f])
  BY <1>1, PartsSetFit
<1>5. Fit([v EXCEPT !.reverse = r])
  BY <1>1, PartsSetFit
<1> QED
  BY <1>2, <1>3, <1>4, <1>5

\* Carries and borrows leave no field negative, even from a field in excess.
LEMMA IncrementedFits ==
  ASSUME NEW w, Fit(w), NEW i \in Ids, NEW delta \in DeltasGiven(i)
  PROVE  /\ Fit([w EXCEPT !.field = Incremented(w.field, i, delta)])
         /\ Fit([w EXCEPT !.field = Decremented(w.field, i, delta)])
<1> DEFINE d == w.field
           e == Incremented(d, i, delta)
           f == Decremented(d, i, delta)
<1>1. delta \in Nat /\ delta <= MaxValue(i) + 1
  BY DeltasAre
<1>2. \A j \in Ids : d[j] \in 0 .. MaxValue(j) + 1
  BY FitParts
<1>3. \A j \in Ids : e[j] \in 0 .. MaxValue(j) + 1
  <2> HIDE DEF d
  <2> QED
    BY <1>1, <1>2, IncrementedIs
<1>4. \A j \in Ids : f[j] \in 0 .. MaxValue(j) + 1
  <2> HIDE DEF d
  <2> QED
    BY <1>1, <1>2, DecrementedIs
<1>5. e = [j \in Ids |-> e[j]] /\ f = [j \in Ids |-> f[j]]
  BY DEF Incremented, Decremented
<1> HIDE DEF e, f
<1>6. e \in [Ids -> Int] /\ f \in [Ids -> Int]
  BY <1>3, <1>4, <1>5
<1>7. Fit([w EXCEPT !.field = e])
  BY <1>3, <1>6, FieldsSetFit
<1>8. Fit([w EXCEPT !.field = f])
  BY <1>4, <1>6, FieldsSetFit
<1> QED
  BY <1>7, <1>8 DEF e, f

\* Nothing can be carried out of id 0 before it is changed itself.
LEMMA ThrowsAtOnce ==
  ASSUME NEW field, NEW delta \in DeltasGiven(0)
  PROVE  Carry(field, 0, delta)[0] > 0 /\ Borrow(field, 0, delta)[0] > 0
<1>1. 0 \notin Ids /\ 0 \in 0 .. Finest
  BY FormatFacts
<1>2. delta = 1
  BY <1>1 DEF DeltasGiven
<1>3. Carry(field, 0, delta)[0] = delta
  BY <1>1, CarryStarts
<1>4. Borrow(field, 0, delta)[0] = delta
  BY <1>1, BorrowStarts
<1> QED
  BY <1>2, <1>3, <1>4

\* Words made from milliseconds.
LEMMA FromMillisecondsFits ==
  ASSUME NEW w, Fit(w), NEW ms \in Int, Representable(ms)
  PROVE  Fit(FromMilliseconds(w, ms))
<1>1. w \in Words /\ w.type = 1
  BY FitParts
<1>2. Sound(FromMilliseconds(w, ms))
  BY <1>1, FromMillisecondsIsSound
<1> QED
  BY <1>2, SoundFits

\* Words made from a year and milliseconds, which may be a whole year.
LEMMA DatedFits ==
  ASSUME NEW w, Fit(w), NEW ba \in 0 .. 1, NEW year \in 0 .. MaxValue(1) + 1,
         NEW rest \in Int
  PROVE  Fit(Dated(w, ba, year, rest))
<1> DEFINE v == Dated(w, ba, year, rest)
<1>1. w \in Words /\ w.type = 1
  BY FitParts
<1>2. year \in Int /\ \A i \in Ids : MaxValue(i) \in Nat
  BY FormatFacts
<1>3. v \in Words /\ v.type = 1 /\ v.field[1] = year
      /\ \A i \in Ids : i # 1 => v.field[i] \in 0 .. MaxValue(i)
  <2>1. v \in Words
    BY <1>1, <1>2, DatedIs
  <2>2. v.type = w.type
    BY <1>1, <1>2, DatedIs
  <2>3. v.field[1] = year
    BY <1>1, <1>2, DatedIs
  <2>4. \A i \in Ids : i # 1 => v.field[i] \in 0 .. MaxValue(i)
    BY <1>1, <1>2, DatedIs
  <2> QED
    BY <1>1, <2>1, <2>2, <2>3, <2>4
<1> HIDE DEF v
<1>4. \A i \in Ids : v.field[i] \in 0 .. MaxValue(i) + 1
  <2> TAKE i \in Ids
  <2>1. CASE i = 1
    BY <1>3, <2>1
  <2>2. CASE i # 1
    BY <1>2, <1>3, <2>2
  <2> QED
    BY <2>1, <2>2
<1>5. Fit(v)
  BY <1>3, <1>4 DEF Fit
<1> QED
  BY <1>5 DEF v

\* The year alone, as fromNativeCEYearAndMilliseconds stores it before it throws.
LEMMA YearSetFits ==
  ASSUME NEW w, Fit(w), NEW CE \in 0 .. 1, NEW year \in 0 .. MaxValue(1) + 1
  PROVE  Fit([w EXCEPT !.ba = CE, !.field[1] = year])
<1> DEFINE u == [w EXCEPT !.ba = CE]
<1>1. Fit(u)
  BY PartsSetFit
<1>2. [w EXCEPT !.ba = CE, !.field[1] = year] = [u EXCEPT !.field[1] = year]
  OBVIOUS
<1> HIDE DEF u
<1>3. 1 \in Ids
  BY FormatFacts
<1>4. Fit([u EXCEPT !.field[1] = year])
  BY <1>1, <1>3, FieldSetFits
<1> QED
  BY <1>2, <1>4

\* Sums, with the coarser resolution of the two.
LEMMA SumFits ==
  ASSUME NEW w, Fit(w), NEW v, Fit(v),
         Milliseconds(w) + Milliseconds(v) \in Int,
         Representable(Milliseconds(w) + Milliseconds(v))
  PROVE  Fit(Sum(w, v))
<1> DEFINE u == FromMilliseconds(ZeroWord, Milliseconds(w) + Milliseconds(v))
           f == Min({w.forward, v.forward})
           r == Min({w.reverse, v.reverse})
<1>1. Fit(u)
  BY ZeroFits, FromMillisecondsFits
<1>2. \A a, b \in 0 .. ResolutionMask : Min({a, b}) \in 0 .. ResolutionMask
  <2> TAKE a, b \in 0 .. ResolutionMask
  <2>1. Min({a, b}) \in {a, b}
    <3>1. a \in Int /\ b \in Int
      BY MaskIsNat
    <3>2. \E m \in {a, b} : \A y \in {a, b} : m <= y
      BY <3>1
    <3>3. \E m : m \in {a, b} /\ \A y \in {a, b} : m <= y
      BY <3>2
    <3> QED
      BY <3>3 DEF Min
  <2> QED
    BY <2>1
<1>3. w.forward \in 0 .. ResolutionMask /\ v.forward \in 0 .. ResolutionMask
      /\ w.reverse \in 0 .. ResolutionMask /\ v.reverse \in 0 .. ResolutionMask
  BY FitParts
<1>4. f \in 0 .. ResolutionMask /\ r \in 0 .. ResolutionMask
  BY <1>2, <1>3
<1> HIDE DEF u, f, r
<1>5. Fit([u EXCEPT !.forward = f, !.reverse = r])
  BY <1>1, <1>4, ReachSetFits
<1> QED
  BY <1>5 DEF Sum, u, f, r

\* The fields are integers, so the milliseconds are.
LEMMA MillisecondsAreInt ==
  ASSUME NEW w, Fit(w)
  PROVE  Milliseconds(w) \in Int
<1>1. /\ 1 \in Ids /\ 2 \in 1 .. Finest + 1 /\ Scale(1) \in Nat
      /\ \A i \in Ids : Scale(i) \in Nat /\ MaxValue(i) \in Nat
  BY FormatFacts
<1>2. \A i \in Ids : w.field[i] \in Nat
  BY <1>1, FitParts
<1>3. \A x, y \in Nat : x * y \in Nat
  OBVIOUS
<1> DEFINE part == [i \in Ids |-> w.field[i] * Scale(i)]
<1>4. \A i \in Ids : part[i] \in Nat
  BY <1>1, <1>2, <1>3
<1> HIDE DEF part
<1>5. Sums(part)[2] \in Nat
  BY <1>1, <1>4, SumsOfNats
<1>6. FractionOfYear(w) \in Nat
  BY <1>5 DEF FractionOfYear, part
<1>7. w.field[1] \in Nat
  BY <1>1, <1>2
<1>8. \A x, y \in Nat : 1 * x * y \in Int /\ -1 * x * y \in Int
  OBVIOUS
<1>9. CASE w.ba = 1
  BY <1>1, <1>6, <1>7, <1>8, <1>9 DEF Milliseconds
<1>10. CASE w.ba # 1
  BY <1>1, <1>6, <1>7, <1>8, <1>10 DEF Milliseconds
<1> QED
  BY <1>9, <1>10

LEMMA MillisecondsEnd == FirstMillisecond \in Int /\ LastMillisecond \in Int
<1>1. MaxValue(1) \in Nat /\ Scale(1) \in Nat
  BY FormatFacts
<1>2. \A x, y \in Nat : -x * y \in Int /\ (x + 1) * y - 1 \in Int
  OBVIOUS
<1> QED
  BY <1>1, <1>2 DEF FirstMillisecond, LastMillisecond

\* 1 is the integer of the year 0 that does not exist.
LEMMA DecodeOne == Fit(Decode(1))
<1> DEFINE zero == [i \in Ids |-> 0]
<1>1. /\ \A k \in 1 .. WordBits : Two[k] \in Nat /\ Two[k] > 1
      /\ \A k \in 0 .. WordBits : Two[k] \in Nat /\ Two[k] > 0
  <2>1. WordBits \in Nat
    BY OffsetFacts
  <2>2. ASSUME NEW k \in 1 .. WordBits PROVE Two[k] \in Nat /\ Two[k] > 1
    <3>1. k - 1 \in 0 .. WordBits - 1 /\ k - 1 \in 0 .. WordBits /\ (k - 1) + 1 = k
      BY <2>1
    <3>2. Two[(k - 1) + 1] = 2 * Two[k - 1] /\ Two[k - 1] \in Nat /\ Two[k - 1] > 0
      BY <3>1, TwoFacts
    <3>3. Two[k] = 2 * Two[k - 1]
      BY <3>1, <3>2
    <3> QED
      BY <3>2, <3>3
  <2> QED
    BY <2>2, TwoFacts
<1>2. \A f, g \in Nat : f > 1 /\ g > 0 => (1 \div f) % g = 0
  <2> SUFFICES ASSUME NEW f \in Nat, NEW g \in Nat, f > 1, g > 0
               PROVE  (1 \div f) % g = 0
    OBVIOUS
  <2>1. 1 \div f = 0
    <3>1. (0 * f + 1) \div f = 0
      BY Quotient
    <3> QED
      BY <3>1
  <2>2. (0 * g + 0) % g = 0
    BY Quotient
  <2> QED
    BY <2>1, <2>2
<1>3. ASSUME NEW offset \in 1 .. WordBits, NEW width \in 0 .. WordBits
      PROVE  Bits(1, offset, width) = 0
  BY <1>1, <1>2 DEF Bits
<1>4. /\ \A i \in Ids : Offset[i] \in 1 .. WordBits /\ Width(i) \in 0 .. WordBits
      /\ ForwardOffset \in 1 .. WordBits /\ ReverseOffset \in 1 .. WordBits
      /\ ResolutionWidth \in 0 .. WordBits
  <2>1. /\ ResolutionWidth \in Nat /\ ResolutionWidth > 0
        /\ LowBits = 2 + 2 * ResolutionWidth
        /\ LowBits \in Nat /\ WordBits \in Nat /\ LowBits <= WordBits
        /\ ForwardOffset = 2 + ResolutionWidth /\ ReverseOffset = 2
    BY FormatFacts, OffsetFacts DEF LowBits, TypeWidth, ForwardOffset, ReverseOffset
  <2>2. ASSUME NEW i \in Ids
        PROVE  Offset[i] \in 1 .. WordBits /\ Width(i) \in 0 .. WordBits
    <3>1. Offset[i] \in Nat /\ Offset[i] + Width(i) <= WordBits /\ Width(i) \in Nat
      BY OffsetFacts, FormatFacts
    <3>2. Offset[i] >= LowBits
      BY OffsetAboveLow
    <3> QED
      BY <2>1, <3>1, <3>2
  <2> QED
    BY <2>1, <2>2
<1>5. Decode(1) = [ba |-> 1, field |-> zero, forward |-> 0, reverse |-> 0, type |-> 1]
  <2>1. [i \in Ids |-> Bits(1, Offset[i], Width(i))] = zero
    BY <1>3, <1>4
  <2>2. Bits(1, ForwardOffset, ResolutionWidth) = 0
        /\ Bits(1, ReverseOffset, ResolutionWidth) = 0
    BY <1>3, <1>4
  <2>3. 1 % Two[TypeWidth] = 1
    BY LowPowers
  <2>4. Decode(1) = [ba |-> 1, field |-> [i \in Ids |-> Bits(1, Offset[i], Width(i))],
                     forward |-> Bits(1, ForwardOffset, ResolutionWidth),
                     reverse |-> Bits(1, ReverseOffset, ResolutionWidth),
                     type |-> 1 % Two[TypeWidth]]
    BY DEF Decode
  <2> QED
    BY <2>1, <2>2, <2>3, <2>4
<1>6. zero \in [Ids -> Int] /\ \A i \in Ids : zero[i] \in 0 .. MaxValue(i) + 1
  BY FormatFacts
<1> HIDE DEF zero
<1>7. 0 \in 0 .. ResolutionMask
  BY MaskIsNat
<1> QED
  BY <1>5, <1>6, <1>7, WordFits

\* Words unpacked from the integers callers give.
LEMMA DecodedFits ==
  ASSUME NEW x \in ValuesGiven
  PROVE  Fit(Decode(x))
<1>1. CASE x = 1
  BY <1>1, DecodeOne
<1>2. CASE x # 1
  <2>1. PICK ms \in FirstMillisecond .. LastMillisecond :
          x = Encode(FromMilliseconds(ZeroWord, ms))
    BY <1>2 DEF ValuesGiven
  <2>2. FirstMillisecond \in Int /\ LastMillisecond \in Int
    BY MillisecondsEnd
  <2>3. ms \in Int /\ Representable(ms)
    BY <2>2 DEF Representable
  <2>4. Sound(FromMilliseconds(ZeroWord, ms))
    BY <2>3, ZeroWordIs, FromMillisecondsIsSound
  <2>5. Decode(x) = FromMilliseconds(ZeroWord, ms)
    BY <2>1, <2>4, DecodeOfEncode
  <2> QED
    BY <2>4, <2>5, SoundFits
<1> QED
  BY <1>1, <1>2

-----------------------------------------------------------------------------
\* Every call writes a word that fits, into the fields its object points to or
\* into new ones, lets its object point to another's, or changes nothing.
LEMMA CallsFit ==
  ASSUME Typed, Next
  PROVE  \/ \E o \in Objects : \E w : Fit(w) /\ Writes(o, w)
         \/ \E o \in Objects : \E w : Fit(w) /\ Fresh(o, w)
         \/ \E o, p \in Objects : Assign(o, p)
         \/ UNCHANGED vars
<1>1. PICK o \in Objects :
        \/ Construct(o)
        \/ \E p \in Objects : CopyConstruct(o, p) \/ Assign(o, p)
        \/ \E i \in Ids : \E x \in 0 .. MaxValue(i) + 1 : SetField(o, i, x)
        \/ \E b \in 0 .. 1 : SetBeforeAfterStartBit(o, b)
        \/ \E r, f \in Resolutions : SetResolutions(o, r, f)
        \/ SetZero(o)
        \/ \E ms \in MillisecondsGiven : FromInt64Milliseconds(o, ms)
        \/ \E CE \in 0 .. 1, year \in YearsGiven, ms \in FractionsGiven :
             FromNative(o, CE, year, ms)
        \/ \E x \in ValuesGiven : FromValue(o, x)
        \/ \E i \in {0} \cup Ids : \E delta \in DeltasGiven(i) :
             IncrementAtId(o, i, delta) \/ DecrementAtId(o, i, delta)
        \/ \E p, q \in Objects : Add(o, p, q)
  BY DEF Next
<1>2. \A p \in Objects : Fit(Value(p))
  BY DEF Typed, Value
<1>3. CASE Construct(o)
  BY <1>3, ZeroFits DEF Construct
<1>4. CASE \E p \in Objects : CopyConstruct(o, p) \/ Assign(o, p)
  BY <1>2, <1>4 DEF CopyConstruct
<1>5. ASSUME NEW i \in Ids, NEW x \in 0 .. MaxValue(i) + 1, SetField(o, i, x)
      PROVE  \E w : Fit(w) /\ Writes(o, w)
  <2>1. Fit([Value(o) EXCEPT !.field[i] = x])
    BY <1>2, FieldSetFits
  <2> QED
    BY <1>5, <2>1, Zenon DEF SetField
<1>6. ASSUME NEW b \in 0 .. 1, SetBeforeAfterStartBit(o, b)
      PROVE  \E w : Fit(w) /\ Writes(o, w)
  <2>1. Fit([Value(o) EXCEPT !.ba = b])
    BY <1>2, PartsSetFit
  <2> QED
    BY <1>6, <2>1, Zenon DEF SetBeforeAfterStartBit
<1>7. ASSUME NEW r \in Resolutions, NEW f \in Resolutions, SetResolutions(o, r, f)
      PROVE  \E w : Fit(w) /\ Writes(o, w)
  <2>1. r \in 0 .. ResolutionMask /\ f \in 0 .. ResolutionMask
    BY TemporalIndexAssumption
  <2>2. Fit([Value(o) EXCEPT !.reverse = r, !.forward = f])
    BY <1>2, <2>1, ReachSetFits
  <2> QED
    BY <1>7, <2>2, Zenon DEF SetResolutions
<1>8. CASE SetZero(o)
  BY <1>8, ZeroFits DEF SetZero
<1>9. ASSUME NEW ms \in MillisecondsGiven, FromInt64Milliseconds(o, ms)
      PROVE  (\E w : Fit(w) /\ Writes(o, w)) \/ UNCHANGED vars
  <2>1. CASE Representable(ms)
    <3>1. ms \in Int
      BY MillisecondsEnd DEF MillisecondsGiven
    <3>2. Fit(FromMilliseconds(Value(o), ms))
      BY <1>2, <2>1, <3>1, FromMillisecondsFits
    <3>3. Writes(o, FromMilliseconds(Value(o), ms))
      BY <1>9, <2>1 DEF FromInt64Milliseconds
    <3> QED
      BY <3>2, <3>3
  <2>2. CASE ~Representable(ms)
    BY <1>9, <2>2 DEF FromInt64Milliseconds
  <2> QED
    BY <2>1, <2>2
<1>10. ASSUME NEW CE \in 0 .. 1, NEW year \in YearsGiven, NEW ms \in FractionsGiven,
              FromNative(o, CE, year, ms)
       PROVE  (\E w : Fit(w) /\ Writes(o, w)) \/ UNCHANGED vars
  <2>1. year \in 0 .. MaxValue(1) + 1 /\ ms \in Int
    <3>1. Scale(1) \in Nat
      BY FormatFacts
    <3> QED
      BY <3>1 DEF YearsGiven, FractionsGiven
  <2>2. Fit([Value(o) EXCEPT !.ba = CE, !.field[1] = year])
    BY <1>2, <2>1, YearSetFits
  <2>3. Fit(Dated(Value(o), CE, year, ms))
    BY <1>2, <2>1, DatedFits
  <2>4. \/ UNCHANGED vars
        \/ Writes(o, [Value(o) EXCEPT !.ba = CE, !.field[1] = year])
        \/ Writes(o, Dated(Value(o), CE, year, ms))
    BY <1>10, Zenon DEF FromNative
  <2> QED
    BY <2>2, <2>3, <2>4, Zenon
<1>11. ASSUME NEW x \in ValuesGiven, FromValue(o, x)
       PROVE  \E w : Fit(w) /\ Writes(o, w)
  BY <1>11, DecodedFits DEF FromValue
<1>12. ASSUME NEW i \in {0} \cup Ids, NEW delta \in DeltasGiven(i), IncrementAtId(o, i, delta)
       PROVE  (\E w : Fit(w) /\ Writes(o, w)) \/ UNCHANGED vars
  <2>1. CASE Carry(Value(o).field, i, delta)[0] > 0
    BY <1>12, <2>1, Zenon DEF IncrementAtId
  <2>2. CASE ~(Carry(Value(o).field, i, delta)[0] > 0)
    <3>1. i \in Ids
      BY <2>2, ThrowsAtOnce
    <3>2. Fit([Value(o) EXCEPT !.field = Incremented(Value(o).field, i, delta)])
      BY <1>2, <3>1, IncrementedFits
    <3>3. Writes(o, [Value(o) EXCEPT !.field = Incremented(Value(o).field, i, delta)])
      BY <1>12, <2>2, Zenon DEF IncrementAtId
    <3> QED
      BY <3>2, <3>3, Zenon
  <2> QED
    BY <2>1, <2>2
<1>13. ASSUME NEW i \in {0} \cup Ids, NEW delta \in DeltasGiven(i), DecrementAtId(o, i, delta)
       PROVE  (\E w : Fit(w) /\ Writes(o, w)) \/ UNCHANGED vars
  <2>1. CASE Borrow(Value(o).field, i, delta)[0] > 0
    BY <1>13, <2>1, Zenon DEF DecrementAtId
  <2>2. CASE ~(Borrow(Value(o).field, i, delta)[0] > 0)
    <3>1. i \in Ids
      BY <2>2, ThrowsAtOnce
    <3>2. Fit([Value(o) EXCEPT !.field = Decremented(Value(o).field, i, delta)])
      BY <1>2, <3>1, IncrementedFits
    <3>3. Writes(o, [Value(o) EXCEPT !.field = Decremented(Value(o).field, i, delta)])
      BY <1>13, <2>2, Zenon DEF DecrementAtId
    <3> QED
      BY <3>2, <3>3, Zenon
  <2> QED
    BY <2>1, <2>2
<1>14. ASSUME NEW p \in Objects, NEW q \in Objects, Add(o, p, q)
       PROVE  \E w : Fit(w) /\ Fresh(o, w)
  <2>1. Fit(Value(p)) /\ Fit(Value(q))
    BY <1>2
  <2>2. Milliseconds(Value(p)) \in Int /\ Milliseconds(Value(q)) \in Int
    BY <2>1, MillisecondsAreInt
  <2>3. Representable(Milliseconds(Value(p)) + Milliseconds(Value(q)))
        /\ Fresh(o, Sum(Value(p), Value(q)))
    BY <1>14 DEF Add
  <2>4. Milliseconds(Value(p)) + Milliseconds(Value(q)) \in Int
    BY <2>2
  <2>5. Fit(Sum(Value(p), Value(q)))
    BY <2>1, <2>3, <2>4, SumFits
  <2> QED
    BY <2>3, <2>5
<1> QED
  BY <1>1, <1>3, <1>4, <1>5, <1>6, <1>7, <1>8, <1>9, <1>10, <1>11, <1>12, <1>13, <1>14

LEMMA InitTyped == Init => Typed
BY ZeroFits, ZeroWordIs DEF Init, Typed

\* No call stores what does not fit.
LEMMA TypedStep ==
  ASSUME Typed, Next
  PROVE  Typed'
<1>1. /\ held \in [Objects -> Objects]
      /\ assigned \in [Objects -> SUBSET Objects]
      /\ data \in [Objects -> Words]
      /\ \A f \in Objects : Fit(data[f])
  BY DEF Typed
<1>2. \A w : Fit(w) => w \in Words
  BY DEF Fit
<1>3. ASSUME NEW pointed
      PROVE  Reaching(pointed) \in [Objects -> Words]
             /\ \A f \in Objects : Fit(Reaching(pointed)[f])
  <2>1. \A f \in Objects : Fit(IF \E o \in Objects : pointed[o] = f THEN data[f] ELSE ZeroWord)
    BY <1>1, ZeroFits
  <2>2. \A f \in Objects : Reaching(pointed)[f]
          = IF \E o \in Objects : pointed[o] = f THEN data[f] ELSE ZeroWord
    BY DEF Reaching
  <2>3. Reaching(pointed) = [f \in Objects |-> Reaching(pointed)[f]]
    BY DEF Reaching
  <2>4. \A f \in Objects : Fit(Reaching(pointed)[f])
    BY <2>1, <2>2
  <2> QED
    BY <1>2, <2>3, <2>4
<1>4. ASSUME NEW o \in Objects, NEW w, Fit(w), Writes(o, w)
      PROVE  Typed'
  <2>1. data' = [data EXCEPT ![held[o]] = w] /\ held' = held /\ assigned' = assigned
        /\ held[o] \in Objects
    BY <1>1, <1>4 DEF Writes
  <2>2. data' \in [Objects -> Words]
    BY <1>1, <1>2, <1>4, <2>1
  <2>3. \A f \in Objects : Fit(data'[f])
    BY <1>1, <1>4, <2>1
  <2> QED
    BY <1>1, <2>1, <2>2, <2>3 DEF Typed
<1>5. ASSUME NEW o \in Objects, NEW w, Fit(w), Fresh(o, w)
      PROVE  Typed'
  <2>1. PICK f \in Objects :
          /\ held' = [held EXCEPT ![o] = f]
          /\ data' = [Reaching(held') EXCEPT ![f] = w]
          /\ assigned' = [p \in Objects |-> IF p = o THEN {o} ELSE assigned[p] \ {o}]
    BY <1>5 DEF Fresh
  <2> DEFINE r == Reaching(held')
  <2>2. r \in [Objects -> Words] /\ \A g \in Objects : Fit(r[g])
    BY <1>3
  <2>3. data' = [r EXCEPT ![f] = w]
    BY <2>1
  <2> HIDE DEF r
  <2>4. data' \in [Objects -> Words] /\ \A g \in Objects : Fit(data'[g])
    BY <1>2, <1>5, <2>2, <2>3
  <2>5. held' \in [Objects -> Objects]
    BY <1>1, <2>1
  <2>6. assigned' \in [Objects -> SUBSET Objects]
    BY <1>1, <2>1
  <2> QED
    BY <2>4, <2>5, <2>6 DEF Typed
<1>6. ASSUME NEW o \in Objects, NEW p \in Objects, Assign(o, p)
      PROVE  Typed'
  <2>1. data' \in [Objects -> Words] /\ \A g \in Objects : Fit(data'[g])
    BY <1>3, <1>6 DEF Assign
  <2>2. held' \in [Objects -> Objects]
    BY <1>1, <1>6 DEF Assign
  <2>3. assigned' \in [Objects -> SUBSET Objects]
    BY <1>1, <1>6 DEF Assign
  <2> QED
    BY <2>1, <2>2, <2>3 DEF Typed
<1>7. CASE UNCHANGED vars
  BY <1>7 DEF Typed, vars
<1> QED
  BY <1>4, <1>5, <1>6, <1>7, CallsFit

LEMMA TypedIsTypeOK == Typed => TypeOK
BY FitParts DEF Typed, TypeOK

-----------------------------------------------------------------------------
(***************************************************************************)
(* The integers are sorted like the values: the coarsest field that        *)
(* differs decides, and before the start the fields below the year are     *)
(* packed the other way round.                                             *)
(***************************************************************************)
\* Where a value earlier in the same year first differs.
LEMMA EarlierFraction ==
  ASSUME NEW w, Sound(w), NEW v, Sound(v), FractionOfYear(w) < FractionOfYear(v)
  PROVE  \E k \in Ids : /\ k # 1
                        /\ w.field[k] < v.field[k]
                        /\ \A j \in 1 .. k - 1 : j # 1 => w.field[j] = v.field[j]
<1>1. Worth(w.field, ScalePlace)[2] < Worth(v.field, ScalePlace)[2]
  <2>1. FractionOfYear(w) = Worth(w.field, ScalePlace)[2]
    BY FractionIs
  <2>2. FractionOfYear(v) = Worth(v.field, ScalePlace)[2]
    BY FractionIs
  <2> QED
    BY <2>1, <2>2
<1>2. Digits(w.field, Radices) /\ Digits(v.field, Radices)
  BY FractionIs
<1>3. Radix(Radices, ScalePlace, 2)
  BY ScalesAreRadix
<1>4. PICK k \in 2 .. Finest : /\ w.field[k] < v.field[k]
                               /\ \A j \in 2 .. k - 1 : w.field[j] = v.field[j]
  BY <1>1, <1>2, <1>3, FirstDifference
<1>5. k \in Ids /\ k # 1
  BY FormatFacts
<1>6. \A j \in 1 .. k - 1 : j # 1 => w.field[j] = v.field[j]
  BY <1>4
<1> QED
  BY <1>4, <1>5, <1>6

\* What is stored of words on the same side of the start.
LEMMA StoredSame ==
  ASSUME NEW w, Sound(w), NEW v, Sound(v), w.ba = v.ba, NEW i \in Ids
  PROVE  /\ w.field[i] = v.field[i] => Stored(w)[i] = Stored(v)[i]
         /\ w.field[i] < v.field[i] =>
              IF w.ba = 1 \/ i = 1 THEN Stored(w)[i] < Stored(v)[i]
              ELSE Stored(v)[i] < Stored(w)[i]
<1>1. MaxValue(i) \in Nat /\ w.field[i] \in Nat /\ v.field[i] \in Nat
  BY FormatFacts DEF Sound
<1>2. Stored(w)[i] = IF w.ba = 1 \/ i = 1 THEN w.field[i] ELSE MaxValue(i) - w.field[i]
  BY StoredIsDigits DEF Reversed
<1>3. Stored(v)[i] = IF v.ba = 1 \/ i = 1 THEN v.field[i] ELSE MaxValue(i) - v.field[i]
  BY StoredIsDigits DEF Reversed
<1> QED
  BY <1>1, <1>2, <1>3

\* Of two values the earlier is packed into the smaller integer.
LEMMA EncodeSorts ==
  ASSUME NEW w, Sound(w), ~NoSuchYear(w), NEW v, Sound(v), ~NoSuchYear(v), Earlier(w, v)
  PROVE  Encode(w) < Encode(v)
<1>1. /\ w.ba \in 0 .. 1 /\ v.ba \in 0 .. 1
      /\ 1 \in Ids
      /\ \A i \in Ids : w.field[i] \in Nat /\ v.field[i] \in Nat
  <2>1. w \in Words /\ v \in Words
    BY DEF Sound
  <2>2. w.ba \in 0 .. 1 /\ v.ba \in 0 .. 1
    BY <2>1, WordParts
  <2>3. \A i \in Ids : w.field[i] \in Nat /\ v.field[i] \in Nat
    BY FormatFacts, SMTT(30) DEF Sound
  <2> QED
    BY <2>2, <2>3, FormatFacts
<1>2. /\ Index(w) \in Nat /\ Index(w) > 0
      /\ Encode(w) = IF w.ba = 0 THEN -Index(w) ELSE Index(w)
  BY IndexFacts, EncodeIs
<1>3. /\ Index(v) \in Nat /\ Index(v) > 0
      /\ Encode(v) = IF v.ba = 0 THEN -Index(v) ELSE Index(v)
  BY IndexFacts, EncodeIs
<1>4. /\ w.ba = 1 => w.field[1] > 0
      /\ v.ba = 1 => v.field[1] > 0
  BY <1>1 DEF NoSuchYear
<1>5. \/ SignedYear(w) < SignedYear(v)
      \/ SignedYear(w) = SignedYear(v) /\ w.ba = v.ba /\ FractionOfYear(w) < FractionOfYear(v)
  BY DEF Earlier
<1>6. CASE w.ba = 0 /\ v.ba = 1
  BY <1>2, <1>3, <1>6
<1>7. CASE w.ba = 1 /\ v.ba = 0
  BY <1>1, <1>4, <1>5, <1>7 DEF SignedYear
<1>8. CASE w.ba = 1 /\ v.ba = 1
  <2>1. Index(w) < Index(v)
    <3>1. CASE SignedYear(w) < SignedYear(v)
      <4>1. w.field[1] < v.field[1]
        BY <1>8, <3>1 DEF SignedYear
      <4>2. Stored(w)[1] < Stored(v)[1]
        BY <1>1, <1>8, <4>1, StoredSame
      <4>3. \A j \in 1 .. 1 - 1 : Stored(w)[j] = Stored(v)[j]
        OBVIOUS
      <4> QED
        BY <1>1, <4>2, <4>3, EncodeOrders
    <3>2. CASE SignedYear(w) = SignedYear(v) /\ FractionOfYear(w) < FractionOfYear(v)
      <4>1. w.field[1] = v.field[1]
        BY <1>8, <3>2 DEF SignedYear
      <4>2. PICK k \in Ids : /\ k # 1
                             /\ w.field[k] < v.field[k]
                             /\ \A j \in 1 .. k - 1 : j # 1 => w.field[j] = v.field[j]
        BY <3>2, EarlierFraction
      <4>3. Stored(w)[k] < Stored(v)[k]
        BY <1>8, <4>2, StoredSame
      <4>4. ASSUME NEW j \in 1 .. k - 1 PROVE Stored(w)[j] = Stored(v)[j]
        <5>1. j \in Ids /\ w.field[j] = v.field[j]
          BY <4>1, <4>2, FormatFacts
        <5> QED
          BY <1>8, <5>1, StoredSame
      <4> QED
        BY <4>3, <4>4, EncodeOrders
    <3> QED
      BY <1>5, <3>1, <3>2
  <2> QED
    BY <1>2, <1>3, <1>8, <2>1
<1>9. CASE w.ba = 0 /\ v.ba = 0
  <2>1. Index(v) < Index(w)
    <3>1. CASE SignedYear(w) < SignedYear(v)
      <4>1. v.field[1] < w.field[1]
        BY <1>1, <1>9, <3>1 DEF SignedYear
      <4>2. Stored(v)[1] < Stored(w)[1]
        BY <1>1, <1>9, <4>1, StoredSame
      <4>3. \A j \in 1 .. 1 - 1 : Stored(v)[j] = Stored(w)[j]
        OBVIOUS
      <4> QED
        BY <1>1, <4>2, <4>3, EncodeOrders
    <3>2. CASE SignedYear(w) = SignedYear(v) /\ FractionOfYear(w) < FractionOfYear(v)
      <4>1. w.field[1] = v.field[1]
        BY <1>1, <1>9, <3>2 DEF SignedYear
      <4>2. PICK k \in Ids : /\ k # 1
                             /\ w.field[k] < v.field[k]
                             /\ \A j \in 1 .. k - 1 : j # 1 => w.field[j] = v.field[j]
        BY <3>2, EarlierFraction
      <4>3. Stored(v)[k] < Stored(w)[k]
        BY <1>9, <4>2, StoredSame
      <4>4. ASSUME NEW j \in 1 .. k - 1 PROVE Stored(v)[j] = Stored(w)[j]
        <5>1. j \in Ids /\ w.field[j] = v.field[j]
          BY <4>1, <4>2, FormatFacts
        <5> QED
          BY <1>9, <5>1, StoredSame
      <4> QED
        BY <4>3, <4>4, EncodeOrders
    <3> QED
      BY <1>5, <3>1, <3>2
  <2> QED
    BY <1>2, <1>3, <1>9, <2>1
<1> QED
  BY <1>1, <1>6, <1>7, <1>8, <1>9

\* Words in range convert faithfully, and Canonical words that fit are in range.
LEMMA TypedConversions == Typed => ConversionsAreFaithful
<1> SUFFICES ASSUME Typed, NEW o \in Objects, NEW p \in Objects,
                    Canonical(Value(o)), Canonical(Value(p))
             PROVE  LET w == Value(o)
                        v == Value(p)
                    IN  /\ Decode(Encode(w)) = w
                        /\ Earlier(w, v) => Encode(w) < Encode(v)
                        /\ FractionOfYear(w) < Scale(1) =>
                             FromMilliseconds(w, Milliseconds(w)) = w
  BY DEF ConversionsAreFaithful
<1> DEFINE w == Value(o)
           v == Value(p)
<1>1. Fit(w) /\ Fit(v) /\ Canonical(w) /\ Canonical(v)
  BY DEF Typed, Value
<1> HIDE DEF w, v
<1>2. Sound(w) /\ ~NoSuchYear(w)
  BY <1>1 DEF Sound, Fit, Canonical
<1>3. Sound(v) /\ ~NoSuchYear(v)
  BY <1>1 DEF Sound, Fit, Canonical
<1>4. Decode(Encode(w)) = w
  BY <1>2, DecodeOfEncode
<1>5. Earlier(w, v) => Encode(w) < Encode(v)
  BY <1>2, <1>3, EncodeSorts
<1>6. FractionOfYear(w) < Scale(1) => FromMilliseconds(w, Milliseconds(w)) = w
  BY <1>2, MillisecondsRoundTrip
<1> QED
  BY <1>4, <1>5, <1>6 DEF w, v

-----------------------------------------------------------------------------
\* In every reachable state every object points to fields, and every set of
\* fields holds a word of type 1 whose fields are between 0 and one beyond their
\* maximum, whatever was set, carried, converted, added or assigned.
THEOREM TypedAlways == Spec => []Typed
<1>1. Typed /\ [Next]_vars => Typed'
  BY TypedStep DEF Typed, vars
<1> QED
  BY <1>1, InitTyped, PTL DEF Spec

\* From values in range, incrementAtId and decrementAtId add or take exactly
\* what they are asked to, over however many fields the carry runs, and throw
\* when the result has no representation and only then, for every calendar.
THEOREM CarriesAddAlways == Spec => []CarriesAdd
BY TypedAlways, TypedCarriesAdd, PTL

\* Fields never go below 0 or further than 1 beyond their maximum, and whatever
\* made them, values in range survive scidbTemporalIndex and milliseconds and
\* back, and their integers sort by time, across the start, for every calendar.
THEOREM WordsAreSoundAlways == Spec => []WordsAreSound
<1>1. Typed => WordsAreSound
  BY TypedIsTypeOK, TypedConversions DEF WordsAreSound
<1> QED
  BY <1>1, TypedAlways, PTL

-----------------------------------------------------------------------------
(***************************************************************************)
(* Who points to what, and the groups of objects assigned to each other.   *)
(***************************************************************************)
Pointers ==
  /\ held \in [Objects -> Objects]
  /\ data = [f \in Objects |-> data[f]]

Grouped(groups) ==
  /\ groups \in [Objects -> SUBSET Objects]
  /\ \A o \in Objects : o \in groups[o]
  /\ \A o, p \in Objects : p \in groups[o] => groups[p] = groups[o]

Sharing == \A o, p \in Objects : held[o] = held[p] => p \in assigned[o]

IInv == Pointers /\ Grouped(assigned) /\ Sharing

LEMMA InitIInv == Init => IInv
BY DEF Init, IInv, Pointers, Grouped, Sharing

-----------------------------------------------------------------------------
(***************************************************************************)
(* Groups.  An object leaves its group, and may join another.              *)
(***************************************************************************)
LEMMA LeavingKeepsGroups ==
  ASSUME NEW groups, Grouped(groups), NEW o \in Objects
  PROVE  Grouped([p \in Objects |-> IF p = o THEN {o} ELSE groups[p] \ {o}])
BY DEF Grouped

LEMMA JoiningKeepsGroups ==
  ASSUME NEW groups, Grouped(groups), NEW o \in Objects, NEW p \in Objects
  PROVE  Grouped([q \in Objects |-> IF q \in groups[p] \cup {o}
                                    THEN groups[p] \cup {o}
                                    ELSE groups[q] \ {o}])
<1> DEFINE group  == groups[p] \cup {o}
           joined == [q \in Objects |-> IF q \in group THEN group ELSE groups[q] \ {o}]
<1>1. joined \in [Objects -> SUBSET Objects]
  BY DEF Grouped
<1>2. \A q \in Objects : q \in joined[q]
  BY DEF Grouped
<1>3. ASSUME NEW q \in Objects, NEW r \in Objects, r \in joined[q]
      PROVE  joined[r] = joined[q]
  <2>1. CASE q \in group
    BY <1>3, <2>1
  <2>2. CASE q \notin group
    <3>1. r \in groups[q] /\ r # o
      BY <1>3, <2>2
    <3>2. groups[r] = groups[q]
      BY <3>1 DEF Grouped
    <3>3. r \notin groups[p]
      BY <2>2, <3>1, <3>2 DEF Grouped
    <3> QED
      BY <2>2, <3>1, <3>2, <3>3
  <2> QED
    BY <2>1, <2>2
<1> QED
  BY <1>1, <1>2, <1>3 DEF Grouped

-----------------------------------------------------------------------------
(***************************************************************************)
(* Objects that do not take part keep their value.                         *)
(***************************************************************************)
LEMMA OthersKeepTheirs ==
  ASSUME Pointers, NEW o \in Objects, NEW f \in Objects, NEW p \in Objects, p # o,
         held' = [held EXCEPT ![o] = f]
  PROVE  held'[p] = held[p] /\ Reaching(held')[held[p]] = data[held[p]]
<1>1. held'[p] = held[p] /\ held[p] \in Objects
  BY DEF Pointers
<1> QED
  BY <1>1 DEF Reaching

\* A call on o changes only what shares its fields.
LEMMA WritesStep ==
  ASSUME IInv, NEW o \in Objects, NEW w, Writes(o, w)
  PROVE  /\ IInv'
         /\ \A p \in Objects : Value(p)' # Value(p) => held[p] = held[o]
         /\ assigned' = assigned
<1>1. held[o] \in Objects /\ held' = held /\ assigned' = assigned
      /\ data' = [data EXCEPT ![held[o]] = w]
  BY DEF IInv, Pointers, Writes
<1>2. data' = [f \in Objects |-> data'[f]]
  BY <1>1 DEF IInv, Pointers
<1>3. \A p \in Objects : Value(p)' # Value(p) => held[p] = held[o]
  BY <1>1 DEF IInv, Pointers, Value
<1> QED
  BY <1>1, <1>2, <1>3 DEF IInv, Pointers, Sharing

\* Fields of its own for o change o alone.
LEMMA FreshStep ==
  ASSUME IInv, NEW o \in Objects, NEW w, Fresh(o, w)
  PROVE  /\ IInv'
         /\ \A p \in Objects : Value(p)' # Value(p) => p = o
<1>1. PICK f \in Objects \ {held[p] : p \in Objects \ {o}} :
        /\ held' = [held EXCEPT ![o] = f]
        /\ data' = [Reaching(held') EXCEPT ![f] = w]
        /\ assigned' = [p \in Objects |-> IF p = o THEN {o} ELSE assigned[p] \ {o}]
  BY DEF Fresh
<1>2. \A p \in Objects : p # o => held'[p] = held[p] /\ held[p] # f
  BY <1>1 DEF IInv, Pointers
<1>3. Pointers'
  BY <1>1 DEF IInv, Pointers, Reaching
<1>4. Grouped(assigned')
  BY <1>1, LeavingKeepsGroups DEF IInv
<1>5. Sharing'
  BY <1>1, <1>2 DEF IInv, Pointers, Sharing
<1>6. ASSUME NEW p \in Objects, p # o
      PROVE  Value(p)' = Value(p)
  <2>1. held[p] \in Objects /\ Reaching(held')[held[p]] = data[held[p]]
    BY <1>1, <1>6, OthersKeepTheirs DEF IInv, Pointers
  <2>2. data'[held[p]] = Reaching(held')[held[p]]
    BY <1>1, <1>2, <1>6, <2>1 DEF Reaching
  <2> QED
    BY <1>2, <1>6, <2>1, <2>2 DEF Value
<1> QED
  BY <1>3, <1>4, <1>5, <1>6 DEF IInv

\* An assignment to o changes o alone, and o joins the group.
LEMMA AssignStep ==
  ASSUME IInv, NEW o \in Objects, NEW p \in Objects, Assign(o, p)
  PROVE  /\ IInv'
         /\ \A q \in Objects : Value(q)' # Value(q) => q = o
<1>1. /\ held[p] \in Objects
      /\ held' = [held EXCEPT ![o] = held[p]]
      /\ data' = Reaching(held')
      /\ assigned' = [q \in Objects |-> IF q \in assigned[p] \cup {o}
                                        THEN assigned[p] \cup {o}
                                        ELSE assigned[q] \ {o}]
  BY DEF Assign, IInv, Pointers
<1>2. held'[o] = held[p] /\ \A q \in Objects : q # o => held'[q] = held[q]
  BY <1>1 DEF IInv, Pointers
<1>3. Pointers'
  BY <1>1 DEF IInv, Pointers, Reaching
<1>4. Grouped(assigned')
  BY <1>1, JoiningKeepsGroups DEF IInv
<1>5. Sharing'
  <2> SUFFICES ASSUME NEW q \in Objects, NEW r \in Objects, held'[q] = held'[r]
               PROVE  r \in assigned'[q]
    BY DEF Sharing
  <2> DEFINE group == assigned[p] \cup {o}
  <2>1. CASE q = o
    <3>1. r \in group
      BY <1>2, <2>1 DEF IInv, Sharing
    <3> QED
      BY <1>1, <2>1, <3>1
  <2>2. CASE r = o /\ q # o
    <3>1. q \in group
      BY <1>2, <2>2 DEF IInv, Sharing
    <3> QED
      BY <1>1, <2>2, <3>1
  <2>3. CASE q # o /\ r # o
    <3>1. r \in assigned[q] /\ assigned[r] = assigned[q]
      BY <1>2, <2>3 DEF IInv, Sharing, Grouped
    <3>2. q \in assigned[p] => r \in assigned[p]
      BY <3>1 DEF IInv, Grouped
    <3> QED
      BY <1>1, <2>3, <3>1, <3>2
  <2> QED
    BY <2>1, <2>2, <2>3
<1>6. ASSUME NEW q \in Objects, q # o
      PROVE  Value(q)' = Value(q)
  BY <1>1, <1>2, <1>6, OthersKeepTheirs DEF IInv, Pointers, Value
<1> QED
  BY <1>3, <1>4, <1>5, <1>6 DEF IInv

LEMMA StutterKeepsIInv ==
  ASSUME IInv, UNCHANGED vars
  PROVE  IInv'
BY DEF IInv, Pointers, Sharing, vars

LEMMA NextIInv == Typed /\ IInv /\ [Next]_vars => IInv'
<1> SUFFICES ASSUME Typed, IInv, [Next]_vars PROVE IInv'
  OBVIOUS
<1>1. CASE Next
  BY <1>1, CallsFit, WritesStep, FreshStep, AssignStep, StutterKeepsIInv
<1>2. CASE UNCHANGED vars
  BY <1>2, StutterKeepsIInv
<1> QED
  BY <1>1, <1>2

-----------------------------------------------------------------------------
\* In every reachable state objects with the same fields were assigned to each
\* other, and being assigned to each other partitions the objects.
THEOREM SharingIsByAssignment == Spec => []IInv
<1>1. Init => IInv
  BY InitIInv
<1>2. Typed /\ IInv /\ [Next]_vars => IInv'
  BY NextIInv
<1> QED
  BY <1>1, <1>2, TypedAlways, PTL DEF Spec

LEMMA StepChangesTogether ==
  ASSUME Typed, IInv, Next, NEW o \in Objects, NEW p \in Objects,
         Value(o)' # Value(o), Value(p)' # Value(p)
  PROVE  p \in assigned'[o]
<1>1. CASE \E q \in Objects : \E w : Writes(q, w)
  <2>1. PICK q \in Objects : \E w : Writes(q, w)
    BY <1>1
  <2>2. held[o] = held[q] /\ held[p] = held[q] /\ assigned' = assigned
    BY <2>1, WritesStep
  <2> QED
    BY <2>2 DEF IInv, Sharing
<1>2. CASE \E q \in Objects : \E w : Fresh(q, w)
  BY <1>2, FreshStep DEF IInv, Grouped
<1>3. CASE \E q, r \in Objects : Assign(q, r)
  BY <1>3, AssignStep DEF IInv, Grouped
<1>4. CASE UNCHANGED vars
  BY <1>4 DEF Value, vars
<1> QED
  BY <1>1, <1>2, <1>3, <1>4, CallsFit

\* A call changes one object and those it was assigned to or from, whatever
\* fields, values and arguments there are; copies made by the constructor and
\* sums never change with their originals.
THEOREM ChangesStayTogetherAlways == Spec => ChangesStayTogether
<1>1. Typed /\ IInv /\ [Next]_vars =>
        [\A o, p \in Objects :
           (Value(o)' # Value(o) /\ Value(p)' # Value(p)) => p \in assigned'[o]]_vars
  BY StepChangesTogether
<1> QED
  BY <1>1, TypedAlways, SharingIsByAssignment, PTL DEF Spec, ChangesStayTogether

-----------------------------------------------------------------------------
(***************************************************************************)
(* What is computed from packed values (TemporalSeries), first of all the  *)
(* resolutions.  Every bit of the time lies in one field, and stands for a *)
(* value that field has; so each resolution is finer than the one before.  *)
(***************************************************************************)
\* The fields lie one below the other.
LEMMA OffsetsDescend ==
  ASSUME NEW i \in Ids, NEW j \in Ids, i < j
  PROVE  Offset[j] + Width(j) <= Offset[i]
<1>1. Finest \in Nat /\ Ids = 1 .. Finest /\ \A k \in Ids : Width(k) \in Nat
  BY FormatFacts
<1>2. \A k \in Ids : Offset[k] \in Nat /\ Offset[k] + Width(k) = Offset[k - 1]
  BY OffsetFacts
<1> DEFINE S == {k \in i + 1 .. Finest : Offset[k] + Width(k) <= Offset[i]}
<1>3. i + 1 \in S
  <2>1. i + 1 \in Ids /\ (i + 1) - 1 = i /\ i + 1 \in i + 1 .. Finest
    BY <1>1
  <2>2. Offset[i + 1] + Width(i + 1) = Offset[i] /\ Offset[i] \in Nat
    BY <1>2, <2>1
  <2> QED
    BY <2>1, <2>2
<1>4. ASSUME NEW k \in i + 1 .. Finest - 1, k \in S PROVE k + 1 \in S
  <2>1. k \in Ids /\ k + 1 \in Ids /\ (k + 1) - 1 = k /\ k + 1 \in i + 1 .. Finest
    BY <1>1
  <2>2. Offset[k + 1] + Width(k + 1) = Offset[k]
    BY <1>2, <2>1
  <2>3. Offset[k] + Width(k) <= Offset[i]
    BY <1>4
  <2>4. Offset[k] \in Nat /\ Width(k) \in Nat /\ Offset[i] \in Nat
    BY <1>1, <1>2, <2>1
  <2>5. Offset[k + 1] + Width(k + 1) <= Offset[i]
    BY <2>2, <2>3, <2>4
  <2> QED
    BY <2>1, <2>5
<1>5. i + 1 \in Int /\ Finest \in Int /\ j \in i + 1 .. Finest
  BY <1>1
<1> HIDE DEF S
<1>6. j \in S
  BY <1>3, <1>4, <1>5, Climbing
<1> QED
  BY <1>6 DEF S

\* Every bit of the time is in one field.
LEMMA FieldOfBit ==
  ASSUME NEW b \in Int, LowBits <= b, b < WordBits
  PROVE  \E i \in Ids : Offset[i] <= b /\ b < Offset[i] + Width(i)
<1>1. Finest \in Nat /\ Finest \in Ids /\ Ids = 1 .. Finest
  BY FormatFacts
<1>2. \A k \in Ids : Offset[k] \in Nat /\ Offset[k] + Width(k) = Offset[k - 1]
  BY OffsetFacts
<1> DEFINE S == {k \in Ids : Offset[k] <= b}
<1>3. S \in SUBSET Nat /\ S # {}
  <2>1. Offset[Finest] = LowBits
    BY OffsetFacts
  <2> QED
    BY <1>1, <2>1
<1>4. PICK m \in S : \A k \in S : m <= k
  BY <1>3, LeastExists
<1>5. m \in Ids /\ Offset[m] <= b
  BY <1>4
<1>6. b < Offset[m - 1]
  <2>1. CASE m = 1
    BY <2>1 DEF WordBits
  <2>2. CASE m # 1
    <3>1. m - 1 \in Ids /\ m - 1 < m
      BY <1>1, <1>5, <2>2
    <3>2. m - 1 \notin S
      <4>1. m \in Int /\ ~(m <= m - 1)
        BY <1>1, <1>5
      <4> HIDE DEF S
      <4> QED
        BY <1>4, <4>1
    <3>3. Offset[m - 1] \in Nat
      BY <1>2, <3>1
    <3> QED
      BY <3>1, <3>2, <3>3
  <2> QED
    BY <2>1, <2>2
<1> QED
  BY <1>2, <1>5, <1>6

\* And in no other.
LEMMA OneFieldOfBit ==
  ASSUME NEW i \in Ids, NEW j \in Ids, NEW b \in Int,
         Offset[i] <= b, b < Offset[i] + Width(i), Offset[j] <= b, b < Offset[j] + Width(j)
  PROVE  i = j
<1>1. i \in Int /\ j \in Int /\ Offset[i] \in Nat /\ Offset[j] \in Nat
      /\ Width(i) \in Nat /\ Width(j) \in Nat
  <2>1. i \in Int /\ j \in Int /\ Width(i) \in Nat /\ Width(j) \in Nat
    BY FormatFacts
  <2>2. Offset[i] \in Nat /\ Offset[j] \in Nat
    BY OffsetFacts
  <2> QED
    BY <2>1, <2>2
<1>2. ~(i < j)
  BY <1>1, OffsetsDescend
<1>3. ~(j < i)
  BY <1>1, OffsetsDescend
<1> QED
  BY <1>1, <1>2, <1>3

\* Every bit of a field stands for a value the field has.
LEMMA BitsAreValues ==
  ASSUME NEW i \in Ids, NEW c \in 0 .. Width(i) - 1
  PROVE  /\ Two[c] \in Nat /\ Two[c] > 0 /\ Two[c] <= MaxValue(i)
         /\ c > 0 => Two[c] = 2 * Two[c - 1]
<1>1. Width(i) \in Nat /\ WordBits \in Nat /\ Width(i) <= WordBits /\ MaxValue(i) \in Nat
  <2>1. Width(i) \in Nat /\ MaxValue(i) \in Nat
    BY FormatFacts
  <2>2. Offset[i] \in Nat /\ Offset[i] + Width(i) <= WordBits /\ WordBits \in Nat
    BY OffsetFacts
  <2> QED
    BY <2>1, <2>2
<1> DEFINE top == Width(i) - 1
           d == top - c
<1>2. c \in Nat /\ d \in Nat /\ c + d = top /\ top \in 0 .. WordBits - 1 /\ top + 1 = Width(i)
      /\ c \in 0 .. WordBits /\ d \in 0 .. WordBits /\ c + d <= WordBits
  BY <1>1
<1>3. Two[top + 1] = 2 * Two[top] /\ Two[Width(i)] <= 2 * MaxValue(i)
  BY <1>2, TwoFacts, TemporalSeriesAssumption
<1>4. Two[c + d] = Two[c] * Two[d]
  BY <1>2, TwoProduct
<1>5. Two[c] \in Nat /\ Two[c] > 0 /\ Two[d] \in Nat /\ Two[d] > 0
  BY <1>2, TwoFacts
<1>6. \A x, y \in Nat : y > 0 => x <= x * y
  <2> SUFFICES ASSUME NEW x \in Nat, NEW y \in Nat, y > 0 PROVE x <= x * y
    OBVIOUS
  <2>1. x * (y - 1) >= 0 /\ x * (y - 1) = x * y - x
    OBVIOUS
  <2> QED
    BY <2>1
<1>7. Two[c] <= Two[top]
  BY <1>2, <1>4, <1>5, <1>6
<1>8. Two[top] <= MaxValue(i)
  <2>1. Two[Width(i)] = 2 * Two[top] /\ Two[top] \in Nat
    BY <1>2, <1>3, TwoFacts
  <2> QED
    BY <1>1, <1>3, <2>1
<1>9. ASSUME c > 0 PROVE Two[c] = 2 * Two[c - 1]
  <2>1. c - 1 \in 0 .. WordBits - 1 /\ (c - 1) + 1 = c
    BY <1>1, <1>2, <1>9
  <2>2. Two[(c - 1) + 1] = 2 * Two[c - 1]
    BY <2>1, TwoFacts
  <2> QED
    BY <2>1, <2>2
<1>10. Two[top] \in Nat
  BY <1>2, TwoFacts
<1> QED
  BY <1>1, <1>5, <1>7, <1>8, <1>9, <1>10

\* The smaller of two numbers, and the greater.
LEMMA LeastOfTwo ==
  ASSUME NEW a \in Int, NEW b \in Int, a <= b
  PROVE  Min({a, b}) = a /\ Min({b, a}) = a
<1>1. \A x : (x \in {a, b} /\ \A y \in {a, b} : x <= y) <=> x = a
  OBVIOUS
<1>2. {b, a} = {a, b}
  OBVIOUS
<1>3. Min({a, b}) = CHOOSE x : x = a
  BY <1>1 DEF Min
<1> QED
  BY <1>2, <1>3

LEMMA GreatestOfTwo ==
  ASSUME NEW a \in Int, NEW b \in Int, a <= b
  PROVE  Max({a, b}) = b /\ Max({b, a}) = b
<1>1. \A x : (x \in {a, b} /\ \A y \in {a, b} : x >= y) <=> x = b
  OBVIOUS
<1>2. {b, a} = {a, b}
  OBVIOUS
<1>3. Max({a, b}) = CHOOSE x : x = b
  BY <1>1 DEF Max
<1> QED
  BY <1>2, <1>3

\* The finest resolution is the lowest bit of the finest field.
LEMMA ResolutionFacts ==
  /\ MaxResolution \in Nat /\ MaxResolution = WordBits - LowBits - 1
  /\ ResolutionMask \in Nat /\ MaxResolution + 1 <= ResolutionMask
  /\ WordBits \in Nat /\ LowBits \in Nat
<1>1. Finest \in Ids /\ \A i \in Ids : Width(i) \in Nat
  BY FormatFacts
<1>2. Offset[Finest] = LowBits /\ Offset[Finest] + Width(Finest) <= WordBits
      /\ WordBits \in Nat /\ LowBits \in Nat
  BY <1>1, OffsetFacts
<1>3. Width(Finest) > 0
  <2>1. 0 < MaxValue(Finest) /\ MaxValue(Finest) < Two[Width(Finest)] /\ Two[0] = 1
        /\ MaxValue(Finest) \in Nat
    BY <1>1, TemporalFormatAssumption, TwoFacts, FormatFacts
  <2>2. Width(Finest) # 0
    BY <2>1
  <2> QED
    BY <1>1, <2>2
<1>4. MaxResolution = WordBits - LowBits - 1
  BY <1>2 DEF MaxResolution, Finest
<1>5. MaxResolution < ResolutionMask /\ ResolutionMask \in Nat
  BY TemporalSeriesAssumption, MaskIsNat
<1> QED
  BY <1>1, <1>2, <1>3, <1>4, <1>5

\* What a resolution stands for: one bit of the field it lies in.
LEMMA MillisecondsAtBit ==
  ASSUME NEW r \in 0 .. MaxResolution, NEW i \in Ids, NEW c \in 0 .. Width(i) - 1,
         WordBits - 1 - r = Offset[i] + c
  PROVE  MillisecondsAt[r] = Two[c] * Scale(i)
<1> DEFINE bit == BitOfResolution(r)
           holding == {k \in Ids : Offset[k] <= bit /\ bit < Offset[k] + Width(k)}
           At(k) == Min({Two[bit - Offset[k]], MaxValue(k)}) * Scale(k)
<1>1. Offset[i] \in Nat /\ Width(i) \in Nat /\ MaxValue(i) \in Nat /\ Scale(i) \in Nat
  BY OffsetFacts, FormatFacts
<1>2. bit = Offset[i] + c /\ bit - Offset[i] = c /\ bit \in Int
      /\ Offset[i] <= bit /\ bit < Offset[i] + Width(i)
  BY <1>1 DEF BitOfResolution
<1>3. r \in 0 .. ResolutionMask
  BY ResolutionFacts
<1>4. MillisecondsAt[r] = Max({0} \cup {At(k) : k \in holding})
  BY <1>3 DEF MillisecondsAt
<1> HIDE DEF bit
<1>5. holding = {i}
  BY <1>2, OneFieldOfBit
<1>6. Two[c] \in Nat /\ Two[c] <= MaxValue(i)
  BY BitsAreValues
<1>7. At(i) = Two[c] * Scale(i)
  BY <1>1, <1>2, <1>6, LeastOfTwo
<1>8. Two[c] * Scale(i) \in Nat
  BY <1>1, <1>6
<1> HIDE DEF holding, At
<1>9. {0} \cup {At(k) : k \in holding} = {0, Two[c] * Scale(i)}
  BY <1>5, <1>7
<1>10. Max({0, Two[c] * Scale(i)}) = Two[c] * Scale(i)
  <2> DEFINE v == Two[c] * Scale(i)
  <2>1. v \in Int /\ 0 <= v /\ 0 \in Int
    BY <1>8
  <2> HIDE DEF v
  <2>2. Max({0, v}) = v
    BY <2>1, GreatestOfTwo
  <2> QED
    BY <2>2 DEF v
<1> QED
  BY <1>4, <1>9, <1>10

\* Every bit of the time is a resolution.
LEMMA BitOfField ==
  ASSUME NEW r \in 0 .. MaxResolution
  PROVE  \E i \in Ids : \E c \in 0 .. Width(i) - 1 : WordBits - 1 - r = Offset[i] + c
<1>1. /\ WordBits - 1 - r \in Int /\ LowBits <= WordBits - 1 - r /\ WordBits - 1 - r < WordBits
  BY ResolutionFacts
<1>2. PICK i \in Ids : /\ Offset[i] <= WordBits - 1 - r
                       /\ WordBits - 1 - r < Offset[i] + Width(i)
  BY <1>1, FieldOfBit
<1>3. Offset[i] \in Nat /\ Width(i) \in Nat
  BY OffsetFacts, FormatFacts
<1>4. (WordBits - 1 - r) - Offset[i] \in 0 .. Width(i) - 1
  BY <1>1, <1>2, <1>3
<1> QED
  BY <1>1, <1>3, <1>4

\* Each resolution is finer than the one before; the finest is a millisecond.
LEMMA ResolutionsDescend ==
  /\ MillisecondsAt[MaxResolution] = 1
  /\ MillisecondsAt[MaxResolution + 1] = 0
  /\ \A r \in 0 .. MaxResolution + 1 : MillisecondsAt[r] \in Nat
  /\ \A r \in 0 .. MaxResolution : MillisecondsAt[r + 1] < MillisecondsAt[r]
<1>1. /\ Finest \in Nat /\ Finest > 1 /\ Ids = 1 .. Finest /\ Finest \in Ids
      /\ \A i \in Ids : Width(i) \in Nat /\ Scale(i) \in Nat /\ MaxValue(i) \in Nat
  BY FormatFacts
<1>2. \A i \in Ids : Scale(i) > 0
  BY ScalesAreRadix DEF Radix
<1>3. MillisecondsAt[MaxResolution] = 1
  <2>1. Offset[Finest] = LowBits
    BY OffsetFacts
  <2>2. PICK i \in Ids : \E c \in 0 .. Width(i) - 1 :
          WordBits - 1 - MaxResolution = Offset[i] + c
    <3>1. MaxResolution \in 0 .. MaxResolution
      BY ResolutionFacts
    <3> QED
      BY <3>1, BitOfField
  <2>3. PICK c \in 0 .. Width(i) - 1 : WordBits - 1 - MaxResolution = Offset[i] + c
    BY <2>2
  <2>4. Offset[i] >= LowBits /\ Offset[i] \in Nat
    BY OffsetAboveLow, OffsetFacts
  <2>5. Offset[i] + c = LowBits /\ LowBits \in Nat
    BY <2>3, ResolutionFacts
  <2>6. c = 0 /\ Offset[i] = LowBits
    BY <2>4, <2>5
  <2>7. i = Finest
    <3>1. Offset[i] <= LowBits /\ LowBits < Offset[i] + Width(i) /\ LowBits \in Int
      BY <1>1, <2>5, <2>6
    <3>2. i < Finest => FALSE
      <4>1. i < Finest => Offset[Finest] + Width(Finest) <= Offset[i]
        BY <1>1, OffsetsDescend
      <4>2. Width(Finest) > 0
        <5>1. 0 < MaxValue(Finest) /\ MaxValue(Finest) < Two[Width(Finest)] /\ Two[0] = 1
          BY <1>1, TemporalFormatAssumption, TwoFacts
        <5>2. Width(Finest) # 0
          BY <1>1, <5>1
        <5> QED
          BY <1>1, <5>2
      <4> QED
        BY <1>1, <2>1, <2>5, <2>6, <4>1, <4>2
    <3> QED
      BY <1>1, <3>2
  <2>8. MillisecondsAt[MaxResolution] = Two[0] * Scale(Finest)
    BY <2>3, <2>6, <2>7, MillisecondsAtBit, ResolutionFacts
  <2>9. Two[0] = 1 /\ Scale(Finest) = 1
    BY TwoFacts, TemporalFormatAssumption DEF Finest
  <2> QED
    BY <2>8, <2>9
<1>4. MillisecondsAt[MaxResolution + 1] = 0
  <2> DEFINE bit == BitOfResolution(MaxResolution + 1)
             holding == {k \in Ids : Offset[k] <= bit /\ bit < Offset[k] + Width(k)}
             At(k) == Min({Two[bit - Offset[k]], MaxValue(k)}) * Scale(k)
  <2>1. MaxResolution + 1 \in 0 .. ResolutionMask
    BY ResolutionFacts
  <2>2. MillisecondsAt[MaxResolution + 1] = Max({0} \cup {At(k) : k \in holding})
    BY <2>1 DEF MillisecondsAt
  <2>3. bit = LowBits - 1 /\ LowBits \in Nat
    BY ResolutionFacts DEF BitOfResolution
  <2> HIDE DEF bit, At
  <2>4. holding = {}
    BY <2>3, OffsetAboveLow, OffsetFacts
  <2> HIDE DEF holding
  <2>5. {0} \cup {At(k) : k \in holding} = {0, 0}
    BY <2>4
  <2>6. Max({0, 0}) = 0
    BY GreatestOfTwo
  <2> QED
    BY <2>2, <2>5, <2>6
<1>5. \A r \in 0 .. MaxResolution + 1 : MillisecondsAt[r] \in Nat
  <2> TAKE r \in 0 .. MaxResolution + 1
  <2>1. CASE r = MaxResolution + 1
    BY <1>4, <2>1
  <2>2. CASE r # MaxResolution + 1
    <3>1. r \in 0 .. MaxResolution
      BY <2>2, ResolutionFacts
    <3>2. PICK i \in Ids : \E c \in 0 .. Width(i) - 1 : WordBits - 1 - r = Offset[i] + c
      BY <3>1, BitOfField
    <3>3. PICK c \in 0 .. Width(i) - 1 : WordBits - 1 - r = Offset[i] + c
      BY <3>2
    <3>4. MillisecondsAt[r] = Two[c] * Scale(i) /\ Two[c] \in Nat /\ Scale(i) \in Nat
      BY <1>1, <3>1, <3>3, MillisecondsAtBit, BitsAreValues
    <3> QED
      BY <3>4
  <2> QED
    BY <2>1, <2>2
<1>6. ASSUME NEW r \in 0 .. MaxResolution PROVE MillisecondsAt[r + 1] < MillisecondsAt[r]
  <2>1. CASE r = MaxResolution
    BY <1>3, <1>4, <2>1
  <2>2. CASE r # MaxResolution
    <3>1. r + 1 \in 0 .. MaxResolution
      BY <2>2, ResolutionFacts
    <3>2. PICK i \in Ids : \E c \in 0 .. Width(i) - 1 : WordBits - 1 - r = Offset[i] + c
      BY BitOfField
    <3>3. PICK c \in 0 .. Width(i) - 1 : WordBits - 1 - r = Offset[i] + c
      BY <3>2
    <3>4. /\ Offset[i] \in Nat /\ Width(i) \in Nat /\ Scale(i) \in Nat /\ Scale(i) > 0
          /\ i \in Int /\ WordBits \in Nat /\ r \in Int /\ LowBits \in Nat
      <4>1. Offset[i] \in Nat
        BY OffsetFacts
      <4>2. Width(i) \in Nat /\ Scale(i) \in Nat /\ Scale(i) > 0 /\ i \in Int
        BY <1>1, <1>2
      <4>3. WordBits \in Nat /\ r \in Int /\ LowBits \in Nat
        BY ResolutionFacts
      <4> QED
        BY <4>1, <4>2, <4>3
    <3>5. MillisecondsAt[r] = Two[c] * Scale(i)
      BY <3>3, MillisecondsAtBit
    <3>6. CASE c > 0
      <4>1. c - 1 \in 0 .. Width(i) - 1 /\ WordBits - 1 - (r + 1) = Offset[i] + (c - 1)
        BY <3>3, <3>4, <3>6
      <4>2. MillisecondsAt[r + 1] = Two[c - 1] * Scale(i)
        BY <3>1, <4>1, MillisecondsAtBit
      <4>3. Two[c] = 2 * Two[c - 1] /\ Two[c - 1] \in Nat /\ Two[c - 1] > 0
        BY <3>6, <4>1, BitsAreValues
      <4>4. \A x, y \in Nat : x > 0 /\ y > 0 => x * y < (2 * x) * y
        <5> SUFFICES ASSUME NEW x \in Nat, NEW y \in Nat, x > 0, y > 0
                     PROVE  x * y < (2 * x) * y
          OBVIOUS
        <5>1. (2 * x) * y = x * y + x * y /\ x * y \in Nat
          OBVIOUS
        <5>2. x * y > 0
          OBVIOUS
        <5> QED
          BY <5>1, <5>2
      <4> QED
        BY <3>4, <3>5, <4>2, <4>3, <4>4
    <3>7. CASE c = 0
      <4>1. i < Finest
        <5>1. WordBits - 1 - r = Offset[i]
          BY <3>3, <3>4, <3>7
        <5>2. Offset[i] # LowBits
          BY <3>1, <3>4, <5>1, ResolutionFacts
        <5>3. i # Finest
          BY <5>2, OffsetFacts
        <5> QED
          BY <1>1, <3>4, <5>3
      <4> DEFINE j == i + 1
      <4>2. j \in Ids /\ j - 1 = i
        BY <1>1, <4>1
      <4>3. Width(j) \in Nat /\ Scale(j) \in Nat /\ Scale(j) > 0 /\ MaxValue(j) \in Nat
            /\ Offset[j] \in Nat
        BY <1>1, <1>2, <4>2, OffsetFacts
      <4>4. Offset[j] + Width(j) = Offset[i]
        BY <4>2, OffsetFacts
      <4>5. Width(j) > 0
        <5>1. 0 < MaxValue(j) /\ MaxValue(j) < Two[Width(j)] /\ Two[0] = 1
          BY <4>2, TemporalFormatAssumption, TwoFacts
        <5>2. Width(j) # 0
          BY <4>3, <5>1
        <5> QED
          BY <4>3, <5>2
      <4> DEFINE top == Width(j) - 1
      <4>6. top \in 0 .. Width(j) - 1 /\ WordBits - 1 - (r + 1) = Offset[j] + top
        BY <3>3, <3>4, <3>7, <4>3, <4>4, <4>5
      <4>7. MillisecondsAt[r + 1] = Two[top] * Scale(j)
        <5> HIDE DEF j, top
        <5> QED
          BY <3>1, <4>2, <4>6, MillisecondsAtBit
      <4>8. Two[top] \in Nat /\ Two[top] <= MaxValue(j)
        <5> HIDE DEF j, top
        <5> QED
          BY <4>2, <4>6, BitsAreValues
      <4>9. MaxValue(j) * Scale(j) < Scale(i)
        <5>1. CASE i = 1
          BY <5>1, TemporalFormatAssumption
        <5>2. CASE i # 1
          <6>1. i \in Ids \ {1, Len(Fields)}
            BY <4>1, <5>2 DEF Finest
          <6>2. Scale(i) = (MaxValue(j) + 1) * Scale(j)
            BY <6>1, TemporalFormatAssumption
          <6>3. \A x, y \in Nat : y > 0 => x * y < (x + 1) * y
            <7> SUFFICES ASSUME NEW x \in Nat, NEW y \in Nat, y > 0 PROVE x * y < (x + 1) * y
              OBVIOUS
            <7>1. (x + 1) * y = x * y + y /\ x * y \in Nat
              OBVIOUS
            <7> QED
              BY <7>1
          <6> HIDE DEF j
          <6> QED
            BY <4>3, <6>2, <6>3
        <5> QED
          BY <5>1, <5>2
      <4> HIDE DEF j, top
      <4>10. \A x, y, z \in Nat : x <= y => x * z <= y * z
        <5> SUFFICES ASSUME NEW x \in Nat, NEW y \in Nat, NEW z \in Nat, x <= y
                     PROVE  x * z <= y * z
          OBVIOUS
        <5>1. (y - x) * z >= 0 /\ (y - x) * z = y * z - x * z
          OBVIOUS
        <5>2. y * z \in Int /\ x * z \in Int
          OBVIOUS
        <5> QED
          BY <5>1, <5>2
      <4>11. Two[top] * Scale(j) <= MaxValue(j) * Scale(j)
        BY <4>3, <4>8, <4>10
      <4>12. MillisecondsAt[r] = Scale(i)
        <5>1. Two[0] = 1
          BY TwoFacts
        <5> QED
          BY <3>4, <3>5, <3>7, <5>1
      <4>13. Two[top] * Scale(j) \in Int /\ MaxValue(j) * Scale(j) \in Int
        BY <4>3, <4>8
      <4> QED
        BY <3>4, <4>7, <4>9, <4>11, <4>12, <4>13
    <3> QED
      BY <3>4, <3>6, <3>7
  <2> QED
    BY <2>1, <2>2
<1> QED
  BY <1>3, <1>4, <1>5, <1>6

\* The resolution for a distance: no wider, and the next coarser one is wider.
LEMMA ResolveFits ==
  ASSUME NEW ms \in Nat
  PROVE  /\ Resolve(ms) \in 0 .. MaxResolution + 1
         /\ MillisecondsAt[Resolve(ms)] <= ms
         /\ Resolve(ms) > 0 => ms < MillisecondsAt[Resolve(ms) - 1]
<1> DEFINE coarse == {r \in 0 .. MaxResolution : MillisecondsAt[r] >= ms}
<1>1. MaxResolution \in Nat
  BY ResolutionFacts
<1>2. \A r \in 0 .. MaxResolution + 1 : MillisecondsAt[r] \in Nat
  BY ResolutionsDescend
<1>3. \A r \in 0 .. MaxResolution : MillisecondsAt[r + 1] < MillisecondsAt[r]
  BY ResolutionsDescend
<1>4. CASE coarse = {}
  <2>1. CoarsestFiner(ms) = -1
    BY <1>4 DEF CoarsestFiner
  <2>2. Resolve(ms) = 0
    BY <2>1 DEF Resolve, MaxOf
  <2>3. 0 \in 0 .. MaxResolution /\ 0 \notin coarse
    BY <1>1, <1>4
  <2>4. MillisecondsAt[0] <= ms
    BY <1>1, <1>2, <2>3
  <2> QED
    BY <1>1, <2>2, <2>4
<1>5. CASE coarse # {}
  <2> DEFINE m == Max(coarse)
             Gaps0 == {MaxResolution - r : r \in coarse}
  <2>1. m \in coarse /\ \A r \in coarse : m >= r
    <3>1. Gaps0 \in SUBSET Nat /\ Gaps0 # {}
      BY <1>1, <1>5
    <3>2. PICK g \in Gaps0 : \A h \in Gaps0 : g <= h
      BY <3>1, LeastExists
    <3>3. PICK r \in coarse : g = MaxResolution - r
      BY <3>2
    <3>4. ASSUME NEW s \in coarse PROVE r >= s
      <4>1. MaxResolution - s \in Gaps0
        OBVIOUS
      <4>2. MaxResolution - r <= MaxResolution - s
        BY <3>2, <3>3, <4>1
      <4> QED
        BY <1>1, <4>2
    <3>5. \E x : x \in coarse /\ \A y \in coarse : x >= y
      BY <3>4
    <3> HIDE DEF coarse
    <3> QED
      BY <3>5 DEF Max
  <2>2. CoarsestFiner(ms) = IF MillisecondsAt[m] > ms THEN m + 1 ELSE m
    BY <1>5 DEF CoarsestFiner
  <2>3. m \in 0 .. MaxResolution /\ MillisecondsAt[m] >= ms
    BY <2>1
  <2>4. m + 1 \notin coarse
    <3> HIDE DEF coarse, m
    <3>1. m \in Int /\ ~(m >= m + 1)
      BY <1>1, <2>3
    <3> QED
      BY <2>1, <3>1
  <2> HIDE DEF m
  <2>5. MillisecondsAt[m + 1] <= ms
    <3>1. CASE m = MaxResolution
      BY <3>1, ResolutionsDescend
    <3>2. CASE m # MaxResolution
      <4>1. m + 1 \in 0 .. MaxResolution /\ m + 1 \in 0 .. MaxResolution + 1
        BY <1>1, <2>3, <3>2
      <4> QED
        BY <1>2, <2>4, <4>1
    <3> QED
      BY <3>1, <3>2
  <2>6. CASE MillisecondsAt[m] > ms
    <3>1. Resolve(ms) = m + 1 /\ (m + 1) - 1 = m
      BY <1>1, <2>2, <2>3, <2>6 DEF Resolve, MaxOf
    <3> QED
      BY <1>1, <2>3, <2>5, <2>6, <3>1
  <2>7. CASE ~(MillisecondsAt[m] > ms)
    <3>1. Resolve(ms) = m
      BY <1>1, <2>2, <2>3, <2>7 DEF Resolve, MaxOf
    <3>2. MillisecondsAt[m] \in Nat /\ MillisecondsAt[m] = ms
      BY <1>1, <1>2, <2>3, <2>7
    <3>3. ASSUME m > 0 PROVE ms < MillisecondsAt[m - 1]
      <4>1. m - 1 \in 0 .. MaxResolution /\ (m - 1) + 1 = m
        BY <1>1, <2>3, <3>3
      <4>2. MillisecondsAt[(m - 1) + 1] < MillisecondsAt[m - 1]
        BY <1>3, <4>1
      <4> QED
        BY <3>2, <4>1, <4>2
    <3> QED
      BY <1>1, <2>3, <3>1, <3>2, <3>3
  <2> QED
    BY <2>6, <2>7
<1> QED
  BY <1>4, <1>5

-----------------------------------------------------------------------------
(***************************************************************************)
(* Words set to a millisecond.  The fields below the year are the digits of*)
(* the rest of the year, so the word is worth what it was set to.          *)
(***************************************************************************)
LEMMA DivisionOf ==
  ASSUME NEW n \in Nat, NEW f \in Nat, f > 0
  PROVE  /\ n \div f \in Nat /\ n % f \in Nat /\ n % f < f
         /\ n = (n \div f) * f + (n % f)
         /\ (n \div f) * f \in Nat
<1> DEFINE q == n \div f
           t == n % f
<1>1. q \in Nat /\ t \in 0 .. f - 1 /\ n = f * q + t
  OBVIOUS
<1> HIDE DEF q, t
<1>2. f * q = q * f /\ q * f \in Nat
  BY <1>1
<1>3. n = q * f + t
  BY <1>1, <1>2
<1> QED
  BY <1>1, <1>2, <1>3 DEF q, t

\* A number is what its digits are worth.
LEMMA DigitsOfNumber ==
  ASSUME NEW r, NEW p, NEW lo, Radix(r, p, lo), p[Finest] = 1,
         NEW n \in Nat, n < r[lo] * p[lo],
         NEW d, \A k \in Ids : d[k] \in Nat,
         \A k \in lo .. Finest : d[k] = (n \div p[k]) % r[k]
  PROVE  Worth(d, p)[lo] = n
<1> DEFINE w == Worth(d, p)
           T == {k \in lo .. Finest : w[k + 1] = n - (n \div p[k]) * p[k]}
<1>1. /\ Finest \in Nat /\ Finest > 1 /\ Ids = 1 .. Finest /\ lo \in 1 .. Finest
      /\ \A k \in Ids : r[k] \in Nat /\ r[k] > 0 /\ p[k] \in Nat /\ p[k] > 0
  BY FormatFacts DEF Radix
<1>2. /\ w[Finest + 1] = 0
      /\ \A k \in Ids : w[k] = d[k] * p[k] + w[k + 1]
      /\ \A k \in 1 .. Finest + 1 : w[k] \in Nat
  <2>1. \A k \in Ids : d[k] \in Nat /\ p[k] \in Nat
    BY <1>1
  <2> QED
    BY <2>1, WorthOf
<1> HIDE DEF w
<1>3. Finest \in T
  <2>1. Finest \in lo .. Finest
    BY <1>1
  <2>2. n \div 1 = n
    OBVIOUS
  <2> QED
    BY <1>1, <1>2, <2>1, <2>2
<1>4. ASSUME NEW k \in lo .. Finest - 1, k + 1 \in T PROVE k \in T
  <2> DEFINE j == k + 1
             q == n \div p[j]
             e == q \div r[j]
             s == q % r[j]
             t == n - q * p[j]
  <2>1. k \in Ids /\ j \in Ids /\ j \in lo .. Finest /\ k \in lo .. Finest /\ k < Finest /\ lo <= k
    BY <1>1
  <2>2. p[k] = r[j] * p[j]
    BY <2>1 DEF Radix
  <2>3. r[j] \in Nat /\ r[j] > 0 /\ p[j] \in Nat /\ p[j] > 0 /\ p[k] \in Nat /\ p[k] > 0
    BY <1>1, <2>1
  <2>4. w[j + 1] = t /\ w[j] = d[j] * p[j] + w[j + 1] /\ d[j] = s
    BY <1>2, <1>4, <2>1
  <2> HIDE DEF j
  <2>5. q \in Nat /\ t \in Nat /\ t < p[j] /\ n = q * p[j] + t
    <3> DEFINE f == p[j]
               z == n % f
    <3>1. q \in Nat /\ z \in Nat /\ z < f /\ n = q * f + z /\ q * f \in Nat
      BY <2>3, DivisionOf
    <3>2. t = n - q * f
      OBVIOUS
    <3> HIDE DEF f, q, t, z
    <3>3. q \in Nat /\ t \in Nat /\ t < f /\ n = q * f + t
      BY <3>1, <3>2
    <3> QED
      BY <3>3 DEF f
  <2> HIDE DEF q
  <2>6. e \in Nat /\ s \in Nat /\ s < r[j] /\ q = e * r[j] + s
    BY <2>3, <2>5, DivisionOf
  <2> HIDE DEF e, s, t
  <2> DEFINE u == s * p[j] + t
  <2>7. u \in Nat /\ u < p[k]
    <3>1. \A a, b, c \in Nat : a < b => a * c \in Nat /\ a * c + c <= b * c
      <4> SUFFICES ASSUME NEW a \in Nat, NEW b \in Nat, NEW c \in Nat, a < b
                   PROVE  a * c \in Nat /\ a * c + c <= b * c
        OBVIOUS
      <4>1. (b - (a + 1)) * c >= 0 /\ (b - (a + 1)) * c = b * c - a * c - c
        OBVIOUS
      <4>2. b * c \in Int /\ a * c \in Nat
        OBVIOUS
      <4> QED
        BY <4>1, <4>2
    <3>2. s * p[j] \in Nat /\ s * p[j] + p[j] <= r[j] * p[j]
      BY <2>3, <2>6, <3>1
    <3> QED
      BY <2>2, <2>3, <2>5, <3>2
  <2>8. n = e * p[k] + u
    <3>1. \A a, b, c, x \in Nat : (a * b + c) * x = a * (b * x) + c * x
      OBVIOUS
    <3>2. q * p[j] = e * (r[j] * p[j]) + s * p[j]
      BY <2>3, <2>6, <3>1
    <3>3. e * (r[j] * p[j]) \in Nat /\ s * p[j] \in Nat
      BY <2>3, <2>6
    <3> QED
      BY <2>2, <2>5, <3>2, <3>3
  <2>9. w[j] = u
    BY <2>4
  <2> HIDE DEF u
  <2>10. n \div p[k] = e
    <3>1. (e * p[k] + u) \div p[k] = e
      <4>1. e \in Int
        BY <2>6
      <4> DEFINE f == p[k]
      <4>2. f \in Nat /\ f > 0 /\ u < f
        BY <2>3, <2>7
      <4> HIDE DEF f
      <4>3. (e * f + u) \div f = e
        BY <2>7, <4>1, <4>2, Quotient
      <4> QED
        BY <4>3 DEF f
    <3> QED
      BY <2>8, <3>1
  <2>11. w[j] = n - (n \div p[k]) * p[k]
    <3>1. e * p[k] \in Nat
      BY <2>3, <2>6
    <3> QED
      BY <2>7, <2>8, <2>9, <2>10, <3>1
  <2> QED
    BY <2>1, <2>11 DEF j
<1>5. lo \in T
  <2>1. lo \in Int /\ Finest \in Int /\ lo \in lo .. Finest
    BY <1>1
  <2> HIDE DEF T
  <2>2. \A k \in lo .. Finest : k \in T
    BY <1>3, <1>4, <2>1, Descending
  <2> QED
    BY <2>1, <2>2
<1> DEFINE f == p[lo]
           q == n \div f
<1>6. f \in Nat /\ f > 0 /\ r[lo] \in Nat /\ lo \in Ids /\ lo \in lo .. Finest
  BY <1>1
<1>7. w[lo] = d[lo] * f + w[lo + 1] /\ w[lo + 1] = n - q * f /\ d[lo] = q % r[lo]
  BY <1>2, <1>5, <1>6
<1> HIDE DEF f, T
<1>8. q \in Nat /\ q * f <= n /\ q * f \in Nat
  <2>1. n \div f \in Nat /\ n = f * (n \div f) + (n % f) /\ n % f \in 0 .. f - 1
    BY <1>6
  <2>2. f * q = q * f /\ q * f \in Int
    BY <1>6, <2>1
  <2> QED
    BY <2>1, <2>2, <1>6
<1> HIDE DEF q
<1>9. q < r[lo]
  <2> SUFFICES ASSUME r[lo] <= q PROVE FALSE
    BY <1>6, <1>8
  <2>1. (q - r[lo]) * f >= 0 /\ (q - r[lo]) * f = q * f - r[lo] * f
    BY <1>6, <1>8
  <2>2. n < r[lo] * f /\ r[lo] * f \in Int
    BY <1>6 DEF f
  <2> QED
    BY <1>8, <2>1, <2>2
<1>10. q % r[lo] = q
  BY <1>6, <1>8, <1>9
<1>11. w[lo] = n
  BY <1>7, <1>8, <1>10
<1> QED
  BY <1>11 DEF w

-----------------------------------------------------------------------------
(***************************************************************************)
(* Words that say when: those whose year is not overfull.                  *)
(***************************************************************************)
Timed(w) == Sound(w) /\ ~NoSuchYear(w) /\ FractionOfYear(w) < Scale(1)

\* A word is set to the very millisecond.
LEMMA FromMillisecondsIsTimed ==
  ASSUME NEW w \in Words, w.type = 1, NEW ms \in Int, Representable(ms)
  PROVE  LET v == FromMilliseconds(w, ms)
         IN  /\ Timed(v)
             /\ Milliseconds(v) = ms
             /\ v.ba = IF ms < Scale(1) THEN 0 ELSE 1
             /\ v.forward = w.forward /\ v.reverse = w.reverse
<1> DEFINE f == Scale(1)
           q == ms \div Scale(1)
           rest == ms - q * f
           m == MaxValue(1)
           v == FromMilliseconds(w, ms)
<1>1. /\ f \in Nat /\ f > 0 /\ q \in Int /\ rest \in Int
      /\ q * f <= ms /\ ms < (q + 1) * f /\ (q + 1) * f = q * f + f /\ q * f \in Int
      /\ rest \in Nat /\ rest < f
  <2>1. /\ f \in Nat /\ f > 0 /\ q \in Int /\ rest \in Int
        /\ q * f <= ms /\ ms < (q + 1) * f
    BY YearOf
  <2> HIDE DEF f, q
  <2>2. (q + 1) * f = q * f + f /\ q * f \in Int
    BY <2>1
  <2> QED
    BY <2>1, <2>2
<1>2. /\ Finest \in Nat /\ Finest > 1 /\ Ids = 1 .. Finest /\ 1 \in Ids /\ 2 \in Ids
      /\ m \in Nat
  BY FormatFacts
<1>3. Sound(v) /\ ~NoSuchYear(v) /\ v.forward = w.forward /\ v.reverse = w.reverse
  BY FromMillisecondsIsSound
<1>4. v = IF ms < f THEN Dated(w, 0, -q, rest) ELSE Dated(w, 1, q % (m + 1), rest)
  BY DEF FromMilliseconds
<1>5. q % (m + 1) \in Int
  BY <1>1, <1>2, SMTT(30)
<1>6. /\ \A k \in Ids : k # 1 => v.field[k] = (rest \div Scale(k)) % (MaxValue(k) + 1)
      /\ v.ba = IF ms < f THEN 0 ELSE 1
      /\ v.field[1] = IF ms < f THEN -q ELSE q % (m + 1)
  <2> HIDE DEF f, q, rest, m, v
  <2>1. -q \in Int /\ 0 \in 0 .. 1 /\ 1 \in 0 .. 1
    BY <1>1
  <2>2. CASE ms < f
    <3>1. v = Dated(w, 0, -q, rest)
      BY <1>4, <2>2
    <3> QED
      BY <1>1, <2>1, <2>2, <3>1, DatedIs
  <2>3. CASE ~(ms < f)
    <3>1. v = Dated(w, 1, q % (m + 1), rest)
      BY <1>4, <2>3
    <3> QED
      BY <1>1, <1>5, <2>1, <2>3, <3>1, DatedIs
  <2> QED
    BY <2>2, <2>3
<1> HIDE DEF v
<1>7. FractionOfYear(v) = rest
  <2>1. FractionOfYear(v) = Worth(v.field, ScalePlace)[2] /\ Digits(v.field, Radices)
    BY <1>3, FractionIs
  <2>2. /\ Radix(Radices, ScalePlace, 2) /\ ScalePlace[Finest] = 1
        /\ \A i \in Ids : Radices[i] = MaxValue(i) + 1 /\ ScalePlace[i] = Scale(i)
    BY ScalesAreRadix
  <2>3. \A k \in Ids : v.field[k] \in Nat
    BY <2>1 DEF Digits
  <2>4. rest < Radices[2] * ScalePlace[2]
    <3>1. Scale(1) <= (MaxValue(2) + 1) * Scale(2)
      BY TemporalFormatAssumption
    <3>2. (MaxValue(2) + 1) * Scale(2) \in Nat
      <4>1. MaxValue(2) \in Nat /\ Scale(2) \in Nat
        BY <1>2, FormatFacts
      <4>2. \A x, y \in Nat : (x + 1) * y \in Nat
        OBVIOUS
      <4> QED
        BY <4>1, <4>2
    <3>3. Radices[2] = MaxValue(2) + 1 /\ ScalePlace[2] = Scale(2)
      BY <1>2, <2>2
    <3> HIDE DEF rest
    <3> QED
      BY <1>1, <3>1, <3>2, <3>3
  <2>5. \A k \in 2 .. Finest : v.field[k] = (rest \div ScalePlace[k]) % Radices[k]
    <3> TAKE k \in 2 .. Finest
    <3>1. k \in Ids /\ k # 1
      BY <1>2
    <3> QED
      BY <1>6, <2>2, <3>1
  <2> HIDE DEF rest
  <2>6. Worth(v.field, ScalePlace)[2] = rest
    BY <1>1, <2>2, <2>3, <2>4, <2>5, DigitsOfNumber
  <2> QED
    BY <2>1, <2>6
<1>8. v.ba = 1 => v.field[1] = q
  <2> SUFFICES ASSUME v.ba = 1 PROVE v.field[1] = q
    OBVIOUS
  <2>1. ~(ms < f) /\ v.field[1] = q % (m + 1)
    BY <1>6
  <2>2. ms < (m + 1) * f
    <3>1. ms <= (m + 1) * f - 1
      BY DEF Representable, LastMillisecond
    <3>2. (m + 1) * f \in Int
      BY <1>1, <1>2, SMTT(30)
    <3> QED
      BY <3>1, <3>2
  <2> HIDE DEF f, m, q, rest
  <2>3. q >= 0
    <3> SUFFICES ASSUME q + 1 <= 0 PROVE FALSE
      BY <1>1
    <3>1. (-(q + 1)) * f >= 0 /\ (-(q + 1)) * f = -((q + 1) * f)
      BY <1>1
    <3> QED
      BY <1>1, <2>1, <3>1
  <2>4. q <= m
    <3> SUFFICES ASSUME m + 1 <= q PROVE FALSE
      BY <1>1, <1>2
    <3>1. (q - (m + 1)) * f >= 0 /\ (q - (m + 1)) * f = q * f - (m + 1) * f
      BY <1>1, <1>2
    <3>2. (m + 1) * f \in Int
      BY <1>1, <1>2
    <3> QED
      BY <1>1, <2>2, <3>1, <3>2
  <2>5. q % (m + 1) = q
    BY <1>1, <1>2, <2>3, <2>4
  <2> QED
    BY <2>1, <2>5
<1>9. Milliseconds(v) = ms
  <2>1. Milliseconds(v) = (IF v.ba = 1 THEN 1 ELSE -1) * v.field[1] * f + rest
    BY <1>7 DEF Milliseconds
  <2>2. rest = ms - q * f
    OBVIOUS
  <2> HIDE DEF f, q, rest
  <2>3. (IF v.ba = 1 THEN 1 ELSE -1) * v.field[1] = q
    <3>1. CASE v.ba = 1
      BY <1>1, <1>8, <3>1
    <3>2. CASE v.ba # 1
      <4>1. v.field[1] = -q
        BY <1>6, <3>2
      <4> QED
        BY <1>1, <3>2, <4>1
    <3> QED
      BY <3>1, <3>2
  <2> QED
    BY <1>1, <2>1, <2>2, <2>3
<1>10. Timed(v)
  BY <1>1, <1>3, <1>7 DEF Timed
<1> QED
  BY <1>3, <1>6, <1>9, <1>10 DEF v

\* A word that reaches f and r instead.
Reached(w, f, r)        == [w EXCEPT !.forward = f, !.reverse = r]
ReachedBackFirst(w, f, r) == [w EXCEPT !.reverse = r, !.forward = f]

LEMMA ReachedIs ==
  ASSUME NEW w \in Words, NEW f, NEW r
  PROVE  /\ Reached(w, f, r)
              = [ba |-> w.ba, field |-> w.field, forward |-> f, reverse |-> r, type |-> w.type]
         /\ ReachedBackFirst(w, f, r) = Reached(w, f, r)
<1> DEFINE rec(g, s) == [ba |-> w.ba, field |-> w.field, forward |-> g, reverse |-> s,
                         type |-> w.type]
<1>1. w = rec(w.forward, w.reverse)
  BY WordParts
<1>2. ASSUME NEW g, NEW s
      PROVE  Reached(w, g, s) = rec(g, s)
  <2> DEFINE u == [w EXCEPT !.forward = g]
  <2>1. u = rec(g, w.reverse)
    BY <1>1
  <2>2. Reached(w, g, s) = [u EXCEPT !.reverse = s]
    BY DEF Reached
  <2> HIDE DEF u
  <2>3. [u EXCEPT !.reverse = s] = rec(g, s)
    BY <2>1
  <2> QED
    BY <2>2, <2>3
<1>3. ReachedBackFirst(w, f, r) = rec(f, r)
  <2> DEFINE u == [w EXCEPT !.reverse = r]
  <2>1. u = rec(w.forward, r)
    BY <1>1
  <2>2. ReachedBackFirst(w, f, r) = [u EXCEPT !.forward = f]
    BY DEF ReachedBackFirst
  <2> HIDE DEF u
  <2>3. [u EXCEPT !.forward = f] = rec(f, r)
    BY <2>1
  <2> QED
    BY <2>2, <2>3
<1> QED
  BY <1>2, <1>3

\* How far a word reaches is no part of when it is.
LEMMA ReachKeepsTime ==
  ASSUME NEW w, Sound(w), NEW f, f \in 0 .. ResolutionMask,
         NEW r, r \in 0 .. ResolutionMask, NEW v, v = Reached(w, f, r)
  PROVE  /\ Sound(v)
         /\ NoSuchYear(v) <=> NoSuchYear(w)
         /\ FractionOfYear(v) = FractionOfYear(w)
         /\ Milliseconds(v) = Milliseconds(w)
         /\ Timed(w) => Timed(v)
         /\ v.ba = w.ba /\ v.field = w.field /\ v.type = 1
         /\ v.forward = f /\ v.reverse = r
<1>1. w \in Words /\ w.type = 1
  BY DEF Sound
<1>2. v = [ba |-> w.ba, field |-> w.field, forward |-> f, reverse |-> r, type |-> w.type]
  BY <1>1, ReachedIs
<1>3. v \in Words
  BY <1>1, <1>2, WordParts DEF Words
<1>4. v.ba = w.ba /\ v.field = w.field /\ v.forward = f /\ v.reverse = r /\ v.type = w.type
  BY <1>2
<1>5. Sound(v) /\ (NoSuchYear(v) <=> NoSuchYear(w))
  BY <1>1, <1>3, <1>4 DEF Sound, NoSuchYear
<1>6. FractionOfYear(v) = FractionOfYear(w)
  BY <1>4 DEF FractionOfYear
<1>7. Milliseconds(v) = Milliseconds(w)
  BY <1>4, <1>6 DEF Milliseconds
<1>8. Timed(w) => Timed(v)
  BY <1>5, <1>6 DEF Timed
<1> QED
  BY <1>1, <1>4, <1>5, <1>6, <1>7, <1>8

-----------------------------------------------------------------------------
(***************************************************************************)
(* Packed times.  The words that say when are packed into integers that are*)
(* sorted by time, and take other resolutions in place.                    *)
(***************************************************************************)
\* Milliseconds count from a year and what is past of it.
LEMMA TimeParts ==
  ASSUME NEW w, Timed(w)
  PROVE  /\ Scale(1) \in Nat /\ Scale(1) > 0
         /\ w \in Words /\ w.type = 1 /\ w.ba \in 0 .. 1
         /\ w.field[1] \in Nat /\ w.field[1] <= MaxValue(1)
         /\ FractionOfYear(w) \in Nat /\ FractionOfYear(w) < Scale(1)
         /\ SignedYear(w) \in Int
         /\ Milliseconds(w) = SignedYear(w) * Scale(1) + FractionOfYear(w)
         /\ Milliseconds(w) \in Int
         /\ w.ba = 1 => SignedYear(w) > 0
         /\ w.ba = 0 => SignedYear(w) <= 0
         /\ w.ba = 1 <=> Milliseconds(w) >= Scale(1)
         /\ Representable(Milliseconds(w))
<1> DEFINE f == Scale(1)
           t == FractionOfYear(w)
           y == w.field[1]
           s == SignedYear(w)
           m == MaxValue(1)
<1>1. f \in Nat /\ f > 0 /\ w \in Words /\ w.type = 1 /\ w.ba \in 0 .. 1
  BY YearOf, WordParts DEF Timed, Sound
<1>2. y \in Nat /\ y <= m /\ m \in Nat
  <2>1. 1 \in Ids /\ m \in Nat
    BY FormatFacts
  <2> QED
    BY <2>1 DEF Timed, Sound
<1>3. t \in Nat /\ t < f
  BY FractionIs DEF Timed
<1>4. s = IF w.ba = 1 THEN y ELSE -y
  BY DEF SignedYear
<1>5. Milliseconds(w) = (IF w.ba = 1 THEN 1 ELSE -1) * y * f + t
  BY DEF Milliseconds
<1>6. w.ba = 1 => y # 0
  BY DEF Timed, NoSuchYear
<1>7. FirstMillisecond = -m * f /\ LastMillisecond = (m + 1) * f - 1
  BY DEF FirstMillisecond, LastMillisecond
<1> HIDE DEF f, t, y, s, m
<1>8. s \in Int /\ (w.ba = 1 => s > 0) /\ (w.ba = 0 => s <= 0) /\ -m <= s /\ s <= m
  BY <1>1, <1>2, <1>4, <1>6
<1>9. Milliseconds(w) = s * f + t
  <2>1. (IF w.ba = 1 THEN 1 ELSE -1) * y = s
    BY <1>1, <1>2, <1>4
  <2> QED
    BY <1>5, <2>1
<1>10. \A a, b \in Int : a <= b => a * f <= b * f
  <2> SUFFICES ASSUME NEW a \in Int, NEW b \in Int, a <= b PROVE a * f <= b * f
    OBVIOUS
  <2>1. (b - a) * f >= 0 /\ (b - a) * f = b * f - a * f
    BY <1>1
  <2>2. a * f \in Int /\ b * f \in Int
    BY <1>1
  <2> QED
    BY <2>1, <2>2
<1>11. s * f \in Int /\ -m \in Int /\ 1 * f = f /\ 0 * f = 0 /\ (-m) * f = -m * f
       /\ (m + 1) * f = m * f + f /\ m * f \in Int /\ -m * f \in Int
  BY <1>1, <1>2, <1>8
<1>12. w.ba = 1 => f <= s * f
  BY <1>1, <1>8, <1>10, <1>11
<1>13. w.ba = 0 => s * f <= 0
  BY <1>1, <1>8, <1>10, <1>11
<1>14. -m * f <= s * f /\ s * f <= m * f
  BY <1>2, <1>8, <1>10, <1>11
<1>15. w.ba = 1 <=> Milliseconds(w) >= f
  BY <1>1, <1>3, <1>9, <1>11, <1>12, <1>13
<1>16. -m * f <= Milliseconds(w) /\ Milliseconds(w) <= (m + 1) * f - 1
  BY <1>1, <1>3, <1>9, <1>11, <1>14
<1>17. Milliseconds(w) \in Int
  BY <1>3, <1>9, <1>11
<1> HIDE DEF Representable
<1>18. Representable(Milliseconds(w))
  BY <1>7, <1>16 DEF Representable
<1> QED
  BY <1>1, <1>2, <1>3, <1>8, <1>9, <1>15, <1>17, <1>18 DEF f, t, y, s, m

\* The earlier word is packed into the smaller integer.
LEMMA EncodeSortsTime ==
  ASSUME NEW w, Timed(w), NEW v, Timed(v), Milliseconds(w) < Milliseconds(v)
  PROVE  Encode(w) < Encode(v)
<1> DEFINE f == Scale(1)
<1>1. /\ f \in Nat /\ f > 0
      /\ FractionOfYear(w) \in Nat /\ FractionOfYear(w) < f
      /\ SignedYear(w) \in Int /\ Milliseconds(w) = SignedYear(w) * f + FractionOfYear(w)
      /\ w.ba \in 0 .. 1 /\ (w.ba = 1 => SignedYear(w) > 0) /\ (w.ba = 0 => SignedYear(w) <= 0)
  BY TimeParts
<1>2. /\ FractionOfYear(v) \in Nat /\ FractionOfYear(v) < f
      /\ SignedYear(v) \in Int /\ Milliseconds(v) = SignedYear(v) * f + FractionOfYear(v)
      /\ v.ba \in 0 .. 1 /\ (v.ba = 1 => SignedYear(v) > 0) /\ (v.ba = 0 => SignedYear(v) <= 0)
  BY TimeParts
<1> HIDE DEF f
<1>3. ~(SignedYear(v) < SignedYear(w))
  <2> DEFINE a == SignedYear(w)
             b == SignedYear(v)
             s == FractionOfYear(w)
             t == FractionOfYear(v)
  <2>1. a \in Int /\ b \in Int /\ s \in Nat /\ t \in Nat /\ t < f /\ a * f + s < b * f + t
    BY <1>1, <1>2
  <2> HIDE DEF a, b, s, t
  <2>2. ASSUME b + 1 <= a PROVE FALSE
    <3>1. (a - (b + 1)) * f >= 0 /\ (a - (b + 1)) * f = a * f - b * f - f
      BY <1>1, <2>1, <2>2
    <3>2. a * f \in Int /\ b * f \in Int
      BY <1>1, <2>1
    <3> QED
      BY <1>1, <2>1, <3>1, <3>2
  <2>3. ~(b < a)
    BY <2>1, <2>2
  <2> QED
    BY <2>3 DEF a, b
<1>4. CASE SignedYear(w) = SignedYear(v)
  <2>1. w.ba = v.ba
    BY <1>1, <1>2, <1>4
  <2>2. FractionOfYear(w) < FractionOfYear(v)
    <3>1. SignedYear(w) * f \in Int
      BY <1>1
    <3> QED
      BY <1>1, <1>2, <1>4, <3>1
  <2>3. Earlier(w, v)
    BY <1>4, <2>1, <2>2 DEF Earlier
  <2> QED
    BY <2>3, EncodeSorts DEF Timed
<1>5. CASE SignedYear(w) # SignedYear(v)
  <2>1. Earlier(w, v)
    BY <1>1, <1>2, <1>3, <1>5 DEF Earlier
  <2> QED
    BY <2>1, EncodeSorts DEF Timed
<1> QED
  BY <1>4, <1>5

\* Words of one time have the same fields.
LEMMA SameTimeSameFields ==
  ASSUME NEW w, Timed(w), NEW v, Timed(v), Milliseconds(w) = Milliseconds(v)
  PROVE  w.field = v.field /\ w.ba = v.ba
<1> DEFINE ms == Milliseconds(w)
<1>1. FromMilliseconds(w, ms) = w /\ FromMilliseconds(v, ms) = v
  BY MillisecondsRoundTrip DEF Timed
<1>2. w \in Words /\ v \in Words
  BY DEF Timed, Sound
<1> HIDE DEF ms
<1>3. ASSUME NEW a \in Words, NEW b \in Words, NEW ba, NEW y, NEW rest
      PROVE  Dated(a, ba, y, rest).field = Dated(b, ba, y, rest).field
             /\ Dated(a, ba, y, rest).ba = Dated(b, ba, y, rest).ba
  <2> DEFINE g == [i \in Ids |-> IF i = 1 THEN y ELSE (rest \div Scale(i)) % (MaxValue(i) + 1)]
  <2>1. Dated(a, ba, y, rest) = [a EXCEPT !.ba = ba, !.field = g]
        /\ Dated(b, ba, y, rest) = [b EXCEPT !.ba = ba, !.field = g]
    BY DEF Dated
  <2> HIDE DEF g
  <2>2. /\ a = [ba |-> a.ba, field |-> a.field, forward |-> a.forward,
                reverse |-> a.reverse, type |-> a.type]
        /\ b = [ba |-> b.ba, field |-> b.field, forward |-> b.forward,
                reverse |-> b.reverse, type |-> b.type]
    BY WordParts
  <2>3. /\ [a EXCEPT !.ba = ba, !.field = g].field = g
        /\ [b EXCEPT !.ba = ba, !.field = g].field = g
        /\ [a EXCEPT !.ba = ba, !.field = g].ba = ba
        /\ [b EXCEPT !.ba = ba, !.field = g].ba = ba
    BY <2>2
  <2> QED
    BY <2>1, <2>3
<1>4. FromMilliseconds(w, ms).field = FromMilliseconds(v, ms).field
      /\ FromMilliseconds(w, ms).ba = FromMilliseconds(v, ms).ba
  BY <1>2, <1>3 DEF FromMilliseconds
<1> QED
  BY <1>1, <1>4

\* What packed words after the start are.
LEMMA EncodedTime ==
  ASSUME NEW w, Timed(w), w.ba = 1
  PROVE  LET x == Encode(w)
         IN  /\ x = Index(w) /\ x \in Int /\ x > 0 /\ x % 4 = 1
             /\ Decode(x) = w
             /\ ForwardResolution(x) = w.forward
             /\ ReverseResolution(x) = w.reverse
<1> DEFINE x == Encode(w)
<1>1. Sound(w) /\ w.type = 1
  BY DEF Timed, Sound
<1>2. x = Index(w)
  BY <1>1, EncodeIs
<1>3. /\ Index(w) \in Nat /\ Index(w) > 0
      /\ Bits(Index(w), ForwardOffset, ResolutionWidth) = w.forward
      /\ Bits(Index(w), ReverseOffset, ResolutionWidth) = w.reverse
      /\ Index(w) % Two[TypeWidth] = 1
  BY <1>1, IndexFacts
<1>4. Decode(x) = w
  BY <1>1, DecodeOfEncode
<1>5. Two[TypeWidth] = 4
  BY LowPowers
<1> HIDE DEF x
<1> QED
  BY <1>2, <1>3, <1>4, <1>5 DEF ForwardResolution, ReverseResolution, x

\* How far a packed word reaches is set in place.
LEMMA ReachSetInPlace ==
  ASSUME NEW w, Timed(w), w.ba = 1, NEW r \in 0 .. ResolutionMask
  PROVE  /\ SetForward(Encode(w), r) = Encode(Reached(w, r, w.reverse))
         /\ SetReverse(Encode(w), r) = Encode(Reached(w, w.forward, r))
<1>1. w \in Words /\ Sound(w) /\ w.type = 1
  BY DEF Timed, Sound
<1>2. w.forward \in 0 .. ResolutionMask /\ w.reverse \in 0 .. ResolutionMask
      /\ w.forward \in Int /\ w.reverse \in Int /\ r \in Int
  BY <1>1, WordParts, MaskIsNat
<1>3. Two[ForwardOffset] \in Nat /\ Two[ReverseOffset] \in Nat
  BY LowPowers
<1>4. Encode(w) = Index(w) /\ Index(w) \in Int
      /\ Bits(Encode(w), ForwardOffset, ResolutionWidth) = w.forward
      /\ Bits(Encode(w), ReverseOffset, ResolutionWidth) = w.reverse
  BY EncodedTime DEF ForwardResolution, ReverseResolution
<1> DEFINE a == Worth(Stored(w), BitPlace)[1]
           F == Two[ForwardOffset]
           R == Two[ReverseOffset]
<1>5. Index(w) = a + (w.forward * F + w.reverse * R + 1)
  BY <1>1 DEF Index, Low
<1>6. a \in Int
  <2>1. \A k \in Ids : Stored(w)[k] \in Nat /\ BitPlace[k] \in Nat
    BY <1>1, StoredIsDigits, BitsAreRadix DEF Digits, Radix
  <2>2. 1 \in 1 .. Finest + 1
    BY FormatFacts
  <2>3. a \in Nat
    BY <2>1, <2>2, WorthOf
  <2> QED
    BY <2>3
<1>7. ASSUME NEW f \in 0 .. ResolutionMask, NEW s \in 0 .. ResolutionMask
      PROVE  Encode(Reached(w, f, s)) = a + (f * F + s * R + 1)
  <2>0. PICK v : v = Reached(w, f, s)
    OBVIOUS
  <2>1. Sound(v) /\ v.ba = w.ba /\ v.field = w.field /\ v.type = 1
        /\ v.forward = f /\ v.reverse = s
    BY <1>1, <2>0, ReachKeepsTime
  <2>2. Encode(v) = Index(v)
    BY <2>1, EncodeIs
  <2>3. Stored(v) = Stored(w)
    BY <2>1 DEF Stored
  <2> QED
    BY <2>0, <2>1, <2>2, <2>3 DEF Index, Low
<1> HIDE DEF a
<1>8. w.forward * F \in Int /\ w.reverse * R \in Int /\ r * F \in Int /\ r * R \in Int
      /\ (r - w.forward) * F = r * F - w.forward * F
      /\ (r - w.reverse) * R = r * R - w.reverse * R
  <2> HIDE DEF F, R
  <2>1. F \in Int /\ R \in Int
    BY <1>3 DEF F, R
  <2> QED
    BY <1>2, <2>1
<1>9. SetForward(Encode(w), r) = Encode(Reached(w, r, w.reverse))
  <2>1. SetForward(Encode(w), r) = Index(w) + (r - w.forward) * F
    BY <1>4 DEF SetForward, WithBits
  <2>2. Encode(Reached(w, r, w.reverse)) = a + (r * F + w.reverse * R + 1)
    BY <1>2, <1>7
  <2> HIDE DEF F, R
  <2> QED
    BY <1>5, <1>6, <1>8, <2>1, <2>2
<1>10. SetReverse(Encode(w), r) = Encode(Reached(w, w.forward, r))
  <2>1. SetReverse(Encode(w), r) = Index(w) + (r - w.reverse) * R
    BY <1>4 DEF SetReverse, WithBits
  <2>2. Encode(Reached(w, w.forward, r)) = a + (w.forward * F + r * R + 1)
    BY <1>2, <1>7
  <2> HIDE DEF F, R
  <2> QED
    BY <1>5, <1>6, <1>8, <2>1, <2>2
<1> QED
  BY <1>9, <1>10

-----------------------------------------------------------------------------
(***************************************************************************)
(* The mask.  It clears bits 0, 2 and 3, not the resolutions, and yet it   *)
(* compares bounds as their times do: a bound has ones for its reverse     *)
(* resolution, and only the later one may reach into the future.  Before the*)
(* start the mask takes 1 off a bound, and 13 after it.                    *)
(***************************************************************************)
\* Resolutions are numbers of two bits or more.
LEMMA MaskEndsInOnes ==
  \E k \in Nat : k > 0 /\ Two[ResolutionWidth] = 4 * k /\ ResolutionMask = 4 * k - 1
<1>1. /\ Finest \in Nat /\ Finest > 1 /\ Ids = 1 .. Finest
      /\ \A i \in Ids : Width(i) \in Nat /\ MaxValue(i) \in Nat
      /\ ResolutionWidth \in Nat /\ ResolutionWidth > 0
  BY FormatFacts
<1>2. \A i \in Ids : Offset[i] \in Nat /\ Offset[i] + Width(i) = Offset[i - 1]
                     /\ Offset[i] + Width(i) <= WordBits
  BY OffsetFacts
<1>3. Offset[Finest] = LowBits /\ LowBits \in Nat /\ WordBits \in Nat /\ LowBits <= WordBits
  BY OffsetFacts
<1>4. LowBits = 2 + 2 * ResolutionWidth
  BY DEF LowBits, TypeWidth
<1>5. ASSUME NEW i \in Ids PROVE Width(i) > 0
  <2>1. 0 < MaxValue(i) /\ MaxValue(i) < Two[Width(i)]
    BY <1>5, TemporalFormatAssumption
  <2>2. Two[0] = 1
    BY TwoFacts
  <2>3. Width(i) # 0
    BY <1>1, <1>5, <2>1, <2>2
  <2> QED
    BY <1>1, <1>5, <2>3
<1>6. MaxResolution >= 1 /\ MaxResolution \in Nat
  <2>1. Finest \in Ids /\ Finest - 1 \in Ids
    BY <1>1
  <2>2. /\ Width(Finest) > 0 /\ Width(Finest) \in Nat
        /\ Width(Finest - 1) > 0 /\ Width(Finest - 1) \in Nat
    BY <1>1, <1>5, <2>1
  <2>3. /\ Offset[Finest] \in Nat /\ Offset[Finest - 1] \in Nat
        /\ Offset[Finest] + Width(Finest) = Offset[Finest - 1]
        /\ Offset[Finest - 1] + Width(Finest - 1) <= WordBits
    BY <1>2, <2>1
  <2>4. MaxResolution = WordBits - LowBits - 1
    BY ResolutionFacts
  <2> QED
    BY <1>3, <2>2, <2>3, <2>4
<1>7. Two[ResolutionWidth] > 2 /\ Two[ResolutionWidth] \in Nat
      /\ ResolutionMask = Two[ResolutionWidth] - 1
  BY <1>6, LowPowers, TemporalSeriesAssumption
<1>8. Two[0] = 1 /\ \A n \in 0 .. WordBits - 1 : Two[n + 1] = 2 * Two[n] /\ Two[n] \in Nat
  <2>1. 0 .. WordBits - 1 \subseteq 0 .. WordBits
    BY <1>3
  <2> QED
    BY <2>1, TwoFacts
<1>9. Two[1] = 2
  <2>1. 0 \in 0 .. WordBits - 1
    BY <1>1, <1>3, <1>4
  <2>2. Two[0 + 1] = 2 * Two[0]
    BY <1>8, <2>1
  <2> QED
    BY <1>8, <2>2
<1>10. ResolutionWidth > 1
  BY <1>1, <1>7, <1>9
<1> DEFINE n == ResolutionWidth - 2
<1>11. n \in 0 .. WordBits - 1 /\ n + 1 \in 0 .. WordBits - 1 /\ (n + 1) + 1 = ResolutionWidth
  BY <1>1, <1>3, <1>4, <1>10
<1>12. Two[n + 1] = 2 * Two[n] /\ Two[(n + 1) + 1] = 2 * Two[n + 1] /\ Two[n] \in Nat
  BY <1>8, <1>11
<1> HIDE DEF n
<1>13. Two[ResolutionWidth] = 4 * Two[n]
  BY <1>11, <1>12
<1>14. Two[n] > 0
  BY <1>7, <1>12, <1>13
<1> QED
  BY <1>7, <1>12, <1>13, <1>14

\* What masking takes off an integer.
LEMMA MaskedIs ==
  ASSUME NEW y \in Int
  PROVE  Masked(y) = y - (y % 2) - 4 * ((y \div 4) % 4)
<1>1. Two[0] = 1 /\ Two[1] = 2 /\ Two[2] = 4
  <2>1. Two[0] = 1 /\ \A n \in 0 .. WordBits - 1 : Two[n + 1] = 2 * Two[n]
    BY TwoFacts
  <2>2. Two[TypeWidth] = 4 /\ TypeWidth = 2
    BY LowPowers DEF TypeWidth
  <2>3. 0 \in 0 .. WordBits - 1
    <3>1. WordBits \in Nat /\ LowBits <= WordBits /\ ResolutionWidth \in Nat
          /\ LowBits = 2 + 2 * ResolutionWidth /\ LowBits \in Nat
      BY OffsetFacts, FormatFacts DEF LowBits, TypeWidth
    <3> QED
      BY <3>1
  <2>4. Two[0 + 1] = 2 * Two[0]
    BY <2>1, <2>3
  <2> QED
    BY <2>1, <2>2, <2>4
<1>2. Bits(y, 0, 1) = (y \div 1) % 2 /\ Bits(y, 2, 2) = (y \div 4) % 4
  BY <1>1 DEF Bits
<1>3. y \div 1 = y
  OBVIOUS
<1> QED
  BY <1>2, <1>3 DEF Masked

\* A bound ends in ones: its reverse resolution is all ones, its type is 1.
LEMMA BoundIndex ==
  ASSUME NEW u, Sound(u), u.reverse = ResolutionMask
  PROVE  \E j \in Nat : Index(u) = 16 * j + 13
<1>1. PICK k \in Nat : k > 0 /\ Two[ResolutionWidth] = 4 * k /\ ResolutionMask = 4 * k - 1
  BY MaskEndsInOnes
<1>2. /\ Index(u) \in Nat /\ Index(u) > 0
      /\ Bits(Index(u), ReverseOffset, ResolutionWidth) = u.reverse
      /\ Index(u) % Two[TypeWidth] = u.type
  BY IndexFacts
<1>3. u.type = 1 /\ Two[ReverseOffset] = 4 /\ Two[TypeWidth] = 4
  BY LowPowers DEF Sound
<1> DEFINE x == Index(u)
           n == x \div 4
<1>4. x \in Nat /\ x % 4 = 1 /\ n % (4 * k) = 4 * k - 1
  BY <1>1, <1>2, <1>3 DEF Bits
<1> HIDE DEF x
<1>5. n \in Nat /\ x = 4 * n + 1
  BY <1>4
<1> HIDE DEF n
<1>6. \E j \in Nat : n = 4 * j + 3
  <2> DEFINE f == 4 * k
             q == n \div f
  <2>1. f \in Nat /\ f > 0
    BY <1>1
  <2> HIDE DEF f
  <2>2. q \in Nat /\ n = q * f + (n % f) /\ q * f \in Nat
    BY <1>5, <2>1, DivisionOf
  <2>3. n % f = 4 * k - 1
    BY <1>4 DEF f
  <2> HIDE DEF q
  <2>4. q * (4 * k) = 4 * (q * k) /\ q * k \in Nat
    BY <1>1, <2>2
  <2>5. n = 4 * (q * k + k - 1) + 3 /\ q * k + k - 1 \in Nat
    BY <1>1, <2>2, <2>3, <2>4 DEF f
  <2> QED
    BY <2>5
<1>7. PICK j \in Nat : n = 4 * j + 3
  BY <1>6
<1>8. x = 16 * j + 13
  BY <1>5, <1>7
<1> QED
  BY <1>8 DEF x

\* The mask on what ends in 12 or 13, and on its negative.
LEMMA MaskedEnds ==
  ASSUME NEW j \in Nat
  PROVE  /\ Masked(16 * j + 13) = 16 * j /\ Masked(16 * j + 12) = 16 * j
         /\ Masked(-(16 * j + 13)) = -(16 * j + 13) - 1
         /\ Masked(-(16 * j + 12)) = -(16 * j + 12) - 4
<1>1. ASSUME NEW y \in Int, NEW n \in Int, NEW s \in 0 .. 3, NEW c \in 0 .. 3,
             y = 4 * (4 * n + s) + c
      PROVE  Masked(y) = y - (c % 2) - 4 * s
  <2>1. y % 2 = c % 2
    BY <1>1
  <2>2. y \div 4 = 4 * n + s
    BY <1>1
  <2>3. (4 * n + s) % 4 = s
    BY <1>1
  <2>4. Masked(y) = y - (y % 2) - 4 * ((y \div 4) % 4)
    BY MaskedIs
  <2> QED
    BY <2>1, <2>2, <2>3, <2>4
<1>2. Masked(16 * j + 13) = 16 * j
  <2>1. 16 * j + 13 = 4 * (4 * j + 3) + 1 /\ 16 * j + 13 \in Int /\ 1 % 2 = 1
    OBVIOUS
  <2> QED
    BY <1>1, <2>1
<1>3. Masked(16 * j + 12) = 16 * j
  <2>1. 16 * j + 12 = 4 * (4 * j + 3) + 0 /\ 16 * j + 12 \in Int /\ 0 % 2 = 0
    OBVIOUS
  <2> QED
    BY <1>1, <2>1
<1>4. Masked(-(16 * j + 13)) = -(16 * j + 13) - 1
  <2> DEFINE y == -(16 * j + 13)
             n == -j - 1
  <2>1. y = 4 * (4 * n + 0) + 3 /\ y \in Int /\ n \in Int /\ 3 % 2 = 1
    OBVIOUS
  <2> HIDE DEF y, n
  <2>2. Masked(y) = y - (3 % 2) - 4 * 0
    BY <1>1, <2>1
  <2>3. Masked(y) = y - 1
    BY <2>1, <2>2
  <2> QED
    BY <2>3 DEF y
<1>5. Masked(-(16 * j + 12)) = -(16 * j + 12) - 4
  <2> DEFINE y == -(16 * j + 12)
             n == -j - 1
  <2>1. y = 4 * (4 * n + 1) + 0 /\ y \in Int /\ n \in Int /\ 0 % 2 = 0
    OBVIOUS
  <2> HIDE DEF y, n
  <2>2. Masked(y) = y - (0 % 2) - 4 * 1
    BY <1>1, <2>1
  <2>3. Masked(y) = y - 4
    BY <2>1, <2>2
  <2> QED
    BY <2>3 DEF y
<1> QED
  BY <1>2, <1>3, <1>4, <1>5

\* What masking leaves of a bound.
LEMMA MaskedBound ==
  ASSUME NEW u, Sound(u), u.reverse = ResolutionMask
  PROVE  /\ u.ba = 1 => Masked(Encode(u)) = Encode(u) - 13 /\ Encode(u) >= 13
         /\ u.ba = 0 => Masked(Encode(u)) = Encode(u) - 1 /\ Encode(u) < 0
<1>1. PICK j \in Nat : Index(u) = 16 * j + 13
  BY BoundIndex
<1>2. Encode(u) = IF u.ba = 0 THEN -(16 * j + 13) ELSE 16 * j + 13
  BY <1>1, EncodeIs
<1>3. Masked(16 * j + 13) = 16 * j /\ Masked(-(16 * j + 13)) = -(16 * j + 13) - 1
  BY MaskedEnds
<1>4. CASE u.ba = 0
  BY <1>2, <1>3, <1>4
<1>5. CASE u.ba # 0
  BY <1>2, <1>3, <1>5
<1> QED
  BY <1>4, <1>5

\* Bounds compare as their times do, one that ends no sooner for its fields
\* reaching no less far into the future.
LEMMA BoundsCompare ==
  ASSUME NEW a, Timed(a), NEW b, Timed(b), b.ba = 1,
         a.reverse = ResolutionMask, b.reverse = ResolutionMask, a.forward <= b.forward
  PROVE  /\ Masked(Encode(a)) <= Masked(Encode(b)) <=> Milliseconds(a) <= Milliseconds(b)
         /\ Masked(Encode(a)) \in Int /\ Masked(Encode(b)) \in Int
<1>1. /\ a.ba \in 0 .. 1 /\ Milliseconds(a) \in Int /\ Scale(1) \in Nat
      /\ a.ba = 1 <=> Milliseconds(a) >= Scale(1)
  BY TimeParts
<1>2. /\ Milliseconds(b) \in Int /\ Milliseconds(b) >= Scale(1)
  BY TimeParts
<1>3. Sound(a) /\ Sound(b)
  BY DEF Timed
<1>4. /\ a.ba = 1 => Masked(Encode(a)) = Encode(a) - 13 /\ Encode(a) >= 13
      /\ a.ba = 0 => Masked(Encode(a)) = Encode(a) - 1 /\ Encode(a) < 0
  BY <1>3, MaskedBound
<1>5. Masked(Encode(b)) = Encode(b) - 13 /\ Encode(b) >= 13
  BY <1>3, MaskedBound
<1>6. Encode(a) \in Int /\ Encode(b) \in Int
  <2>1. Index(a) \in Nat /\ Encode(a) = IF a.ba = 0 THEN -Index(a) ELSE Index(a)
    BY <1>3, IndexFacts, EncodeIs
  <2>2. Index(b) \in Nat /\ Encode(b) = IF b.ba = 0 THEN -Index(b) ELSE Index(b)
    BY <1>3, IndexFacts, EncodeIs
  <2> QED
    BY <2>1, <2>2
<1>7. CASE a.ba = 0
  BY <1>1, <1>2, <1>4, <1>5, <1>6, <1>7
<1>9. Masked(Encode(a)) \in Int /\ Masked(Encode(b)) \in Int
  BY <1>1, <1>4, <1>5, <1>6
<1>8. CASE a.ba = 1
  <2>1. Masked(Encode(a)) <= Masked(Encode(b)) <=> Encode(a) <= Encode(b)
    BY <1>4, <1>5, <1>6, <1>8
  <2>2. CASE Milliseconds(a) < Milliseconds(b)
    <3>1. Encode(a) < Encode(b)
      BY <2>2, EncodeSortsTime
    <3> QED
      BY <1>1, <1>2, <1>6, <1>9, <2>1, <2>2, <3>1
  <2>3. CASE Milliseconds(b) < Milliseconds(a)
    <3>1. Encode(b) < Encode(a)
      BY <2>3, EncodeSortsTime
    <3> QED
      BY <1>1, <1>2, <1>6, <1>9, <2>1, <2>3, <3>1
  <2>4. CASE Milliseconds(a) = Milliseconds(b)
    <3>1. a.field = b.field /\ a.ba = b.ba
      BY <2>4, SameTimeSameFields
    <3>2. Encode(a) <= Encode(b)
      <4> DEFINE F == Two[ForwardOffset]
                 R == Two[ReverseOffset]
                 s == Worth(Stored(a), BitPlace)[1]
      <4>1. Encode(a) = Index(a) /\ Encode(b) = Index(b)
        BY <1>8, EncodedTime
      <4>2. Stored(a) = Stored(b) /\ a.type = 1 /\ b.type = 1
        BY <1>3, <3>1 DEF Stored, Sound
      <4>3. /\ Index(a) = s + (a.forward * F + a.reverse * R + 1)
            /\ Index(b) = s + (b.forward * F + b.reverse * R + 1)
        BY <4>2 DEF Index, Low
      <4>4. F \in Nat /\ R \in Nat
        BY LowPowers
      <4>5. a.forward \in Int /\ b.forward \in Int /\ a.reverse \in Int
        <5>1. a \in Words /\ b \in Words
          BY <1>3 DEF Sound
        <5> QED
          BY <5>1, WordParts, MaskIsNat
      <4>6. s \in Int
        <5>1. \A k \in Ids : Stored(a)[k] \in Nat /\ BitPlace[k] \in Nat
          BY <1>3, StoredIsDigits, BitsAreRadix DEF Digits, Radix
        <5>2. 1 \in 1 .. Finest + 1
          BY FormatFacts
        <5>3. s \in Nat
          BY <5>1, <5>2, WorthOf
        <5> QED
          BY <5>3
      <4> HIDE DEF F, R, s
      <4>7. (b.forward - a.forward) * F >= 0
            /\ (b.forward - a.forward) * F = b.forward * F - a.forward * F
        BY <4>4, <4>5
      <4>8. b.forward * F \in Int /\ a.forward * F \in Int /\ a.reverse * R \in Int
        BY <4>4, <4>5
      <4>9. a.reverse = b.reverse
        OBVIOUS
      <4>10. Index(a) <= Index(b)
        BY <4>3, <4>6, <4>7, <4>8, <4>9
      <4> QED
        BY <4>1, <4>10
    <3> QED
      BY <1>2, <1>9, <2>1, <2>4, <3>2
  <2> QED
    BY <1>1, <1>2, <2>2, <2>3, <2>4
<1> QED
  BY <1>1, <1>7, <1>8, <1>9

\* A word that reaches f and r is otherwise as it was.
LEMMA ReachedParts ==
  ASSUME NEW w, Sound(w), NEW f, f \in 0 .. ResolutionMask, NEW r, r \in 0 .. ResolutionMask
  PROVE  /\ Reached(w, f, r).ba = w.ba /\ Reached(w, f, r).field = w.field
         /\ Reached(w, f, r).forward = f /\ Reached(w, f, r).reverse = r
BY ReachKeepsTime

\* A word set to a time, that reaches f and r.
LEMMA SetAndReached ==
  ASSUME NEW w \in Words, w.type = 1, NEW ms \in Int, Representable(ms),
         NEW f, f \in 0 .. ResolutionMask, NEW r, r \in 0 .. ResolutionMask
  PROVE  LET a == Reached(FromMilliseconds(w, ms), f, r)
         IN  /\ Timed(a) /\ Milliseconds(a) = ms /\ a.forward = f /\ a.reverse = r
             /\ a.ba = IF ms < Scale(1) THEN 0 ELSE 1
<1> DEFINE v == FromMilliseconds(w, ms)
<1>1. Timed(v) /\ Milliseconds(v) = ms /\ v.ba = IF ms < Scale(1) THEN 0 ELSE 1
  BY FromMillisecondsIsTimed
<1>2. Sound(v)
  BY <1>1 DEF Timed
<1> HIDE DEF v
<1> DEFINE a == Reached(v, f, r)
<1>3. Milliseconds(a) = Milliseconds(v) /\ (Timed(v) => Timed(a))
  BY <1>2, ReachKeepsTime
<1>4. a.ba = v.ba /\ a.forward = f /\ a.reverse = r
  BY <1>2, ReachedParts
<1> QED
  BY <1>1, <1>3, <1>4 DEF v

\* The bounds of a packed time are packed times.
LEMMA BoundsAreTimes ==
  ASSUME NEW w, Timed(w), w.ba = 1, NEW x, x = Encode(w),
         w.forward \in 0 .. MaxResolution + 1, w.reverse \in 0 .. MaxResolution + 1
  PROVE  /\ Lower(x) = Milliseconds(w) - MillisecondsAt[w.reverse]
         /\ Upper(x) = Milliseconds(w) + MillisecondsAt[w.forward]
         /\ Milliseconds(w) \in Int /\ Lower(x) \in Int /\ Upper(x) \in Int
         /\ Lower(x) <= Milliseconds(w) /\ Milliseconds(w) <= Upper(x)
         /\ Upper(x) >= Scale(1) /\ Scale(1) \in Nat
         /\ ~NoSuchYear(Decode(x)) /\ x % 4 = 1
         /\ Representable(Lower(x)) =>
              \E a : /\ Timed(a) /\ Milliseconds(a) = Lower(x) /\ LowerBound(x) = Encode(a)
                     /\ a.forward = 0 /\ a.reverse = ResolutionMask
         /\ Representable(Upper(x)) =>
              \E b : /\ Timed(b) /\ Milliseconds(b) = Upper(x) /\ UpperBound(x) = Encode(b)
                     /\ b.forward = ResolutionMask /\ b.reverse = ResolutionMask /\ b.ba = 1
<1>1. Decode(x) = w /\ x % 4 = 1
  BY EncodedTime
<1>2. /\ Milliseconds(w) \in Int /\ Scale(1) \in Nat /\ Milliseconds(w) >= Scale(1)
      /\ w \in Words /\ w.type = 1
  BY TimeParts
<1>3. MillisecondsAt[w.reverse] \in Nat /\ MillisecondsAt[w.forward] \in Nat
  BY ResolutionsDescend
<1>4. /\ Lower(x) = Milliseconds(w) - MillisecondsAt[w.reverse]
      /\ Upper(x) = Milliseconds(w) + MillisecondsAt[w.forward]
  BY <1>1 DEF Lower, Upper
<1>5. /\ Lower(x) \in Int /\ Upper(x) \in Int
      /\ Lower(x) <= Milliseconds(w) /\ Milliseconds(w) <= Upper(x) /\ Upper(x) >= Scale(1)
  BY <1>2, <1>3, <1>4
<1>6. 0 \in 0 .. ResolutionMask /\ ResolutionMask \in 0 .. ResolutionMask
  BY MaskIsNat
<1>8. ASSUME Representable(Lower(x))
      PROVE  \E a : /\ Timed(a) /\ Milliseconds(a) = Lower(x) /\ LowerBound(x) = Encode(a)
                    /\ a.forward = 0 /\ a.reverse = ResolutionMask
  <2> DEFINE a == Reached(FromMilliseconds(w, Lower(x)), 0, ResolutionMask)
  <2>1. /\ Timed(a) /\ Milliseconds(a) = Lower(x) /\ a.forward = 0 /\ a.reverse = ResolutionMask
    BY <1>2, <1>5, <1>6, <1>8, SetAndReached
  <2>2. LowerBound(x) = Encode(a)
    BY <1>1 DEF LowerBound, Reached
  <2> HIDE DEF a
  <2> QED
    BY <2>1, <2>2
<1>9. ASSUME Representable(Upper(x))
      PROVE  \E b : /\ Timed(b) /\ Milliseconds(b) = Upper(x) /\ UpperBound(x) = Encode(b)
                    /\ b.forward = ResolutionMask /\ b.reverse = ResolutionMask /\ b.ba = 1
  <2> DEFINE b == Reached(FromMilliseconds(w, Upper(x)), ResolutionMask, ResolutionMask)
  <2>1. /\ Timed(b) /\ Milliseconds(b) = Upper(x) /\ b.forward = ResolutionMask
        /\ b.reverse = ResolutionMask /\ b.ba = IF Upper(x) < Scale(1) THEN 0 ELSE 1
    BY <1>2, <1>5, <1>6, <1>9, SetAndReached
  <2>2. UpperBound(x) = Encode(b)
    BY <1>1 DEF UpperBound, Reached
  <2> HIDE DEF b
  <2>3. b.ba = 1
    BY <1>2, <1>5, <2>1
  <2> QED
    BY <2>1, <2>2, <2>3
<1>10. ~NoSuchYear(Decode(x))
  BY <1>1 DEF Timed
<1> QED
  BY <1>1, <1>2, <1>4, <1>5, <1>8, <1>9, <1>10

\* The masked comparison of two packed times answers whether they meet.
LEMMA OverlapMeans ==
  ASSUME NEW w, Timed(w), w.ba = 1, NEW x, x = Encode(w),
         w.forward \in 0 .. MaxResolution + 1, w.reverse \in 0 .. MaxResolution + 1,
         NEW v, Timed(v), v.ba = 1, NEW y, y = Encode(v),
         v.forward \in 0 .. MaxResolution + 1, v.reverse \in 0 .. MaxResolution + 1,
         CanOverlap(x, y)
  PROVE  Overlap(x, y) <=> Meet(x, y)
<1>1. /\ Representable(Lower(x)) /\ Representable(Upper(x))
      /\ Representable(Lower(y)) /\ Representable(Upper(y))
  BY DEF CanOverlap, HasBounds
<1>2. /\ \E a : /\ Timed(a) /\ Milliseconds(a) = Lower(x) /\ LowerBound(x) = Encode(a)
                /\ a.forward = 0 /\ a.reverse = ResolutionMask
      /\ \E b : /\ Timed(b) /\ Milliseconds(b) = Upper(x) /\ UpperBound(x) = Encode(b)
                /\ b.forward = ResolutionMask /\ b.reverse = ResolutionMask /\ b.ba = 1
      /\ Lower(x) \in Int /\ Upper(x) \in Int
  BY <1>1, BoundsAreTimes
<1>3. /\ \E a : /\ Timed(a) /\ Milliseconds(a) = Lower(y) /\ LowerBound(y) = Encode(a)
                /\ a.forward = 0 /\ a.reverse = ResolutionMask
      /\ \E b : /\ Timed(b) /\ Milliseconds(b) = Upper(y) /\ UpperBound(y) = Encode(b)
                /\ b.forward = ResolutionMask /\ b.reverse = ResolutionMask /\ b.ba = 1
      /\ Lower(y) \in Int /\ Upper(y) \in Int
  BY <1>1, BoundsAreTimes
<1>4. PICK a : /\ Timed(a) /\ Milliseconds(a) = Lower(x) /\ LowerBound(x) = Encode(a)
               /\ a.forward = 0 /\ a.reverse = ResolutionMask
  BY <1>2
<1>5. PICK b : /\ Timed(b) /\ Milliseconds(b) = Upper(x) /\ UpperBound(x) = Encode(b)
               /\ b.forward = ResolutionMask /\ b.reverse = ResolutionMask /\ b.ba = 1
  BY <1>2
<1>6. PICK c : /\ Timed(c) /\ Milliseconds(c) = Lower(y) /\ LowerBound(y) = Encode(c)
               /\ c.forward = 0 /\ c.reverse = ResolutionMask
  BY <1>3
<1>7. PICK d : /\ Timed(d) /\ Milliseconds(d) = Upper(y) /\ UpperBound(y) = Encode(d)
               /\ d.forward = ResolutionMask /\ d.reverse = ResolutionMask /\ d.ba = 1
  BY <1>3
<1>8. 0 <= ResolutionMask
  BY MaskIsNat
<1>9. /\ Masked(Encode(a)) <= Masked(Encode(d)) <=> Milliseconds(a) <= Milliseconds(d)
      /\ Masked(Encode(a)) \in Int /\ Masked(Encode(d)) \in Int
  <2>1. a.forward <= d.forward
    BY <1>4, <1>7, <1>8
  <2> QED
    BY <1>4, <1>7, <2>1, BoundsCompare
<1>10. /\ Masked(Encode(c)) <= Masked(Encode(b)) <=> Milliseconds(c) <= Milliseconds(b)
       /\ Masked(Encode(c)) \in Int /\ Masked(Encode(b)) \in Int
  <2>1. c.forward <= b.forward
    BY <1>5, <1>6, <1>8
  <2> QED
    BY <1>5, <1>6, <2>1, BoundsCompare
<1>11. Overlap(x, y) <=> /\ Masked(Encode(a)) <= Masked(Encode(d))
                         /\ Masked(Encode(b)) >= Masked(Encode(c))
  BY <1>4, <1>5, <1>6, <1>7 DEF Overlap
<1>12. Masked(Encode(b)) >= Masked(Encode(c)) <=> Masked(Encode(c)) <= Masked(Encode(b))
  BY <1>10
<1>13. Meet(x, y) <=> Milliseconds(a) <= Milliseconds(d) /\ Milliseconds(c) <= Milliseconds(b)
  BY <1>4, <1>5, <1>6, <1>7 DEF Meet
<1> QED
  BY <1>9, <1>10, <1>11, <1>12, <1>13

-----------------------------------------------------------------------------
(***************************************************************************)
(* Values that reach their neighbours.  The search for a resolution stops  *)
(* short of the distance by less than one step, and a value that misses its*)
(* neighbour by more than a millisecond is made one step coarser.          *)
(***************************************************************************)
\* What a time after the start is packed into.
IsTime(x) == Timed(Decode(x)) /\ Decode(x).ba = 1 /\ Encode(Decode(x)) = x

\* Resolutions as the search for them finds them.
Found(w) == w.forward \in 0 .. MaxResolution + 1 /\ w.reverse \in 0 .. MaxResolution + 1

\* The two ways to reach a neighbour d milliseconds away.
StopsShort(r, d) == MillisecondsAt[r] <= d /\ (r > 0 => MillisecondsAt[r - 1] > d)

JustReaches(r, d) ==
  /\ r > 0 => MillisecondsAt[r] + 1 >= d
  /\ r < MaxResolution => MillisecondsAt[r + 1] < d

LEMMA EncodedIsTime ==
  ASSUME NEW w, Timed(w), w.ba = 1
  PROVE  /\ IsTime(Encode(w)) /\ Decode(Encode(w)) = w
         /\ Millis(Encode(w)) = Milliseconds(w)
         /\ Encode(w) \in Int /\ Encode(w) > 0
         /\ ForwardResolution(Encode(w)) = w.forward
         /\ ReverseResolution(Encode(w)) = w.reverse
<1>1. /\ Encode(w) \in Int /\ Encode(w) > 0 /\ Decode(Encode(w)) = w
      /\ ForwardResolution(Encode(w)) = w.forward
      /\ ReverseResolution(Encode(w)) = w.reverse
  BY EncodedTime
<1>2. Millis(Encode(w)) = Milliseconds(w)
  BY <1>1 DEF Millis
<1> QED
  BY <1>1, <1>2 DEF IsTime

\* A packed time whose resolutions are replaced, or one of them in place.
LEMMA TimeReached ==
  ASSUME NEW w, Timed(w), w.ba = 1, NEW f, f \in 0 .. ResolutionMask,
         NEW r, r \in 0 .. ResolutionMask
  PROVE  /\ Timed(Reached(w, f, r)) /\ Reached(w, f, r).ba = 1
         /\ Milliseconds(Reached(w, f, r)) = Milliseconds(w)
         /\ Reached(w, f, r).forward = f /\ Reached(w, f, r).reverse = r
         /\ SetForward(Encode(w), f) = Encode(Reached(w, f, w.reverse))
         /\ SetReverse(Encode(w), r) = Encode(Reached(w, w.forward, r))
<1>1. Sound(w)
  BY DEF Timed
<1>2. Timed(Reached(w, f, r)) /\ Milliseconds(Reached(w, f, r)) = Milliseconds(w)
  BY <1>1, ReachKeepsTime
<1>3. Reached(w, f, r).ba = w.ba /\ Reached(w, f, r).forward = f /\ Reached(w, f, r).reverse = r
  BY <1>1, ReachedParts
<1>4. SetForward(Encode(w), f) = Encode(Reached(w, f, w.reverse))
      /\ SetReverse(Encode(w), r) = Encode(Reached(w, w.forward, r))
  BY ReachSetInPlace
<1> QED
  BY <1>2, <1>3, <1>4

\* An instant: as wide as the finest resolution.
LEMMA InstantIs ==
  ASSUME NEW v, Timed(v), v.ba = 1
  PROVE  \E u : /\ Timed(u) /\ u.ba = 1 /\ AsInstant(Encode(v)) = Encode(u)
                /\ Milliseconds(u) = Milliseconds(v)
                /\ u.forward = MaxResolution /\ u.reverse = MaxResolution
<1>1. MaxResolution \in 0 .. ResolutionMask
  BY ResolutionFacts
<1>2. v \in Words /\ v.forward \in 0 .. ResolutionMask
  BY WordParts DEF Timed, Sound
<1> DEFINE a == Reached(v, v.forward, MaxResolution)
           u == Reached(a, MaxResolution, MaxResolution)
<1>3. Timed(a) /\ a.ba = 1 /\ Milliseconds(a) = Milliseconds(v) /\ a.reverse = MaxResolution
      /\ SetReverse(Encode(v), MaxResolution) = Encode(a)
  BY <1>1, <1>2, TimeReached
<1> HIDE DEF a
<1>4. Timed(u) /\ u.ba = 1 /\ Milliseconds(u) = Milliseconds(a)
      /\ u.forward = MaxResolution /\ u.reverse = MaxResolution
      /\ SetForward(Encode(a), MaxResolution) = Encode(Reached(a, MaxResolution, a.reverse))
  BY <1>1, <1>3, TimeReached
<1>5. AsInstant(Encode(v)) = Encode(u)
  BY <1>3, <1>4 DEF AsInstant
<1> HIDE DEF u
<1> QED
  BY <1>3, <1>4, <1>5

\* A value contains an instant when it reaches to within a millisecond of it.
LEMMA ContainsMeans ==
  ASSUME NEW w, Timed(w), w.ba = 1, Found(w), NEW v, Timed(v), v.ba = 1,
         CanContain(Encode(w), Encode(v))
  PROVE  ContainsInstant(Encode(w), Encode(v)) <=>
           /\ Milliseconds(w) - MillisecondsAt[w.reverse] <= Milliseconds(v) + 1
           /\ Milliseconds(v) - 1 <= Milliseconds(w) + MillisecondsAt[w.forward]
<1>1. PICK u : /\ Timed(u) /\ u.ba = 1 /\ AsInstant(Encode(v)) = Encode(u)
               /\ Milliseconds(u) = Milliseconds(v)
               /\ u.forward = MaxResolution /\ u.reverse = MaxResolution
  BY InstantIs
<1>2. MaxResolution \in 0 .. MaxResolution + 1
  BY ResolutionFacts
<1>3. u.forward \in 0 .. MaxResolution + 1 /\ u.reverse \in 0 .. MaxResolution + 1
      /\ w.forward \in 0 .. MaxResolution + 1 /\ w.reverse \in 0 .. MaxResolution + 1
  BY <1>1, <1>2 DEF Found
<1>4. CanOverlap(Encode(w), Encode(u))
  BY <1>1 DEF CanContain
<1>5. Overlap(Encode(w), Encode(u)) <=> Meet(Encode(w), Encode(u))
  BY <1>1, <1>3, <1>4, OverlapMeans
<1>6. /\ Lower(Encode(w)) = Milliseconds(w) - MillisecondsAt[w.reverse]
      /\ Upper(Encode(w)) = Milliseconds(w) + MillisecondsAt[w.forward]
  BY <1>3, BoundsAreTimes
<1>7. /\ Lower(Encode(u)) = Milliseconds(u) - MillisecondsAt[u.reverse]
      /\ Upper(Encode(u)) = Milliseconds(u) + MillisecondsAt[u.forward]
  BY <1>1, <1>3, BoundsAreTimes
<1>8. MillisecondsAt[MaxResolution] = 1
  BY ResolutionsDescend
<1>9. ContainsInstant(Encode(w), Encode(v)) <=> Meet(Encode(w), Encode(u))
  BY <1>1, <1>5 DEF ContainsInstant
<1> QED
  BY <1>1, <1>6, <1>7, <1>8, <1>9 DEF Meet

\* A resolution that does not reach is made one coarser, and that one does.
LEMMA FoundFits ==
  ASSUME NEW d \in Nat
  PROVE  LET r == Resolve(d)
         IN  /\ r \in 0 .. MaxResolution + 1
             /\ StopsShort(r, d)
             /\ MillisecondsAt[r] + 1 >= d => JustReaches(r, d)
             /\ MillisecondsAt[r] + 1 < d =>
                  /\ MaxOf(r - 1, 0) \in 0 .. MaxResolution + 1
                  /\ JustReaches(MaxOf(r - 1, 0), d)
<1> DEFINE r == Resolve(d)
<1>1. /\ r \in 0 .. MaxResolution + 1
      /\ MillisecondsAt[r] <= d
      /\ r > 0 => d < MillisecondsAt[r - 1]
  BY ResolveFits
<1> HIDE DEF r
<1>2. MaxResolution \in Nat /\ r \in Nat
  BY <1>1, ResolutionFacts
<1>3. /\ \A s \in 0 .. MaxResolution + 1 : MillisecondsAt[s] \in Nat
      /\ \A s \in 0 .. MaxResolution : MillisecondsAt[s + 1] < MillisecondsAt[s]
  BY ResolutionsDescend
<1>4. MillisecondsAt[r] \in Nat
  BY <1>1, <1>3
<1>5. r > 0 => MillisecondsAt[r - 1] \in Nat /\ r - 1 \in 0 .. MaxResolution
  <2> SUFFICES ASSUME r > 0 PROVE MillisecondsAt[r - 1] \in Nat /\ r - 1 \in 0 .. MaxResolution
    OBVIOUS
  <2>1. r - 1 \in 0 .. MaxResolution /\ r - 1 \in 0 .. MaxResolution + 1
    BY <1>1, <1>2
  <2> QED
    BY <1>3, <2>1
<1>6. r < MaxResolution => MillisecondsAt[r + 1] \in Nat /\ MillisecondsAt[r + 1] < d
  <2> SUFFICES ASSUME r < MaxResolution
               PROVE  MillisecondsAt[r + 1] \in Nat /\ MillisecondsAt[r + 1] < d
    OBVIOUS
  <2>1. r \in 0 .. MaxResolution /\ r + 1 \in 0 .. MaxResolution + 1
    BY <1>2
  <2>2. MillisecondsAt[r + 1] \in Nat /\ MillisecondsAt[r + 1] < MillisecondsAt[r]
    BY <1>3, <2>1
  <2> QED
    BY <1>1, <1>4, <2>2
<1>7. StopsShort(r, d)
  BY <1>1, <1>5 DEF StopsShort, JustReaches
<1>8. MillisecondsAt[r] + 1 >= d => JustReaches(r, d)
  BY <1>6 DEF StopsShort, JustReaches
<1>9. ASSUME MillisecondsAt[r] + 1 < d
      PROVE  /\ MaxOf(r - 1, 0) \in 0 .. MaxResolution + 1
             /\ JustReaches(MaxOf(r - 1, 0), d)
  <2>1. CASE r = 0
    <3>1. MaxOf(r - 1, 0) = 0
      BY <2>1 DEF MaxOf
    <3>2. JustReaches(0, d)
      BY <1>6, <2>1 DEF StopsShort, JustReaches
    <3> QED
      BY <1>2, <3>1, <3>2
  <2>2. CASE r > 0
    <3>1. MaxOf(r - 1, 0) = r - 1 /\ (r - 1) + 1 = r
      BY <1>2, <2>2 DEF MaxOf
    <3>2. d < MillisecondsAt[r - 1] /\ MillisecondsAt[r - 1] \in Nat
      BY <1>1, <1>5, <2>2
    <3>3. MillisecondsAt[r - 1] + 1 >= d /\ MillisecondsAt[r] < d
      BY <1>4, <1>9, <3>2
    <3>4. JustReaches(r - 1, d)
      BY <3>1, <3>3 DEF StopsShort, JustReaches
    <3> QED
      BY <1>1, <1>2, <2>2, <3>1, <3>4
  <2> QED
    BY <1>2, <2>1, <2>2
<1> QED
  BY <1>1, <1>7, <1>8, <1>9 DEF r

\* A word that reaches as far as it does is the same.
LEMMA ReachedSame ==
  ASSUME NEW w, Timed(w)
  PROVE  Reached(w, w.forward, w.reverse) = w
<1>1. w \in Words
  BY DEF Timed, Sound
<1> QED
  BY <1>1, ReachedIs, WordParts

\* The last reach counts.
LEMMA ReachedTwice ==
  ASSUME NEW w \in Words, NEW v, NEW f, NEW r, v = Reached(w, f, r), v \in Words, NEW g, NEW s
  PROVE  Reached(v, g, s) = Reached(w, g, s)
<1>1. v = [ba |-> w.ba, field |-> w.field, forward |-> f, reverse |-> r, type |-> w.type]
  BY ReachedIs
<1>2. v.ba = w.ba /\ v.field = w.field /\ v.type = w.type
  BY <1>1
<1>3. Reached(v, g, s) = [ba |-> v.ba, field |-> v.field, forward |-> g, reverse |-> s,
                          type |-> v.type]
  BY ReachedIs
<1>4. Reached(w, g, s) = [ba |-> w.ba, field |-> w.field, forward |-> g, reverse |-> s,
                          type |-> w.type]
  BY ReachedIs
<1> QED
  BY <1>2, <1>3, <1>4

\* A neighbour that is missed by more than a millisecond is gone one step towards.
LEMMA ReachLowerSteps ==
  ASSUME NEW w, Timed(w), w.ba = 1, Found(w), NEW v, Timed(v), v.ba = 1,
         Milliseconds(v) <= Milliseconds(w), ReachLower(Encode(w), Encode(v)) # Throws
  PROVE  \E r : /\ r \in 0 .. MaxResolution + 1
                /\ r = IF MillisecondsAt[w.reverse] + 1 >= Milliseconds(w) - Milliseconds(v)
                       THEN w.reverse ELSE MaxOf(w.reverse - 1, 0)
                /\ ReachLower(Encode(w), Encode(v)) = Encode(Reached(w, w.forward, r))
<1> DEFINE x == Encode(w)
           y == Encode(v)
           d == Milliseconds(w) - Milliseconds(v)
           s == w.reverse
           r == IF MillisecondsAt[s] + 1 >= d THEN s ELSE MaxOf(s - 1, 0)
<1>1. Milliseconds(w) \in Int /\ Milliseconds(v) \in Int
  BY TimeParts
<1>2. d \in Nat
  BY <1>1
<1>3. s \in 0 .. MaxResolution + 1 /\ MaxResolution \in Nat
      /\ MaxResolution + 1 <= ResolutionMask /\ ResolutionMask \in Nat
  BY ResolutionFacts DEF Found
<1>4. r \in 0 .. MaxResolution + 1 /\ r \in 0 .. ResolutionMask
  <2> HIDE DEF s, d
  <2>1. MaxOf(s - 1, 0) \in 0 .. MaxResolution + 1
    BY <1>3 DEF MaxOf
  <2> QED
    BY <1>3, <2>1
<1>5. ~(y < 0) /\ ReverseResolution(x) = s
  <2>1. y > 0 /\ y \in Int /\ x > 0 /\ x \in Int
    BY EncodedTime
  <2>2. ReverseResolution(x) = s
    BY EncodedTime
  <2> QED
    BY <2>1, <2>2 DEF Throws
<1>6. CanContain(x, y)
  BY <1>5 DEF ReachLower
<1>7. MillisecondsAt[w.reverse] \in Nat /\ MillisecondsAt[w.forward] \in Nat
  BY ResolutionsDescend DEF Found
<1>8. ContainsInstant(x, y) <=> MillisecondsAt[s] + 1 >= d
  <2>1. ContainsInstant(x, y) <=>
           /\ Milliseconds(w) - MillisecondsAt[w.reverse] <= Milliseconds(v) + 1
           /\ Milliseconds(v) - 1 <= Milliseconds(w) + MillisecondsAt[w.forward]
    BY <1>6, ContainsMeans
  <2> QED
    BY <1>1, <1>7, <2>1
<1>9. CASE ContainsInstant(x, y)
  <2>1. ReachLower(x, y) = x
    BY <1>5, <1>6, <1>9 DEF ReachLower
  <2>2. r = s
    BY <1>8, <1>9
  <2>3. x = Encode(Reached(w, w.forward, s))
    BY ReachedSame
  <2> QED
    BY <1>4, <2>1, <2>2, <2>3
<1>10. CASE ~ContainsInstant(x, y)
  <2>1. r = MaxOf(s - 1, 0)
    BY <1>8, <1>10
  <2>2. ReachLower(x, y) = SetReverse(x, r)
    BY <1>5, <1>6, <1>10, <2>1 DEF ReachLower
  <2> HIDE DEF r
  <2>3. SetReverse(x, r) = Encode(Reached(w, w.forward, r))
    BY <1>4, ReachSetInPlace
  <2> QED
    BY <1>4, <2>2, <2>3 DEF r
<1> QED
  BY <1>9, <1>10

\* The lower neighbour is reached, once the value is made at all.
LEMMA ReachLowerIs ==
  ASSUME NEW w, Timed(w), w.ba = 1, Found(w), NEW v, Timed(v), v.ba = 1,
         Milliseconds(v) <= Milliseconds(w),
         w.reverse = Resolve(Milliseconds(w) - Milliseconds(v)),
         ReachLower(Encode(w), Encode(v)) # Throws
  PROVE  \E r : /\ r \in 0 .. MaxResolution + 1
                /\ JustReaches(r, Milliseconds(w) - Milliseconds(v))
                /\ ReachLower(Encode(w), Encode(v)) = Encode(Reached(w, w.forward, r))
<1> DEFINE d == Milliseconds(w) - Milliseconds(v)
           s == w.reverse
<1>1. PICK r : /\ r \in 0 .. MaxResolution + 1
               /\ r = IF MillisecondsAt[s] + 1 >= d THEN s ELSE MaxOf(s - 1, 0)
               /\ ReachLower(Encode(w), Encode(v)) = Encode(Reached(w, w.forward, r))
  BY ReachLowerSteps
<1>2. d \in Nat
  <2>1. Milliseconds(w) \in Int /\ Milliseconds(v) \in Int
    BY TimeParts
  <2> QED
    BY <2>1
<1>3. s = Resolve(d) /\ MillisecondsAt[s] \in Nat
  BY ResolutionsDescend DEF Found
<1> HIDE DEF d, s
<1>4. /\ MillisecondsAt[s] + 1 >= d => JustReaches(s, d)
      /\ MillisecondsAt[s] + 1 < d => JustReaches(MaxOf(s - 1, 0), d)
  BY <1>2, <1>3, FoundFits
<1>5. JustReaches(r, d)
  BY <1>1, <1>2, <1>3, <1>4
<1> QED
  BY <1>1, <1>5 DEF d

\* A neighbour that is missed by more than a millisecond is gone one step towards.
LEMMA ReachUpperSteps ==
  ASSUME NEW w, Timed(w), w.ba = 1, Found(w), NEW v, Timed(v), v.ba = 1,
         Milliseconds(w) <= Milliseconds(v), ReachUpper(Encode(w), Encode(v)) # Throws
  PROVE  \E r : /\ r \in 0 .. MaxResolution + 1
                /\ r = IF MillisecondsAt[w.forward] + 1 >= Milliseconds(v) - Milliseconds(w)
                       THEN w.forward ELSE MaxOf(w.forward - 1, 0)
                /\ ReachUpper(Encode(w), Encode(v)) = Encode(Reached(w, r, w.reverse))
<1> DEFINE x == Encode(w)
           y == Encode(v)
           d == Milliseconds(v) - Milliseconds(w)
           s == w.forward
           r == IF MillisecondsAt[s] + 1 >= d THEN s ELSE MaxOf(s - 1, 0)
<1>1. Milliseconds(w) \in Int /\ Milliseconds(v) \in Int
  BY TimeParts
<1>2. d \in Nat
  BY <1>1
<1>3. s \in 0 .. MaxResolution + 1 /\ MaxResolution \in Nat
      /\ MaxResolution + 1 <= ResolutionMask /\ ResolutionMask \in Nat
  BY ResolutionFacts DEF Found
<1>4. r \in 0 .. MaxResolution + 1 /\ r \in 0 .. ResolutionMask
  <2> HIDE DEF s, d
  <2>1. MaxOf(s - 1, 0) \in 0 .. MaxResolution + 1
    BY <1>3 DEF MaxOf
  <2> QED
    BY <1>3, <2>1
<1>5. ~(y < 0) /\ ForwardResolution(x) = s /\ x # Throws
  <2>1. y > 0 /\ y \in Int /\ x > 0 /\ x \in Int
    BY EncodedTime
  <2>2. ForwardResolution(x) = s
    BY EncodedTime
  <2> QED
    BY <2>1, <2>2 DEF Throws
<1>6. CanContain(x, y)
  BY <1>5 DEF ReachUpper
<1>7. MillisecondsAt[w.reverse] \in Nat /\ MillisecondsAt[w.forward] \in Nat
  BY ResolutionsDescend DEF Found
<1>8. ContainsInstant(x, y) <=> MillisecondsAt[s] + 1 >= d
  <2>1. ContainsInstant(x, y) <=>
           /\ Milliseconds(w) - MillisecondsAt[w.reverse] <= Milliseconds(v) + 1
           /\ Milliseconds(v) - 1 <= Milliseconds(w) + MillisecondsAt[w.forward]
    BY <1>6, ContainsMeans
  <2> QED
    BY <1>1, <1>7, <2>1
<1>9. CASE ContainsInstant(x, y)
  <2>1. ReachUpper(x, y) = x
    BY <1>5, <1>6, <1>9 DEF ReachUpper
  <2>2. r = s
    BY <1>8, <1>9
  <2>3. x = Encode(Reached(w, s, w.reverse))
    BY ReachedSame
  <2> QED
    BY <1>4, <2>1, <2>2, <2>3
<1>10. CASE ~ContainsInstant(x, y)
  <2>1. r = MaxOf(s - 1, 0)
    BY <1>8, <1>10
  <2>2. ReachUpper(x, y) = SetForward(x, r)
    BY <1>5, <1>6, <1>10, <2>1 DEF ReachUpper
  <2> HIDE DEF r
  <2>3. SetForward(x, r) = Encode(Reached(w, r, w.reverse))
    BY <1>4, ReachSetInPlace
  <2> QED
    BY <1>4, <2>2, <2>3 DEF r
<1> QED
  BY <1>9, <1>10

\* The upper neighbour is reached, once the value is made at all.
LEMMA ReachUpperIs ==
  ASSUME NEW w, Timed(w), w.ba = 1, Found(w), NEW v, Timed(v), v.ba = 1,
         Milliseconds(w) <= Milliseconds(v),
         w.forward = Resolve(Milliseconds(v) - Milliseconds(w)),
         ReachUpper(Encode(w), Encode(v)) # Throws
  PROVE  \E r : /\ r \in 0 .. MaxResolution + 1
                /\ JustReaches(r, Milliseconds(v) - Milliseconds(w))
                /\ ReachUpper(Encode(w), Encode(v)) = Encode(Reached(w, r, w.reverse))
<1> DEFINE d == Milliseconds(v) - Milliseconds(w)
           s == w.forward
<1>1. PICK r : /\ r \in 0 .. MaxResolution + 1
               /\ r = IF MillisecondsAt[s] + 1 >= d THEN s ELSE MaxOf(s - 1, 0)
               /\ ReachUpper(Encode(w), Encode(v)) = Encode(Reached(w, r, w.reverse))
  BY ReachUpperSteps
<1>2. d \in Nat
  <2>1. Milliseconds(w) \in Int /\ Milliseconds(v) \in Int
    BY TimeParts
  <2> QED
    BY <2>1
<1>3. s = Resolve(d) /\ MillisecondsAt[s] \in Nat
  BY ResolutionsDescend DEF Found
<1> HIDE DEF d, s
<1>4. /\ MillisecondsAt[s] + 1 >= d => JustReaches(s, d)
      /\ MillisecondsAt[s] + 1 < d => JustReaches(MaxOf(s - 1, 0), d)
  BY <1>2, <1>3, FoundFits
<1>5. JustReaches(r, d)
  BY <1>1, <1>2, <1>3, <1>4
<1> QED
  BY <1>1, <1>5 DEF d

\* The neighbours a value can have: none, or one no later or no earlier.
Below(x, ms) == x = -1 \/ (IsTime(x) /\ Millis(x) <= ms)
Above(x, ms) == x = -1 \/ (IsTime(x) /\ ms <= Millis(x))

\* A packed time and the word it is packed from.
LEMMA TimeIs ==
  ASSUME NEW x, IsTime(x)
  PROVE  /\ Timed(Decode(x)) /\ Decode(x).ba = 1 /\ Encode(Decode(x)) = x
         /\ Millis(x) = Milliseconds(Decode(x)) /\ Millis(x) \in Int
         /\ x \in Int /\ x > 0 /\ ~(x < 0) /\ x # -1 /\ x # Throws
         /\ ForwardResolution(x) = Decode(x).forward
         /\ ReverseResolution(x) = Decode(x).reverse
<1>1. Timed(Decode(x)) /\ Decode(x).ba = 1 /\ Encode(Decode(x)) = x
  BY DEF IsTime
<1>2. Millis(x) = Milliseconds(Decode(x)) /\ Millis(x) \in Int
  BY <1>1, TimeParts DEF Millis
<1>3. Encode(Decode(x)) \in Int /\ Encode(Decode(x)) > 0
      /\ ForwardResolution(Encode(Decode(x))) = Decode(x).forward
      /\ ReverseResolution(Encode(Decode(x))) = Decode(x).reverse
  BY <1>1, EncodedIsTime
<1>4. x \in Int /\ x > 0
      /\ ForwardResolution(x) = Decode(x).forward
      /\ ReverseResolution(x) = Decode(x).reverse
  BY <1>1, <1>3
<1>5. ~(x < 0) /\ x # -1 /\ x # Throws
  BY <1>4 DEF Throws
<1> QED
  BY <1>1, <1>2, <1>4, <1>5

\* The value around t has the resolutions found for its neighbours.
LEMMA AroundIs ==
  ASSUME NEW w, Timed(w), w.ba = 1,
         NEW lower, Below(lower, Milliseconds(w)), NEW upper, Above(upper, Milliseconds(w))
  PROVE  \E f, r :
           /\ f \in 0 .. MaxResolution + 1 /\ r \in 0 .. MaxResolution + 1
           /\ Around(lower, Encode(w), upper) = Encode(Reached(w, f, r))
           /\ IF lower = -1 THEN r = MaxResolution
              ELSE /\ r = Resolve(Milliseconds(w) - Millis(lower))
                   /\ StopsShort(r, Milliseconds(w) - Millis(lower))
           /\ IF upper = -1 THEN f = MaxResolution
              ELSE /\ f = Resolve(Millis(upper) - Milliseconds(w))
                   /\ StopsShort(f, Millis(upper) - Milliseconds(w))
<1> DEFINE ms == Milliseconds(w)
           r == IF lower < 0 THEN MaxResolution ELSE Resolve(ms - Millis(lower))
           f == IF upper < 0 THEN MaxResolution ELSE Resolve(Millis(upper) - ms)
<1>1. Decode(Encode(w)) = w /\ w \in Words
  BY EncodedIsTime DEF Timed, Sound
<1>2. Around(lower, Encode(w), upper) = Encode(ReachedBackFirst(w, f, r))
  BY <1>1 DEF Around, ReachedBackFirst, Millis
<1> HIDE DEF f, r
<1>3. ReachedBackFirst(w, f, r) = Reached(w, f, r)
  BY <1>1, ReachedIs
<1>4. MaxResolution \in 0 .. MaxResolution + 1 /\ ms \in Int /\ -1 < 0
  BY ResolutionFacts, TimeParts
<1> HIDE DEF ms
<1>5. /\ r \in 0 .. MaxResolution + 1
      /\ IF lower = -1 THEN r = MaxResolution
         ELSE r = Resolve(ms - Millis(lower)) /\ StopsShort(r, ms - Millis(lower))
  <2>1. CASE lower = -1
    BY <1>4, <2>1 DEF r
  <2>2. CASE lower # -1
    <3>1. IsTime(lower) /\ Millis(lower) <= ms
      BY <2>2 DEF Below, ms
    <3>2. Millis(lower) \in Int /\ ~(lower < 0)
      BY <3>1, TimeIs
    <3>3. ms - Millis(lower) \in Nat /\ r = Resolve(ms - Millis(lower))
      BY <1>4, <3>1, <3>2 DEF r
    <3>4. Resolve(ms - Millis(lower)) \in 0 .. MaxResolution + 1
          /\ StopsShort(Resolve(ms - Millis(lower)), ms - Millis(lower))
      BY <3>3, FoundFits
    <3> QED
      BY <2>2, <3>3, <3>4
  <2> QED
    BY <2>1, <2>2
<1>6. /\ f \in 0 .. MaxResolution + 1
      /\ IF upper = -1 THEN f = MaxResolution
         ELSE f = Resolve(Millis(upper) - ms) /\ StopsShort(f, Millis(upper) - ms)
  <2>1. CASE upper = -1
    BY <1>4, <2>1 DEF f
  <2>2. CASE upper # -1
    <3>1. IsTime(upper) /\ ms <= Millis(upper)
      BY <2>2 DEF Above, ms
    <3>2. Millis(upper) \in Int /\ ~(upper < 0)
      BY <3>1, TimeIs
    <3>3. Millis(upper) - ms \in Nat /\ f = Resolve(Millis(upper) - ms)
      BY <1>4, <3>1, <3>2 DEF f
    <3>4. Resolve(Millis(upper) - ms) \in 0 .. MaxResolution + 1
          /\ StopsShort(Resolve(Millis(upper) - ms), Millis(upper) - ms)
      BY <3>3, FoundFits
    <3> QED
      BY <2>2, <3>3, <3>4
  <2> QED
    BY <2>1, <2>2
<1> QED
  BY <1>2, <1>3, <1>5, <1>6 DEF ms

\* The value around t, stretched to what neighbours it has.
LEMMA StretchedIs ==
  ASSUME NEW w, Timed(w), w.ba = 1,
         NEW lower, Below(lower, Milliseconds(w)), NEW upper, Above(upper, Milliseconds(w)),
         NEW z, z = ReachUpper(ReachLower(Around(lower, Encode(w), upper), lower), upper),
         z # Throws
  PROVE  \E f, r :
           /\ f \in 0 .. MaxResolution + 1 /\ r \in 0 .. MaxResolution + 1
           /\ z = Encode(Reached(w, f, r))
           /\ IF lower = -1 THEN r = MaxResolution
              ELSE JustReaches(r, Milliseconds(w) - Millis(lower))
           /\ IF upper = -1 THEN f = MaxResolution
              ELSE JustReaches(f, Millis(upper) - Milliseconds(w))
<1> DEFINE ms == Milliseconds(w)
           x == Around(lower, Encode(w), upper)
           y == ReachLower(x, lower)
<1>1. PICK f, r :
        /\ f \in 0 .. MaxResolution + 1 /\ r \in 0 .. MaxResolution + 1
        /\ Around(lower, Encode(w), upper) = Encode(Reached(w, f, r))
        /\ IF lower = -1 THEN r = MaxResolution
           ELSE /\ r = Resolve(Milliseconds(w) - Millis(lower))
                /\ StopsShort(r, Milliseconds(w) - Millis(lower))
        /\ IF upper = -1 THEN f = MaxResolution
           ELSE /\ f = Resolve(Millis(upper) - Milliseconds(w))
                /\ StopsShort(f, Millis(upper) - Milliseconds(w))
  BY AroundIs
<1>2. w \in Words
  BY DEF Timed, Sound
<1>3. \A g \in 0 .. MaxResolution + 1 : g \in 0 .. ResolutionMask
  BY ResolutionFacts
<1>4. ASSUME NEW g, NEW s, g \in 0 .. MaxResolution + 1, s \in 0 .. MaxResolution + 1
      PROVE  /\ Timed(Reached(w, g, s)) /\ Reached(w, g, s).ba = 1
             /\ Milliseconds(Reached(w, g, s)) = ms
             /\ Reached(w, g, s).forward = g /\ Reached(w, g, s).reverse = s
             /\ Found(Reached(w, g, s)) /\ Reached(w, g, s) \in Words
             /\ Encode(Reached(w, g, s)) \in Int /\ Encode(Reached(w, g, s)) # Throws
  <2>1. g \in 0 .. ResolutionMask /\ s \in 0 .. ResolutionMask
    BY <1>3, <1>4
  <2>2. /\ Timed(Reached(w, g, s)) /\ Reached(w, g, s).ba = 1
        /\ Milliseconds(Reached(w, g, s)) = ms
        /\ Reached(w, g, s).forward = g /\ Reached(w, g, s).reverse = s
    BY <2>1, TimeReached
  <2>3. Found(Reached(w, g, s)) /\ Reached(w, g, s) \in Words
    BY <1>4, <2>2 DEF Found, Timed, Sound
  <2>4. Encode(Reached(w, g, s)) \in Int /\ Encode(Reached(w, g, s)) > 0
    BY <2>2, EncodedIsTime
  <2> QED
    BY <2>2, <2>3, <2>4 DEF Throws
<1> DEFINE u == Reached(w, f, r)
<1>5. /\ Timed(u) /\ u.ba = 1 /\ Milliseconds(u) = ms /\ u.forward = f /\ u.reverse = r
      /\ Found(u) /\ u \in Words /\ Encode(u) \in Int /\ Encode(u) # Throws /\ x = Encode(u)
  BY <1>1, <1>4
<1> HIDE DEF x, u
<1>6. y # Throws
  <2> HIDE DEF y
  <2>1. z = ReachUpper(y, upper)
    BY DEF y, x
  <2> QED
    BY <2>1 DEF ReachUpper
<1>7. \E s : /\ s \in 0 .. MaxResolution + 1 /\ y = Encode(Reached(w, f, s))
             /\ IF lower = -1 THEN s = MaxResolution ELSE JustReaches(s, ms - Millis(lower))
  <2>1. CASE lower = -1
    <3>1. y = x
      BY <2>1 DEF ReachLower
    <3>2. r = MaxResolution
      BY <1>1, <2>1
    <3> QED
      BY <1>1, <1>5, <2>1, <3>1, <3>2 DEF u
  <2>2. CASE lower # -1
    <3>1. IsTime(lower) /\ Millis(lower) <= ms
      BY <2>2 DEF Below
    <3> DEFINE v == Decode(lower)
    <3>2. Timed(v) /\ v.ba = 1 /\ Encode(v) = lower /\ Millis(lower) = Milliseconds(v)
      BY <3>1, TimeIs
    <3>3. r = Resolve(ms - Millis(lower))
      BY <1>1, <2>2
    <3> HIDE DEF v, ms
    <3>4. y = ReachLower(Encode(u), Encode(v))
      BY <1>5, <3>2
    <3>5. \E s : /\ s \in 0 .. MaxResolution + 1
                 /\ JustReaches(s, Milliseconds(u) - Milliseconds(v))
                 /\ ReachLower(Encode(u), Encode(v)) = Encode(Reached(u, u.forward, s))
      <4>1. Milliseconds(v) <= Milliseconds(u)
            /\ u.reverse = Resolve(Milliseconds(u) - Milliseconds(v))
            /\ ReachLower(Encode(u), Encode(v)) # Throws
        BY <1>5, <1>6, <3>1, <3>2, <3>3, <3>4
      <4> QED
        BY <1>5, <3>2, <4>1, ReachLowerIs
    <3>6. PICK s : /\ s \in 0 .. MaxResolution + 1
                   /\ JustReaches(s, Milliseconds(u) - Milliseconds(v))
                   /\ ReachLower(Encode(u), Encode(v)) = Encode(Reached(u, u.forward, s))
      BY <3>5
    <3>7. Reached(u, u.forward, s) = Reached(w, f, s)
      <4>1. Reached(u, f, s) = Reached(w, f, s)
        BY <1>2, <1>5, ReachedTwice DEF u
      <4> QED
        BY <1>5, <4>1
    <3> QED
      BY <1>5, <2>2, <3>2, <3>4, <3>6, <3>7
  <2> QED
    BY <2>1, <2>2
<1>8. PICK s : /\ s \in 0 .. MaxResolution + 1 /\ y = Encode(Reached(w, f, s))
               /\ IF lower = -1 THEN s = MaxResolution ELSE JustReaches(s, ms - Millis(lower))
  BY <1>7
<1> DEFINE t == Reached(w, f, s)
<1>9. /\ Timed(t) /\ t.ba = 1 /\ Milliseconds(t) = ms /\ t.forward = f /\ t.reverse = s
      /\ Found(t) /\ t \in Words /\ Encode(t) \in Int /\ Encode(t) # Throws /\ y = Encode(t)
  BY <1>1, <1>4, <1>8
<1>10. z = ReachUpper(y, upper)
  BY DEF x
<1> HIDE DEF y, t
<1>11. \E g : /\ g \in 0 .. MaxResolution + 1 /\ z = Encode(Reached(w, g, s))
              /\ IF upper = -1 THEN g = MaxResolution ELSE JustReaches(g, Millis(upper) - ms)
  <2>1. CASE upper = -1
    <3>1. z = y
      BY <1>10, <2>1 DEF ReachUpper
    <3>2. f = MaxResolution
      BY <1>1, <2>1
    <3> QED
      BY <1>1, <1>9, <2>1, <3>1, <3>2 DEF t
  <2>2. CASE upper # -1
    <3>1. IsTime(upper) /\ ms <= Millis(upper)
      BY <2>2 DEF Above
    <3> DEFINE v == Decode(upper)
    <3>2. Timed(v) /\ v.ba = 1 /\ Encode(v) = upper /\ Millis(upper) = Milliseconds(v)
      BY <3>1, TimeIs
    <3>3. f = Resolve(Millis(upper) - ms)
      BY <1>1, <2>2
    <3> HIDE DEF v, ms
    <3>4. z = ReachUpper(Encode(t), Encode(v))
      BY <1>9, <1>10, <3>2
    <3>5. \E g : /\ g \in 0 .. MaxResolution + 1
                 /\ JustReaches(g, Milliseconds(v) - Milliseconds(t))
                 /\ ReachUpper(Encode(t), Encode(v)) = Encode(Reached(t, g, t.reverse))
      <4>1. Milliseconds(t) <= Milliseconds(v)
            /\ t.forward = Resolve(Milliseconds(v) - Milliseconds(t))
            /\ ReachUpper(Encode(t), Encode(v)) # Throws
        BY <1>9, <3>1, <3>2, <3>3, <3>4
      <4> QED
        BY <1>9, <3>2, <4>1, ReachUpperIs
    <3>6. PICK g : /\ g \in 0 .. MaxResolution + 1
                   /\ JustReaches(g, Milliseconds(v) - Milliseconds(t))
                   /\ ReachUpper(Encode(t), Encode(v)) = Encode(Reached(t, g, t.reverse))
      BY <3>5
    <3>7. Reached(t, g, t.reverse) = Reached(w, g, s)
      <4>1. Reached(t, g, s) = Reached(w, g, s)
        BY <1>2, <1>9, ReachedTwice DEF t
      <4> QED
        BY <1>9, <4>1
    <3> QED
      BY <1>9, <2>2, <3>2, <3>4, <3>6, <3>7
  <2> QED
    BY <2>1, <2>2
<1>12. PICK g : /\ g \in 0 .. MaxResolution + 1 /\ z = Encode(Reached(w, g, s))
                /\ IF upper = -1 THEN g = MaxResolution ELSE JustReaches(g, Millis(upper) - ms)
  BY <1>11
<1> QED
  BY <1>8, <1>12

\* What a turn makes of a value, unless it throws.
LEMMA NewValueIs ==
  ASSUME NEW w, Timed(w), w.ba = 1,
         NEW lower, Below(lower, Milliseconds(w)), NEW upper, Above(upper, Milliseconds(w)),
         NEW bounds \in BOOLEAN,
         NEW z, z = NewTemporalValue(lower, Encode(w), upper, bounds), z # Throws
  PROVE  \E f, r :
           /\ f \in 0 .. MaxResolution + 1 /\ r \in 0 .. MaxResolution + 1
           /\ z = Encode(Reached(w, f, r))
           /\ IF lower = -1 THEN r = MaxResolution
              ELSE IF bounds THEN JustReaches(r, Milliseconds(w) - Millis(lower))
                   ELSE StopsShort(r, Milliseconds(w) - Millis(lower))
           /\ IF upper = -1 THEN f = MaxResolution
              ELSE IF bounds THEN JustReaches(f, Millis(upper) - Milliseconds(w))
                   ELSE StopsShort(f, Millis(upper) - Milliseconds(w))
<1>1. Encode(w) > 0 /\ Encode(w) \in Int
  BY EncodedIsTime
<1>2. ~(Encode(w) < 0)
  BY <1>1
<1>3. PICK f, r :
        /\ f \in 0 .. MaxResolution + 1 /\ r \in 0 .. MaxResolution + 1
        /\ Around(lower, Encode(w), upper) = Encode(Reached(w, f, r))
        /\ IF lower = -1 THEN r = MaxResolution
           ELSE /\ r = Resolve(Milliseconds(w) - Millis(lower))
                /\ StopsShort(r, Milliseconds(w) - Millis(lower))
        /\ IF upper = -1 THEN f = MaxResolution
           ELSE /\ f = Resolve(Millis(upper) - Milliseconds(w))
                /\ StopsShort(f, Millis(upper) - Milliseconds(w))
  BY AroundIs
<1>4. CASE bounds = FALSE
  <2>1. z = Around(lower, Encode(w), upper)
    BY <1>2, <1>4 DEF NewTemporalValue
  <2> QED
    BY <1>3, <1>4, <2>1
<1>5. CASE bounds = TRUE
  <2> DEFINE x == Around(lower, Encode(w), upper)
             y == ReachLower(x, lower)
             a == [q \in Int |-> ReachLower(q, lower)]
             b == [q \in Int |-> ReachUpper(q, upper)]
  <2>1. z = b[a[x]]
    BY <1>2, <1>5 DEF NewTemporalValue
  <2>2. x \in Int
    <3>1. f \in 0 .. ResolutionMask /\ r \in 0 .. ResolutionMask
      BY <1>3, ResolutionFacts
    <3>2. Timed(Reached(w, f, r)) /\ Reached(w, f, r).ba = 1
      BY <3>1, TimeReached
    <3> QED
      BY <1>3, <3>2, EncodedIsTime
  <2>3. a[x] = y
    BY <2>2
  <2>4. y \in Int
    <3>1. CASE lower < 0
      BY <2>2, <3>1 DEF ReachLower
    <3>2. CASE ~(lower < 0)
      <4> USE DEF Throws
      <4>1. CASE ~CanContain(x, lower)
        BY <3>2, <4>1 DEF ReachLower
      <4>2. CASE CanContain(x, lower) /\ ContainsInstant(x, lower)
        BY <2>2, <3>2, <4>2 DEF ReachLower
      <4>3. CASE CanContain(x, lower) /\ ~ContainsInstant(x, lower)
        <5>1. y = SetReverse(x, MaxOf(ReverseResolution(x) - 1, 0))
          BY <3>2, <4>3 DEF ReachLower
        <5> DEFINE s == MaxOf(ReverseResolution(x) - 1, 0)
        <5>2. f \in 0 .. ResolutionMask /\ r \in 0 .. ResolutionMask
          BY <1>3, ResolutionFacts
        <5>3. Timed(Reached(w, f, r)) /\ Reached(w, f, r).ba = 1 /\ Reached(w, f, r).reverse = r
              /\ Reached(w, f, r).forward = f
          BY <5>2, TimeReached
        <5>4. ReverseResolution(x) = r
          BY <1>3, <5>3, EncodedIsTime
        <5>5. s \in 0 .. ResolutionMask
          BY <5>2, <5>4, MaskIsNat DEF MaxOf
        <5> HIDE DEF s
        <5>6. y = Encode(Reached(Reached(w, f, r), f, s))
          BY <1>3, <5>1, <5>3, <5>5, ReachSetInPlace DEF s
        <5>7. Timed(Reached(Reached(w, f, r), f, s)) /\ Reached(Reached(w, f, r), f, s).ba = 1
          BY <5>2, <5>3, <5>5, TimeReached
        <5> QED
          BY <5>6, <5>7, EncodedIsTime
      <4> QED
        BY <4>1, <4>2, <4>3
    <3> QED
      BY <3>1, <3>2
  <2>5. z = ReachUpper(ReachLower(x, lower), upper)
    <3> HIDE DEF y
    <3>1. b[y] = ReachUpper(y, upper)
      BY <2>4
    <3> QED
      BY <2>1, <2>3, <3>1 DEF y
  <2>6. \E g, s :
              /\ g \in 0 .. MaxResolution + 1 /\ s \in 0 .. MaxResolution + 1
              /\ z = Encode(Reached(w, g, s))
              /\ IF lower = -1 THEN s = MaxResolution
                 ELSE JustReaches(s, Milliseconds(w) - Millis(lower))
              /\ IF upper = -1 THEN g = MaxResolution
                 ELSE JustReaches(g, Millis(upper) - Milliseconds(w))
    BY <2>5, StretchedIs
  <2> QED
    BY <1>5, <2>6
<1> QED
  BY <1>4, <1>5

-----------------------------------------------------------------------------
(***************************************************************************)
(* The array.  A turn reads the neighbour the turn before has rewritten, in*)
(* place.  All it reads of it is its time, so the invariant says of every  *)
(* value, rewritten or not, that it is a time after the start and still the*)
(* one it was given as; that the given times ascend; and that the rewritten*)
(* values have resolutions as the search finds them, and reach.            *)
(***************************************************************************)
\* Every value of the array is a time and stays the time it was given as.
SeriesIsTimes ==
  \A j \in 1 .. Len(given) :
    IsTime(given[j]) /\ IsTime(series[j]) /\ Millis(series[j]) = Millis(given[j])

\* The array is given in ascending order.
GivenIsSorted == \A j \in 1 .. Len(given) - 1 : Millis(given[j]) <= Millis(given[j + 1])

\* What has been rewritten is no terminator.
ResolutionsAreFound == \A j \in 1 .. turns : Found(Decode(series[j]))

\* The inductive invariant.
SeriesInv ==
  /\ SeriesTypeOK
  /\ given \in Seq(Int)
  /\ SeriesIsTimes
  /\ GivenIsSorted
  /\ ResolutionsAreFound
  /\ ReachesNeighbours

\* A value before the call.
LEMMA PackedIsTime ==
  ASSUME NEW ms \in Instants, NEW r \in GivenResolutions
  PROVE  IsTime(Packed(ms, r)) /\ Millis(Packed(ms, r)) = ms /\ Packed(ms, r) \in Int
<1>1. ZeroWord \in Words /\ ZeroWord.type = 1
  BY ZeroWordIs
<1>2. r \in 0 .. ResolutionMask
  BY TemporalSeriesAssumption
<1>3. ms \in Int /\ Representable(ms) /\ ~(ms < Scale(1))
  <2>1. Scale(1) \in Nat /\ MaxValue(1) \in Nat
    BY FormatFacts
  <2>2. MaxValue(1) * Scale(1) \in Nat
    BY <2>1
  <2>3. FirstMillisecond <= 0 /\ FirstMillisecond \in Int
    <3>1. FirstMillisecond = -MaxValue(1) * Scale(1)
      BY DEF FirstMillisecond
    <3>2. \A a, b \in Nat : -a * b <= 0 /\ -a * b \in Int
      <4> SUFFICES ASSUME NEW a \in Nat, NEW b \in Nat PROVE -a * b <= 0 /\ -a * b \in Int
        OBVIOUS
      <4>1. a * b \in Nat /\ -a * b = -(a * b)
        OBVIOUS
      <4> QED
        BY <4>1
    <3> QED
      BY <2>1, <3>1, <3>2
  <2>4. LastMillisecond \in Int
    <3>1. (MaxValue(1) + 1) * Scale(1) \in Int
      BY <2>1
    <3> QED
      BY <3>1 DEF LastMillisecond
  <2>5. ms \in Scale(1) .. LastMillisecond
    BY TemporalSeriesAssumption
  <2> QED
    BY <2>1, <2>3, <2>4, <2>5 DEF Representable
<1> DEFINE a == Reached(FromMilliseconds(ZeroWord, ms), r, r)
<1>4. Timed(a) /\ Milliseconds(a) = ms /\ a.ba = IF ms < Scale(1) THEN 0 ELSE 1
  BY <1>1, <1>2, <1>3, SetAndReached
<1>5. Packed(ms, r) = Encode(a)
  BY DEF Packed, Reached
<1> HIDE DEF a
<1>6. a.ba = 1
  BY <1>3, <1>4
<1> QED
  BY <1>4, <1>5, <1>6, EncodedIsTime

\* The array as it is given.
LEMMA SeriesInitSound == SeriesInit => SeriesInv
<1> SUFFICES ASSUME SeriesInit PROVE SeriesInv
  OBVIOUS
<1>1. PICK n \in 0 .. MaxLength, r \in GivenResolutions :
        \E ms \in [1 .. n -> Instants] :
          /\ \A j \in 1 .. n - 1 : ms[j] <= ms[j + 1]
          /\ series = [j \in 1 .. n |-> Packed(ms[j], r)]
          /\ given = series
          /\ turns = 0
          /\ include_bounds \in BOOLEAN
          /\ threw = FALSE
  BY DEF SeriesInit
<1>2. PICK ms \in [1 .. n -> Instants] :
        /\ \A j \in 1 .. n - 1 : ms[j] <= ms[j + 1]
        /\ series = [j \in 1 .. n |-> Packed(ms[j], r)]
        /\ given = series
        /\ turns = 0
        /\ include_bounds \in BOOLEAN
        /\ threw = FALSE
  BY <1>1
<1>3. n \in Nat
  BY TemporalSeriesAssumption
<1>4. ASSUME NEW j \in 1 .. n
      PROVE  IsTime(series[j]) /\ Millis(series[j]) = ms[j] /\ series[j] \in Int
  <2>1. series[j] = Packed(ms[j], r) /\ ms[j] \in Instants
    BY <1>2
  <2> QED
    BY <2>1, PackedIsTime
<1>5. series \in Seq(Int) /\ Len(series) = n /\ Len(given) = n /\ given \in Seq(Int)
  <2>1. series \in [1 .. n -> Int]
    BY <1>2, <1>4
  <2>2. series \in Seq(Int) /\ Len(series) = n
    BY <1>2, <1>3, <2>1
  <2> QED
    BY <1>2, <2>2
<1>6. SeriesTypeOK
  <2>1. turns \in 0 .. Len(series)
    BY <1>2, <1>3, <1>5
  <2>2. \A j \in turns + 1 .. Len(series) : series[j] = given[j]
    BY <1>2
  <2>3. threw \in BOOLEAN
    BY <1>2
  <2> QED
    BY <1>2, <1>5, <2>1, <2>2, <2>3 DEF SeriesTypeOK
<1>7. SeriesIsTimes
  BY <1>2, <1>4, <1>5 DEF SeriesIsTimes
<1>8. GivenIsSorted
  <2> SUFFICES ASSUME NEW j \in 1 .. n - 1 PROVE Millis(given[j]) <= Millis(given[j + 1])
    BY <1>5 DEF GivenIsSorted
  <2>1. j \in 1 .. n /\ j + 1 \in 1 .. n
    BY <1>3
  <2>2. Millis(given[j]) = ms[j] /\ Millis(given[j + 1]) = ms[j + 1]
    BY <1>2, <1>4, <2>1
  <2> QED
    BY <1>2, <2>2
<1>9. ResolutionsAreFound /\ ReachesNeighbours
  BY <1>2 DEF ResolutionsAreFound, ReachesNeighbours
<1> QED
  BY <1>5, <1>6, <1>7, <1>8, <1>9 DEF SeriesInv

\* The neighbours a turn reads: the one before has been rewritten, in place.
LEMMA NeighboursAre ==
  ASSUME SeriesInv, turns < Len(series)
  PROVE  /\ turns + 1 \in 1 .. Len(series) /\ Len(given) = Len(series) /\ turns \in Nat
         /\ IsTime(series[turns + 1])
         /\ Millis(series[turns + 1]) = Millis(given[turns + 1])
         /\ Below(Neighbour(turns), Millis(given[turns + 1]))
         /\ Above(Neighbour(turns + 2), Millis(given[turns + 1]))
         /\ IF turns + 1 = 1 THEN Neighbour(turns) = -1
            ELSE /\ Neighbour(turns) # -1
                 /\ Millis(Neighbour(turns)) = Millis(given[(turns + 1) - 1])
         /\ IF turns + 1 = Len(series) THEN Neighbour(turns + 2) = -1
            ELSE /\ Neighbour(turns + 2) # -1
                 /\ Millis(Neighbour(turns + 2)) = Millis(given[(turns + 1) + 1])
<1>1. /\ series \in Seq(Int) /\ Len(series) = Len(given) /\ turns \in 0 .. Len(series)
      /\ given \in Seq(Int)
  BY DEF SeriesInv, SeriesTypeOK
<1>2. Len(series) \in Nat /\ DOMAIN series = 1 .. Len(series)
  BY <1>1
<1>3. turns \in Nat /\ turns + 1 \in 1 .. Len(series)
  BY <1>1, <1>2
<1>4. \A j \in 1 .. Len(series) :
        IsTime(series[j]) /\ Millis(series[j]) = Millis(given[j])
  BY <1>1 DEF SeriesInv, SeriesIsTimes
<1>5. \A j \in 1 .. Len(series) - 1 : Millis(given[j]) <= Millis(given[j + 1])
  BY <1>1 DEF SeriesInv, GivenIsSorted
<1>6. /\ Below(Neighbour(turns), Millis(given[turns + 1]))
      /\ IF turns + 1 = 1 THEN Neighbour(turns) = -1
         ELSE /\ Neighbour(turns) # -1
              /\ Millis(Neighbour(turns)) = Millis(given[(turns + 1) - 1])
  <2>1. CASE turns = 0
    <3>1. turns \notin DOMAIN series
      BY <1>2, <2>1
    <3> QED
      BY <2>1, <3>1 DEF Neighbour, Below
  <2>2. CASE turns # 0
    <3>1. turns \in 1 .. Len(series) /\ turns \in 1 .. Len(series) - 1 /\ turns + 1 # 1
          /\ (turns + 1) - 1 = turns
      BY <1>2, <1>3, <2>2
    <3>2. Neighbour(turns) = series[turns]
      BY <1>2, <3>1 DEF Neighbour
    <3>3. IsTime(series[turns]) /\ Millis(series[turns]) = Millis(given[turns])
      BY <1>4, <3>1
    <3>4. Millis(given[turns]) <= Millis(given[turns + 1])
      BY <1>5, <3>1
    <3>5. series[turns] # -1
      BY <3>3, TimeIs
    <3> QED
      BY <3>1, <3>2, <3>3, <3>4, <3>5 DEF Below
  <2> QED
    BY <2>1, <2>2
<1>7. /\ Above(Neighbour(turns + 2), Millis(given[turns + 1]))
      /\ IF turns + 1 = Len(series) THEN Neighbour(turns + 2) = -1
         ELSE /\ Neighbour(turns + 2) # -1
              /\ Millis(Neighbour(turns + 2)) = Millis(given[(turns + 1) + 1])
  <2>1. CASE turns + 1 = Len(series)
    <3>1. turns + 2 \notin DOMAIN series
      BY <1>2, <1>3, <2>1
    <3> QED
      BY <2>1, <3>1 DEF Neighbour, Above
  <2>2. CASE turns + 1 # Len(series)
    <3>1. turns + 2 \in 1 .. Len(series) /\ turns + 1 \in 1 .. Len(series) - 1
          /\ (turns + 1) + 1 = turns + 2
      <4>1. \A t, n \in Nat :
              (t + 1 \in 1 .. n /\ t + 1 # n)
                => t + 2 \in 1 .. n /\ t + 1 \in 1 .. n - 1 /\ (t + 1) + 1 = t + 2
        OBVIOUS
      <4> QED
        BY <1>2, <1>3, <2>2, <4>1
    <3>2. Neighbour(turns + 2) = series[turns + 2]
      BY <1>2, <3>1 DEF Neighbour
    <3>3. IsTime(series[turns + 2]) /\ Millis(series[turns + 2]) = Millis(given[turns + 2])
      BY <1>4, <3>1
    <3>4. Millis(given[turns + 1]) <= Millis(given[(turns + 1) + 1])
      BY <1>5, <3>1
    <3>5. series[turns + 2] # -1
      BY <3>3, TimeIs
    <3> QED
      BY <2>2, <3>1, <3>2, <3>3, <3>4, <3>5 DEF Above
  <2> QED
    BY <2>1, <2>2
<1> QED
  BY <1>1, <1>3, <1>4, <1>6, <1>7

\* A turn.
LEMMA TurnSound == SeriesInv /\ [Turn]_seriesVars => SeriesInv'
<1> SUFFICES ASSUME SeriesInv, [Turn]_seriesVars PROVE SeriesInv'
  OBVIOUS
<1> USE DEF SeriesInv
<1>1. CASE UNCHANGED seriesVars
  BY <1>1 DEF seriesVars, SeriesTypeOK, SeriesIsTimes, GivenIsSorted, ResolutionsAreFound,
              ReachesNeighbours, Reaches
<1>2. CASE Turn
  <2> DEFINE x == NewTemporalValue(Neighbour(turns), series[turns + 1],
                                   Neighbour(turns + 2), include_bounds)
             n == Len(series)
  <2>1. /\ turns < n /\ include_bounds' = include_bounds /\ given' = given
        /\ IF x = Throws THEN threw' = TRUE /\ series' = series /\ turns' = turns
           ELSE /\ series' = [series EXCEPT ![turns + 1] = x] /\ turns' = turns + 1
                /\ threw' = threw
    BY <1>2 DEF Turn, Store
  <2>2. /\ series \in Seq(Int) /\ n = Len(given) /\ turns \in 0 .. n /\ given \in Seq(Int)
        /\ \A j \in turns + 1 .. n : series[j] = given[j]
        /\ include_bounds \in BOOLEAN /\ threw \in BOOLEAN
    BY DEF SeriesTypeOK
  <2>3. CASE x = Throws
    BY <2>1, <2>2, <2>3 DEF SeriesTypeOK, SeriesIsTimes, GivenIsSorted, ResolutionsAreFound,
                            ReachesNeighbours, Reaches
  <2>4. CASE x # Throws
    <3> DEFINE w == Decode(series[turns + 1])
               i == turns + 1
    <3>1. /\ i \in 1 .. n /\ n \in Nat
          /\ IsTime(series[i]) /\ Millis(series[i]) = Millis(given[i])
          /\ Below(Neighbour(turns), Millis(given[i]))
          /\ Above(Neighbour(turns + 2), Millis(given[i]))
          /\ IF i = 1 THEN Neighbour(turns) = -1
             ELSE Neighbour(turns) # -1 /\ Millis(Neighbour(turns)) = Millis(given[i - 1])
          /\ IF i = n THEN Neighbour(turns + 2) = -1
             ELSE Neighbour(turns + 2) # -1 /\ Millis(Neighbour(turns + 2)) = Millis(given[i + 1])
      <4>1. n \in Nat
        BY <2>2
      <4> QED
        BY <2>1, <4>1, NeighboursAre
    <3>2. Timed(w) /\ w.ba = 1 /\ Encode(w) = series[i] /\ Milliseconds(w) = Millis(given[i])
      BY <3>1, TimeIs
    <3>3. \E f, r :
            /\ f \in 0 .. MaxResolution + 1 /\ r \in 0 .. MaxResolution + 1
            /\ x = Encode(Reached(w, f, r))
            /\ IF Neighbour(turns) = -1 THEN r = MaxResolution
               ELSE IF include_bounds
                    THEN JustReaches(r, Milliseconds(w) - Millis(Neighbour(turns)))
                    ELSE StopsShort(r, Milliseconds(w) - Millis(Neighbour(turns)))
            /\ IF Neighbour(turns + 2) = -1 THEN f = MaxResolution
               ELSE IF include_bounds
                    THEN JustReaches(f, Millis(Neighbour(turns + 2)) - Milliseconds(w))
                    ELSE StopsShort(f, Millis(Neighbour(turns + 2)) - Milliseconds(w))
      <4>1. x = NewTemporalValue(Neighbour(turns), Encode(w), Neighbour(turns + 2), include_bounds)
        BY <3>2
      <4> HIDE DEF x, w
      <4> QED
        BY <2>2, <2>4, <3>1, <3>2, <4>1, NewValueIs, SMTT(30)
    <3>4. PICK f, r :
            /\ f \in 0 .. MaxResolution + 1 /\ r \in 0 .. MaxResolution + 1
            /\ x = Encode(Reached(w, f, r))
            /\ IF Neighbour(turns) = -1 THEN r = MaxResolution
               ELSE IF include_bounds
                    THEN JustReaches(r, Milliseconds(w) - Millis(Neighbour(turns)))
                    ELSE StopsShort(r, Milliseconds(w) - Millis(Neighbour(turns)))
            /\ IF Neighbour(turns + 2) = -1 THEN f = MaxResolution
               ELSE IF include_bounds
                    THEN JustReaches(f, Millis(Neighbour(turns + 2)) - Milliseconds(w))
                    ELSE StopsShort(f, Millis(Neighbour(turns + 2)) - Milliseconds(w))
      BY <3>3
    <3> HIDE DEF w
    <3>5. f \in 0 .. ResolutionMask /\ r \in 0 .. ResolutionMask
      BY <3>4, ResolutionFacts
    <3>6. /\ Timed(Reached(w, f, r)) /\ Reached(w, f, r).ba = 1
          /\ Milliseconds(Reached(w, f, r)) = Milliseconds(w)
          /\ Reached(w, f, r).forward = f /\ Reached(w, f, r).reverse = r
      BY <3>2, <3>5, TimeReached
    <3> HIDE DEF x
    <3>7. /\ IsTime(x) /\ Millis(x) = Millis(given[i]) /\ x \in Int
          /\ ForwardResolution(x) = f /\ ReverseResolution(x) = r /\ Decode(x) = Reached(w, f, r)
      BY <3>2, <3>4, <3>6, EncodedIsTime
    <3>8. Found(Decode(x))
      BY <3>4, <3>6, <3>7 DEF Found
    <3>9. /\ series' = [series EXCEPT ![i] = x] /\ turns' = i /\ threw' = threw
          /\ series' \in Seq(Int) /\ Len(series') = n
          /\ series'[i] = x /\ \A j \in 1 .. n : j # i => series'[j] = series[j]
      <4>1. series' = [series EXCEPT ![i] = x] /\ turns' = i /\ threw' = threw
        BY <2>1, <2>4 DEF x
      <4>2. series \in Seq(Int) /\ i \in 1 .. Len(series) /\ x \in Int /\ n = Len(series)
        BY <2>2, <3>1, <3>7
      <4> HIDE DEF i, n
      <4> QED
        BY <4>1, <4>2
    <3> HIDE DEF i
    <3>10. i \in 1 .. n /\ i = turns + 1 /\ turns \in Nat /\ n \in Nat
      BY <2>2, <3>1 DEF i
    <3> HIDE DEF n
    <3>11. SeriesTypeOK'
      <4>1. i \in 0 .. n
        BY <3>10
      <4>2. ASSUME NEW j \in i + 1 .. n PROVE series'[j] = given[j]
        <5>1. j \in turns + 1 .. n /\ j \in 1 .. n /\ j # i
          BY <3>10
        <5> QED
          BY <2>2, <3>9, <5>1
      <4> QED
        BY <2>1, <2>2, <3>9, <4>1, <4>2 DEF SeriesTypeOK
    <3>12. SeriesIsTimes'
      <4> SUFFICES ASSUME NEW j \in 1 .. n
                   PROVE  IsTime(given[j]) /\ IsTime(series'[j])
                          /\ Millis(series'[j]) = Millis(given[j])
        BY <2>1, <2>2 DEF SeriesIsTimes
      <4>1. IsTime(given[j]) /\ IsTime(series[j]) /\ Millis(series[j]) = Millis(given[j])
        BY <2>2 DEF SeriesIsTimes
      <4>2. CASE j = i
        BY <3>7, <3>9, <4>1, <4>2
      <4>3. CASE j # i
        BY <3>9, <4>1, <4>3
      <4> QED
        BY <4>2, <4>3
    <3>13. GivenIsSorted' /\ given' \in Seq(Int)
      BY <2>1 DEF GivenIsSorted
    <3>14. ResolutionsAreFound'
      <4> SUFFICES ASSUME NEW j \in 1 .. i PROVE Found(Decode(series'[j]))
        BY <3>9 DEF ResolutionsAreFound
      <4>1. CASE j = i
        BY <3>8, <3>9, <4>1
      <4>2. CASE j # i
        <5>1. j \in 1 .. turns /\ j \in 1 .. n
          BY <3>10, <4>2
        <5> QED
          BY <3>9, <4>2, <5>1 DEF ResolutionsAreFound
      <4> QED
        BY <4>1, <4>2
    <3>15. ReachesNeighbours'
      <4> DEFINE InPlace(y, j) ==
                   /\ Millis(y) = Millis(given[j])
                   /\ IF j = 1 THEN ReverseResolution(y) = MaxResolution
                      ELSE Reaches(ReverseResolution(y), Millis(given[j]) - Millis(given[j - 1]))
                   /\ IF j = n THEN ForwardResolution(y) = MaxResolution
                      ELSE Reaches(ForwardResolution(y), Millis(given[j + 1]) - Millis(given[j]))
      <4>1. \A q, d : Reaches(q, d) <=> IF include_bounds THEN JustReaches(q, d)
                                                          ELSE StopsShort(q, d)
        BY DEF Reaches, JustReaches, StopsShort
      <4>2. \A j \in 1 .. turns : InPlace(series[j], j)
        BY DEF ReachesNeighbours, n
      <4>3. InPlace(x, i)
        <5>1. IF i = 1 THEN r = MaxResolution
              ELSE Reaches(r, Millis(given[i]) - Millis(given[i - 1]))
          BY <3>1, <3>2, <3>4, <4>1 DEF i, n
        <5>2. IF i = n THEN f = MaxResolution
              ELSE Reaches(f, Millis(given[i + 1]) - Millis(given[i]))
          BY <3>1, <3>2, <3>4, <4>1 DEF i, n
        <5> QED
          BY <3>7, <5>1, <5>2
      <4>4. ASSUME NEW j \in 1 .. i PROVE InPlace(series'[j], j)
        <5>1. CASE j = i
          BY <3>9, <4>3, <5>1
        <5>2. CASE j # i
          <6>1. j \in 1 .. turns /\ j \in 1 .. n
            BY <3>10, <5>2
          <6>2. series'[j] = series[j]
            BY <3>9, <5>2, <6>1
          <6> HIDE DEF InPlace
          <6> QED
            BY <4>2, <6>1, <6>2
        <5> QED
          BY <5>1, <5>2
      <4> QED
        BY <2>1, <3>9, <4>4 DEF ReachesNeighbours, Reaches
    <3> QED
      BY <3>11, <3>12, <3>13, <3>14, <3>15
  <2> QED
    BY <2>3, <2>4
<1> QED
  BY <1>1, <1>2

\* The invariant holds in every reachable state, whether or not a turn threw.
LEMMA SeriesInvAlways == SeriesSpec => []SeriesInv
<1>1. SeriesInit => SeriesInv
  BY SeriesInitSound
<1>2. SeriesInv /\ [Turn]_seriesVars => SeriesInv'
  BY TurnSound
<1> QED
  BY <1>1, <1>2, PTL DEF SeriesSpec

\* However many turns of set_temporal_resolutions_from_sorted_inplace have
\* rewritten the array, what is not rewritten is as given, and every rewritten
\* value keeps its time and has resolutions that fit the distances to its
\* neighbours: for every calendar, every sorted array and with or without bounds.
THEOREM SeriesIsSoundAlways == SeriesSpec => []SeriesIsSound
<1>1. SeriesInv => SeriesIsSound
  BY DEF SeriesInv, SeriesIsSound
<1> QED
  BY <1>1, SeriesInvAlways, PTL

\* scidbOverlap, under the mask that is not the intended one, answers whether
\* the stretches of time of two rewritten values meet, whenever it does not throw.
THEOREM OverlapIsMeetingAlways == SeriesSpec => []OverlapIsMeeting
<1>1. SeriesInv => OverlapIsMeeting
  <2> SUFFICES ASSUME SeriesInv, NEW j \in 1 .. turns, NEW k \in 1 .. turns,
                      CanOverlap(series[j], series[k])
               PROVE  Overlap(series[j], series[k]) <=> Meet(series[j], series[k])
    BY DEF OverlapIsMeeting
  <2> DEFINE w == Decode(series[j])
             v == Decode(series[k])
  <2>1. j \in 1 .. Len(given) /\ k \in 1 .. Len(given)
    <3>1. given \in Seq(Int) /\ Len(series) = Len(given) /\ turns \in 0 .. Len(series)
      BY DEF SeriesInv, SeriesTypeOK
    <3>2. Len(given) \in Nat
      BY <3>1
    <3> QED
      BY <3>1, <3>2
  <2>2. IsTime(series[j]) /\ IsTime(series[k])
    BY <2>1 DEF SeriesInv, SeriesIsTimes
  <2>3. Timed(w) /\ w.ba = 1 /\ series[j] = Encode(w)
    BY <2>2, TimeIs
  <2>4. Timed(v) /\ v.ba = 1 /\ series[k] = Encode(v)
    BY <2>2, TimeIs
  <2>5. Found(w) /\ Found(v)
    BY DEF SeriesInv, ResolutionsAreFound
  <2> HIDE DEF w, v
  <2>6. w.forward \in 0 .. MaxResolution + 1 /\ w.reverse \in 0 .. MaxResolution + 1
        /\ v.forward \in 0 .. MaxResolution + 1 /\ v.reverse \in 0 .. MaxResolution + 1
    BY <2>5 DEF Found
  <2> QED
    BY <2>3, <2>4, <2>6, OverlapMeans
<1> QED
  BY <1>1, SeriesInvAlways, PTL

-----------------------------------------------------------------------------
(***************************************************************************)
(* Unions and intersections.  They are made from masked bounds, which have *)
(* lost their type: 0 after the start, 2 before it.  Such an integer still *)
(* says when, and a value is tested against it with the same answer as     *)
(* against one of type 1; before the start it is not looked at at all.     *)
(***************************************************************************)
\* The word with another type.
Retyped(w, c) == [ba |-> w.ba, field |-> w.field, forward |-> w.forward,
                  reverse |-> w.reverse, type |-> c]

\* The type is added to the rest.
LEMMA RetypedEncodes ==
  ASSUME NEW w, Sound(w), NEW c \in 0 .. 3
  PROVE  Encode(Retyped(w, c)) = IF w.ba = 0 THEN -(Index(w) + c - 1) ELSE Index(w) + c - 1
<1> DEFINE v == Retyped(w, c)
           S(i) == IF v.ba = 1 THEN v.field[i] ELSE Reversed(i, v.field[i])
           placed == [i \in Ids |-> (S(i) % Two[Width(i)]) * Two[Offset[i]]]
<1>1. v.ba = w.ba /\ v.field = w.field /\ v.forward = w.forward /\ v.reverse = w.reverse
      /\ v.type = c
  BY DEF Retyped
<1>2. Encode(v) = IF v.ba = 0
                  THEN -(Sums(placed)[1] + v.forward * Two[ForwardOffset]
                           + v.reverse * Two[ReverseOffset] + v.type)
                  ELSE Sums(placed)[1] + v.forward * Two[ForwardOffset]
                         + v.reverse * Two[ReverseOffset] + v.type
  BY DEF Encode
<1> HIDE DEF v
<1>3. placed = [i \in Ids |-> Stored(w)[i] * BitPlace[i]]
  <2>1. ASSUME NEW i \in Ids
        PROVE  (S(i) % Two[Width(i)]) * Two[Offset[i]] = Stored(w)[i] * BitPlace[i]
    <3>1. Stored(w)[i] \in Nat /\ Stored(w)[i] < BitRadix[i] /\ BitRadix[i] \in Nat
          /\ Stored(w)[i] = S(i)
      BY <1>1, StoredIsDigits, BitsAreRadix DEF Digits, Radix
    <3>2. BitPlace[i] = Two[Offset[i]] /\ BitRadix[i] = Two[Width(i)]
      BY DEF BitPlace, BitRadix
    <3> HIDE DEF S
    <3>3. S(i) % BitRadix[i] = S(i)
      BY <3>1
    <3> QED
      BY <3>1, <3>2, <3>3
  <2> QED
    BY <2>1
<1>4. Sums(placed) = Worth(Stored(w), BitPlace)
  BY <1>3 DEF Worth
<1> HIDE DEF placed
<1>5. Sums(placed)[1] + w.forward * Two[ForwardOffset] + w.reverse * Two[ReverseOffset] + c
        = Index(w) + c - 1 /\ Index(w) \in Int
  <2>1. Sums(placed)[1] \in Nat
    <3>1. \A k \in Ids : Stored(w)[k] \in Nat /\ BitPlace[k] \in Nat
      BY StoredIsDigits, BitsAreRadix DEF Digits, Radix
    <3>2. 1 \in 1 .. Finest + 1
      BY FormatFacts
    <3> QED
      BY <1>4, <3>1, <3>2, WorthOf
  <2>2. w.forward * Two[ForwardOffset] \in Nat /\ w.reverse * Two[ReverseOffset] \in Nat
        /\ w.type = 1
    BY LowPowers, WordParts DEF Sound
  <2> QED
    BY <1>4, <2>1, <2>2 DEF Index, Low
<1>6. Encode(v) = IF w.ba = 0 THEN -(Index(w) + c - 1) ELSE Index(w) + c - 1
  BY <1>1, <1>2, <1>5
<1> QED
  BY <1>6 DEF v

\* Above the type nothing depends on it.
LEMMA TypeIsBelow ==
  ASSUME NEW n \in Nat, NEW c \in 0 .. 3, NEW off \in 2 .. WordBits, NEW width
  PROVE  Bits(4 * n + c, off, width) = Bits(4 * n + 1, off, width)
<1>1. off - 2 \in Nat /\ 2 \in Nat /\ (off - 2) + 2 = off /\ off <= WordBits /\ off \in Nat
      /\ WordBits \in Nat /\ Two[2] = 4
  BY OffsetFacts, LowPowers DEF TypeWidth
<1> DEFINE k == Two[off - 2]
           q == n \div k
           s == n % k
<1>2. Two[off] = k * 4
  BY <1>1, TwoProduct
<1>3. k \in Nat /\ k > 0
  <2>1. off - 2 \in 0 .. WordBits
    BY <1>1
  <2> QED
    BY <2>1, TwoFacts
<1> HIDE DEF k
<1>4. q \in Nat /\ s \in Nat /\ s < k /\ n = q * k + s /\ q * k \in Nat
  BY <1>3, DivisionOf
<1> HIDE DEF q, s
<1>5. ASSUME NEW d \in 0 .. 3
      PROVE  (4 * n + d) \div (k * 4) = q
  <2> DEFINE f == k * 4
             t == 4 * s + d
  <2>1. f \in Nat /\ f > 0 /\ t \in Nat /\ t < f /\ q \in Int
    BY <1>3, <1>4
  <2>2. 4 * n + d = q * f + t
    <3>1. q * f = 4 * (q * k)
      BY <1>3, <1>4
    <3> QED
      BY <1>3, <1>4, <3>1
  <2> HIDE DEF f, t
  <2>3. (q * f + t) \div f = q
    BY <2>1, Quotient
  <2> QED
    BY <2>2, <2>3 DEF f
<1>6. (4 * n + c) \div (k * 4) = q /\ (4 * n + 1) \div (k * 4) = q
  <2>1. 1 \in 0 .. 3
    OBVIOUS
  <2> QED
    BY <1>5, <2>1
<1> QED
  BY <1>2, <1>6 DEF Bits

\* A word of type 1, and when there is something above the type.
LEMMA IndexEndsInOne ==
  ASSUME NEW w, Sound(w)
  PROVE  \E n \in Nat : /\ Index(w) = 4 * n + 1
                        /\ (w.ba = 1 /\ ~NoSuchYear(w)) => n > 0
<1>1. /\ Index(w) \in Nat /\ Index(w) > 0
      /\ \A i \in Ids : Bits(Index(w), Offset[i], Width(i)) = Stored(w)[i]
      /\ Index(w) % Two[TypeWidth] = w.type
  BY IndexFacts
<1>2. w.type = 1 /\ Two[TypeWidth] = 4
  BY LowPowers DEF Sound
<1>3. PICK n \in Nat : Index(w) = 4 * n + 1
  <2> DEFINE x == Index(w)
  <2>1. x \in Nat /\ x % 4 = 1
    BY <1>1, <1>2
  <2> HIDE DEF x
  <2>2. x = 4 * (x \div 4) + 1 /\ x \div 4 \in Nat
    BY <2>1
  <2> QED
    BY <2>2 DEF x
<1>4. ASSUME w.ba = 1, ~NoSuchYear(w), n = 0 PROVE FALSE
  <2>1. 1 \in Ids /\ Stored(w)[1] = w.field[1] /\ w.field[1] # 0
    <3>1. 1 \in Ids
      BY FormatFacts
    <3>2. Stored(w)[1] = w.field[1]
      BY <1>4, <3>1, StoredIsDigits
    <3> QED
      BY <1>4, <3>1, <3>2 DEF NoSuchYear
  <2>2. Bits(1, Offset[1], Width(1)) = Stored(w)[1]
    BY <1>1, <1>3, <1>4, <2>1
  <2>3. Offset[1] \in 2 .. WordBits
    <3>1. LowBits = 2 + 2 * ResolutionWidth /\ ResolutionWidth \in Nat /\ Finest \in Ids
          /\ Ids = 1 .. Finest /\ Finest \in Nat /\ Finest > 1 /\ Width(1) \in Nat
      BY FormatFacts DEF LowBits, TypeWidth
    <3>2. Offset[Finest] = LowBits /\ LowBits \in Nat /\ WordBits \in Nat
      BY OffsetFacts
    <3>3. /\ Offset[1] \in Nat /\ Offset[1] + Width(1) <= WordBits
          /\ Width(Finest) \in Nat
      BY <2>1, <3>1, OffsetFacts, FormatFacts
    <3>4. Offset[Finest] + Width(Finest) <= Offset[1]
      BY <2>1, <3>1, OffsetsDescend
    <3> QED
      BY <3>1, <3>2, <3>3, <3>4
  <2>4. Bits(1, Offset[1], Width(1)) = Bits(0, Offset[1], Width(1))
    <3>1. 4 * 0 + 0 = 0 /\ 4 * 0 + 1 = 1 /\ 0 \in Nat /\ 0 \in 0 .. 3
      OBVIOUS
    <3>2. Bits(4 * 0 + 0, Offset[1], Width(1)) = Bits(4 * 0 + 1, Offset[1], Width(1))
      BY <2>3, <3>1, TypeIsBelow
    <3> QED
      BY <3>1, <3>2
  <2>5. Bits(0, Offset[1], Width(1)) = 0
    <3>1. Two[Offset[1]] \in Nat /\ Two[Offset[1]] > 0 /\ Two[Width(1)] \in Nat /\ Two[Width(1)] > 0
      <4>1. Offset[1] \in 0 .. WordBits /\ Width(1) \in 0 .. WordBits
        <5>1. Offset[1] \in Nat /\ Width(1) \in Nat /\ Offset[1] + Width(1) <= WordBits
              /\ WordBits \in Nat
          BY <2>1, OffsetFacts, FormatFacts
        <5> QED
          BY <5>1
      <4> QED
        BY <4>1, TwoFacts
    <3>2. \A f \in Nat : f > 0 => 0 \div f = 0 /\ 0 % f = 0
      <4> SUFFICES ASSUME NEW f \in Nat, f > 0 PROVE 0 \div f = 0 /\ 0 % f = 0
        OBVIOUS
      <4>1. (0 * f + 0) \div f = 0 /\ (0 * f + 0) % f = 0
        BY Quotient
      <4>2. 0 * f + 0 = 0
        OBVIOUS
      <4> QED
        BY <4>1, <4>2
    <3> QED
      BY <3>1, <3>2 DEF Bits
  <2> QED
    BY <2>1, <2>2, <2>4, <2>5
<1>5. n > 0 \/ n = 0
  OBVIOUS
<1> QED
  BY <1>3, <1>4, <1>5

\* Whatever the type, the word comes back.
LEMMA RetypedDecodes ==
  ASSUME NEW w, Sound(w), NEW c \in 0 .. 3, c > 0 \/ (w.ba = 1 /\ ~NoSuchYear(w))
  PROVE  /\ Decode(Encode(Retyped(w, c))) = Retyped(w, c)
         /\ Encode(Retyped(w, c)) \in Int
         /\ Encode(Retyped(w, c)) > 0 <=> w.ba = 1
         /\ Encode(Retyped(w, c)) < 0 <=> w.ba = 0
<1>1. PICK n \in Nat : /\ Index(w) = 4 * n + 1
                       /\ (w.ba = 1 /\ ~NoSuchYear(w)) => n > 0
  BY IndexEndsInOne
<1> DEFINE x == Encode(w)
           y == Encode(Retyped(w, c))
<1>2. y = IF w.ba = 0 THEN -(4 * n + c) ELSE 4 * n + c
  <2>1. Index(w) + c - 1 = 4 * n + c
    BY <1>1
  <2> QED
    BY <2>1, RetypedEncodes
<1>3. x = IF w.ba = 0 THEN -(4 * n + 1) ELSE 4 * n + 1
  BY <1>1, EncodeIs
<1>4. w.ba \in 0 .. 1 /\ 4 * n + c > 0 /\ 4 * n + c \in Nat /\ 4 * n + 1 > 0 /\ 4 * n + 1 \in Nat
  BY <1>1, WordParts DEF Sound
<1> HIDE DEF x, y
<1>5. /\ y \in Int /\ (y > 0 <=> w.ba = 1) /\ (y < 0 <=> w.ba = 0)
      /\ (x > 0 <=> w.ba = 1) /\ (x < 0 <=> w.ba = 0)
      /\ (IF y < 0 THEN -y ELSE y) = 4 * n + c /\ (IF x < 0 THEN -x ELSE x) = 4 * n + 1
  BY <1>2, <1>3, <1>4
<1>6. ASSUME NEW off \in 2 .. WordBits, NEW width
      PROVE  Bits(4 * n + c, off, width) = Bits(4 * n + 1, off, width)
  BY TypeIsBelow
<1>7. \A i \in Ids : Offset[i] \in 2 .. WordBits
  <2> TAKE i \in Ids
  <2>1. LowBits = 2 + 2 * ResolutionWidth /\ ResolutionWidth \in Nat /\ Finest \in Ids
        /\ Ids = 1 .. Finest /\ Finest \in Nat /\ Width(i) \in Nat /\ Width(Finest) \in Nat
    BY FormatFacts DEF LowBits, TypeWidth
  <2>2. Offset[Finest] = LowBits /\ LowBits \in Nat /\ WordBits \in Nat
        /\ Offset[i] \in Nat /\ Offset[i] + Width(i) <= WordBits
    BY OffsetFacts
  <2>3. i # Finest => Offset[Finest] + Width(Finest) <= Offset[i]
    BY <2>1, OffsetsDescend
  <2> QED
    BY <2>1, <2>2, <2>3
<1>8. ForwardOffset \in 2 .. WordBits /\ ReverseOffset \in 2 .. WordBits
  <2>1. LowBits = 2 + 2 * ResolutionWidth /\ ResolutionWidth \in Nat
        /\ ForwardOffset = 2 + ResolutionWidth /\ ReverseOffset = 2
    BY FormatFacts DEF LowBits, TypeWidth, ForwardOffset, ReverseOffset
  <2>2. LowBits \in Nat /\ WordBits \in Nat /\ LowBits <= WordBits
    BY OffsetFacts
  <2> QED
    BY <2>1, <2>2
<1>9. (4 * n + c) % Two[TypeWidth] = c
  <2>1. Two[TypeWidth] = 4
    BY LowPowers
  <2>2. (4 * n + c) % 4 = c
    OBVIOUS
  <2> QED
    BY <2>1, <2>2
<1> DEFINE a == 4 * n + c
           b == 4 * n + 1
<1>10. Decode(y) = [ba      |-> IF y > 0 THEN 1 ELSE 0,
                    field   |-> [i \in Ids |-> IF y < 0
                                               THEN Reversed(i, Bits(a, Offset[i], Width(i)))
                                               ELSE Bits(a, Offset[i], Width(i))],
                    forward |-> Bits(a, ForwardOffset, ResolutionWidth),
                    reverse |-> Bits(a, ReverseOffset, ResolutionWidth),
                    type    |-> a % Two[TypeWidth]]
  BY <1>5 DEF Decode
<1>11. Decode(x) = [ba      |-> IF x > 0 THEN 1 ELSE 0,
                    field   |-> [i \in Ids |-> IF x < 0
                                               THEN Reversed(i, Bits(b, Offset[i], Width(i)))
                                               ELSE Bits(b, Offset[i], Width(i))],
                    forward |-> Bits(b, ForwardOffset, ResolutionWidth),
                    reverse |-> Bits(b, ReverseOffset, ResolutionWidth),
                    type    |-> b % Two[TypeWidth]]
  BY <1>5 DEF Decode
<1> HIDE DEF a, b
<1>12. \A i \in Ids : Bits(a, Offset[i], Width(i)) = Bits(b, Offset[i], Width(i))
  BY <1>6, <1>7 DEF a, b
<1>13. /\ Bits(a, ForwardOffset, ResolutionWidth) = Bits(b, ForwardOffset, ResolutionWidth)
       /\ Bits(a, ReverseOffset, ResolutionWidth) = Bits(b, ReverseOffset, ResolutionWidth)
  BY <1>6, <1>8 DEF a, b
<1>14. [i \in Ids |-> IF y < 0 THEN Reversed(i, Bits(a, Offset[i], Width(i)))
                      ELSE Bits(a, Offset[i], Width(i))]
         = [i \in Ids |-> IF x < 0 THEN Reversed(i, Bits(b, Offset[i], Width(i)))
                          ELSE Bits(b, Offset[i], Width(i))]
  BY <1>5, <1>12
<1>15. Decode(x) = w
  BY DecodeOfEncode DEF x
<1>16. Decode(y) = [ba |-> w.ba, field |-> w.field, forward |-> w.forward,
                    reverse |-> w.reverse, type |-> c]
  <2>1. /\ w.field = [i \in Ids |-> IF x < 0
                                    THEN Reversed(i, Bits(b, Offset[i], Width(i)))
                                    ELSE Bits(b, Offset[i], Width(i))]
        /\ w.forward = Bits(b, ForwardOffset, ResolutionWidth)
        /\ w.reverse = Bits(b, ReverseOffset, ResolutionWidth)
    BY <1>11, <1>15
  <2>2. (IF y > 0 THEN 1 ELSE 0) = w.ba
    BY <1>4, <1>5
  <2>3. a % Two[TypeWidth] = c
    BY <1>9 DEF a
  <2> QED
    BY <1>10, <1>13, <1>14, <2>1, <2>2, <2>3
<1> QED
  BY <1>5, <1>16 DEF y, Retyped

\* What the type adds to the integer.
LEMMA TypeCounts ==
  ASSUME NEW w, Sound(w)
  PROVE  /\ w.ba = 1 => Encode(Retyped(w, 0)) = Encode(w) - 1
         /\ w.ba = 0 => /\ Encode(Retyped(w, 0)) = Encode(w) + 1
                        /\ Encode(Retyped(w, 2)) = Encode(w) - 1
<1>1. Encode(w) = IF w.ba = 0 THEN -Index(w) ELSE Index(w)
  BY EncodeIs
<1>2. Encode(Retyped(w, 0)) = IF w.ba = 0 THEN -(Index(w) + 0 - 1) ELSE Index(w) + 0 - 1
  BY RetypedEncodes
<1>3. Encode(Retyped(w, 2)) = IF w.ba = 0 THEN -(Index(w) + 2 - 1) ELSE Index(w) + 2 - 1
  BY RetypedEncodes
<1>4. Index(w) \in Int
  BY IndexFacts
<1> QED
  BY <1>1, <1>2, <1>3, <1>4

\* Neither does it change how a reach is set.
LEMMA SetBelowType ==
  ASSUME NEW w, Timed(w), w.ba = 1, NEW r \in 0 .. ResolutionMask
  PROVE  /\ SetForward(Encode(w) - 1, r) = SetForward(Encode(w), r) - 1
         /\ SetReverse(Encode(w) - 1, r) = SetReverse(Encode(w), r) - 1
<1>1. Sound(w) /\ ~NoSuchYear(w)
  BY DEF Timed
<1>2. PICK n \in Nat : Index(w) = 4 * n + 1
  BY <1>1, IndexEndsInOne
<1>3. Encode(w) = 4 * n + 1 /\ Encode(w) - 1 = 4 * n + 0
  BY <1>2, EncodedTime
<1>4. ForwardOffset \in 2 .. WordBits /\ ReverseOffset \in 2 .. WordBits
  <2>1. LowBits = 2 + 2 * ResolutionWidth /\ ResolutionWidth \in Nat
        /\ ForwardOffset = 2 + ResolutionWidth /\ ReverseOffset = 2
    BY FormatFacts DEF LowBits, TypeWidth, ForwardOffset, ReverseOffset
  <2>2. LowBits \in Nat /\ WordBits \in Nat /\ LowBits <= WordBits
    BY OffsetFacts
  <2> QED
    BY <2>1, <2>2
<1>5. /\ Bits(4 * n + 0, ForwardOffset, ResolutionWidth)
           = Bits(4 * n + 1, ForwardOffset, ResolutionWidth)
      /\ Bits(4 * n + 0, ReverseOffset, ResolutionWidth)
           = Bits(4 * n + 1, ReverseOffset, ResolutionWidth)
  BY <1>4, TypeIsBelow
<1> DEFINE x == Encode(w)
           f == Bits(x, ForwardOffset, ResolutionWidth)
           b == Bits(x, ReverseOffset, ResolutionWidth)
<1>6. /\ Bits(x - 1, ForwardOffset, ResolutionWidth) = f
      /\ Bits(x - 1, ReverseOffset, ResolutionWidth) = b
  BY <1>3, <1>5
<1>7. f = w.forward /\ b = w.reverse /\ x \in Int
  BY EncodedTime DEF ForwardResolution, ReverseResolution
<1>8. f \in Int /\ b \in Int /\ r \in Int
  BY <1>1, <1>7, WordParts, MaskIsNat DEF Sound
<1>9. Two[ForwardOffset] \in Int /\ Two[ReverseOffset] \in Int
  BY LowPowers
<1>10. (r - f) * Two[ForwardOffset] \in Int /\ (r - b) * Two[ReverseOffset] \in Int
  BY <1>8, <1>9
<1>11. SetForward(x - 1, r) = (x - 1) + (r - f) * Two[ForwardOffset]
       /\ SetForward(x, r) = x + (r - f) * Two[ForwardOffset]
  BY <1>6 DEF SetForward, WithBits
<1>12. SetReverse(x - 1, r) = (x - 1) + (r - b) * Two[ReverseOffset]
       /\ SetReverse(x, r) = x + (r - b) * Two[ReverseOffset]
  BY <1>6 DEF SetReverse, WithBits
<1> HIDE DEF x, f, b
<1> QED
  BY <1>7, <1>10, <1>11, <1>12 DEF x

\* The instant of an integer without its type is the instant without its type.
LEMMA InstantBelowType ==
  ASSUME NEW v, Timed(v), v.ba = 1
  PROVE  \E u : /\ Timed(u) /\ u.ba = 1 /\ Milliseconds(u) = Milliseconds(v)
                /\ u.forward = MaxResolution /\ u.reverse = MaxResolution
                /\ AsInstant(Encode(v)) = Encode(u)
                /\ AsInstant(Encode(v) - 1) = Encode(u) - 1
<1>1. MaxResolution \in 0 .. ResolutionMask
  BY ResolutionFacts
<1>2. v.forward \in 0 .. ResolutionMask
  BY WordParts DEF Timed, Sound
<1> DEFINE a == Reached(v, v.forward, MaxResolution)
           u == Reached(a, MaxResolution, MaxResolution)
<1>3. Timed(a) /\ a.ba = 1 /\ Milliseconds(a) = Milliseconds(v) /\ a.reverse = MaxResolution
      /\ SetReverse(Encode(v), MaxResolution) = Encode(a)
  BY <1>1, <1>2, TimeReached
<1>4. SetReverse(Encode(v) - 1, MaxResolution) = Encode(a) - 1
  BY <1>1, <1>3, SetBelowType
<1> HIDE DEF a
<1>5. Timed(u) /\ u.ba = 1 /\ Milliseconds(u) = Milliseconds(a)
      /\ u.forward = MaxResolution /\ u.reverse = MaxResolution
      /\ SetForward(Encode(a), MaxResolution) = Encode(Reached(a, MaxResolution, a.reverse))
  BY <1>1, <1>3, TimeReached
<1>6. SetForward(Encode(a), MaxResolution) = Encode(u)
  BY <1>3, <1>5
<1>7. SetForward(Encode(a) - 1, MaxResolution) = Encode(u) - 1
  BY <1>1, <1>3, <1>6, SetBelowType
<1>8. AsInstant(Encode(v)) = Encode(u) /\ AsInstant(Encode(v) - 1) = Encode(u) - 1
  BY <1>3, <1>4, <1>6, <1>7 DEF AsInstant
<1> HIDE DEF u
<1> QED
  BY <1>3, <1>5, <1>8

\* The time is set whatever the type.
LEMMA RetypedIsSet ==
  ASSUME NEW w \in Words, NEW c \in 0 .. 3, NEW ms
  PROVE  /\ FromMilliseconds(Retyped(w, c), ms) = Retyped(FromMilliseconds(w, ms), c)
         /\ Retyped(w, c) \in Words
<1>1. Retyped(w, c) \in Words
  BY WordParts DEF Retyped, Words
<1>2. ASSUME NEW v \in Words, NEW ba, NEW y, NEW rest
      PROVE  Dated(v, ba, y, rest)
               = [ba |-> ba, field |-> [i \in Ids |->
                         IF i = 1 THEN y
                         ELSE (rest \div Scale(i)) % (MaxValue(i) + 1)],
                  forward |-> v.forward, reverse |-> v.reverse, type |-> v.type]
  <2> DEFINE F == [i \in Ids |-> IF i = 1 THEN y
                                 ELSE (rest \div Scale(i)) % (MaxValue(i) + 1)]
             u == [v EXCEPT !.ba = ba]
  <2>1. v = [ba |-> v.ba, field |-> v.field, forward |-> v.forward,
             reverse |-> v.reverse, type |-> v.type]
    BY WordParts
  <2> HIDE DEF F
  <2>2. u = [ba |-> ba, field |-> v.field, forward |-> v.forward,
             reverse |-> v.reverse, type |-> v.type]
    BY <2>1
  <2>3. Dated(v, ba, y, rest) = [u EXCEPT !.field = F]
    BY DEF Dated, F
  <2> HIDE DEF u
  <2>4. [u EXCEPT !.field = F] = [ba |-> ba, field |-> F, forward |-> v.forward,
                                  reverse |-> v.reverse, type |-> v.type]
    BY <2>2
  <2> QED
    BY <2>3, <2>4 DEF F
<1>3. ASSUME NEW ba, NEW y, NEW rest
      PROVE  Dated(Retyped(w, c), ba, y, rest) = Retyped(Dated(w, ba, y, rest), c)
  <2> DEFINE F == [i \in Ids |-> IF i = 1 THEN y
                                 ELSE (rest \div Scale(i)) % (MaxValue(i) + 1)]
             v == Retyped(w, c)
  <2>1. Dated(v, ba, y, rest) = [ba |-> ba, field |-> F, forward |-> v.forward,
                                 reverse |-> v.reverse, type |-> v.type]
    BY <1>1, <1>2
  <2>2. Dated(w, ba, y, rest) = [ba |-> ba, field |-> F, forward |-> w.forward,
                                 reverse |-> w.reverse, type |-> w.type]
    BY <1>2
  <2> HIDE DEF F
  <2>3. v.forward = w.forward /\ v.reverse = w.reverse /\ v.type = c
    BY DEF Retyped
  <2>4. Retyped(Dated(w, ba, y, rest), c) = [ba |-> ba, field |-> F, forward |-> w.forward,
                                             reverse |-> w.reverse, type |-> c]
    BY <2>2 DEF Retyped
  <2> QED
    BY <2>1, <2>3, <2>4
<1>4. FromMilliseconds(Retyped(w, c), ms) = Retyped(FromMilliseconds(w, ms), c)
  <2>1. CASE ms < Scale(1)
    BY <1>3, <2>1 DEF FromMilliseconds
  <2>2. CASE ~(ms < Scale(1))
    BY <1>3, <2>2 DEF FromMilliseconds
  <2> QED
    BY <2>1, <2>2
<1> QED
  BY <1>1, <1>4

\* So is the reach.
LEMMA RetypedReached ==
  ASSUME NEW w \in Words, NEW c \in 0 .. 3, NEW f, NEW r
  PROVE  Reached(Retyped(w, c), f, r) = Retyped(Reached(w, f, r), c)
<1>1. Retyped(w, c) \in Words
  BY RetypedIsSet
<1>2. Reached(Retyped(w, c), f, r)
        = [ba |-> w.ba, field |-> w.field, forward |-> f, reverse |-> r, type |-> c]
  BY <1>1, ReachedIs DEF Retyped
<1>3. Reached(w, f, r)
        = [ba |-> w.ba, field |-> w.field, forward |-> f, reverse |-> r, type |-> w.type]
  BY ReachedIs
<1> QED
  BY <1>2, <1>3 DEF Retyped

\* The bounds of a packed time without its type lack theirs.
LEMMA BoundsBelowType ==
  ASSUME NEW w, Timed(w), w.ba = 1, NEW x, x = Encode(w),
         w.forward \in 0 .. MaxResolution + 1, w.reverse \in 0 .. MaxResolution + 1
  PROVE  /\ Lower(x - 1) = Lower(x) /\ Upper(x - 1) = Upper(x)
         /\ ~NoSuchYear(Decode(x - 1))
         /\ Representable(Lower(x)) =>
              \E a : /\ Timed(a) /\ LowerBound(x) = Encode(a)
                     /\ LowerBound(x - 1) = Encode(Retyped(a, 0))
                     /\ a.reverse = ResolutionMask
         /\ Representable(Upper(x)) =>
              \E b : /\ Timed(b) /\ UpperBound(x) = Encode(b)
                     /\ UpperBound(x - 1) = Encode(Retyped(b, 0))
                     /\ b.reverse = ResolutionMask /\ b.ba = 1
<1> DEFINE v == Retyped(w, 0)
<1>1. /\ Milliseconds(w) \in Int /\ Scale(1) \in Nat /\ w \in Words /\ w.type = 1
      /\ Sound(w) /\ ~NoSuchYear(w)
  BY TimeParts DEF Timed
<1>2. Decode(x) = w
  BY EncodedTime
<1>3. x - 1 = Encode(v) /\ Decode(x - 1) = v
  BY <1>1, TypeCounts, RetypedDecodes
<1>4. v.ba = w.ba /\ v.field = w.field /\ v.forward = w.forward /\ v.reverse = w.reverse
  BY DEF Retyped
<1>5. Milliseconds(v) = Milliseconds(w) /\ (NoSuchYear(v) <=> NoSuchYear(w))
  <2> HIDE DEF v
  <2> QED
    BY <1>4 DEF Milliseconds, FractionOfYear, NoSuchYear
<1>6. Lower(x - 1) = Lower(x) /\ Upper(x - 1) = Upper(x) /\ ~NoSuchYear(Decode(x - 1))
  <2> HIDE DEF v
  <2> QED
    BY <1>1, <1>2, <1>3, <1>4, <1>5 DEF Lower, Upper
<1>7. /\ Lower(x) \in Int /\ Upper(x) \in Int /\ Upper(x) >= Scale(1)
  BY BoundsAreTimes
<1>8. 0 \in 0 .. ResolutionMask /\ ResolutionMask \in 0 .. ResolutionMask
  BY MaskIsNat
<1>9. ASSUME NEW ms \in Int, Representable(ms), NEW f \in 0 .. ResolutionMask
      PROVE  LET a == Reached(FromMilliseconds(w, ms), f, ResolutionMask)
             IN  /\ Timed(a) /\ a.reverse = ResolutionMask
                 /\ a.ba = IF ms < Scale(1) THEN 0 ELSE 1
                 /\ Reached(FromMilliseconds(v, ms), f, ResolutionMask) = Retyped(a, 0)
  <2> DEFINE d == FromMilliseconds(w, ms)
             a == Reached(d, f, ResolutionMask)
  <2>1. /\ Timed(a) /\ a.reverse = ResolutionMask /\ a.ba = IF ms < Scale(1) THEN 0 ELSE 1
    BY <1>1, <1>8, <1>9, SetAndReached
  <2>2. d \in Words
    <3>1. Timed(d)
      BY <1>1, <1>9, FromMillisecondsIsTimed
    <3> HIDE DEF d
    <3> QED
      BY <3>1 DEF Timed, Sound
  <2>3. FromMilliseconds(v, ms) = Retyped(d, 0)
    BY <1>1, RetypedIsSet
  <2> HIDE DEF d
  <2>4. Reached(Retyped(d, 0), f, ResolutionMask) = Retyped(a, 0)
    BY <2>2, RetypedReached
  <2> QED
    BY <2>1, <2>3, <2>4 DEF d
<1>10. ASSUME Representable(Lower(x))
       PROVE  \E a : /\ Timed(a) /\ LowerBound(x) = Encode(a)
                     /\ LowerBound(x - 1) = Encode(Retyped(a, 0))
                     /\ a.reverse = ResolutionMask
  <2> DEFINE a == Reached(FromMilliseconds(w, Lower(x)), 0, ResolutionMask)
  <2>1. /\ Timed(a) /\ a.reverse = ResolutionMask
        /\ Reached(FromMilliseconds(v, Lower(x)), 0, ResolutionMask) = Retyped(a, 0)
    BY <1>7, <1>8, <1>9, <1>10
  <2>2. LowerBound(x) = Encode(a)
    BY <1>2 DEF LowerBound, Reached
  <2> HIDE DEF v
  <2>3. LowerBound(x - 1) = Encode(Reached(FromMilliseconds(v, Lower(x)), 0, ResolutionMask))
    BY <1>3, <1>6 DEF LowerBound, Reached
  <2> HIDE DEF a
  <2> QED
    BY <2>1, <2>2, <2>3
<1>11. ASSUME Representable(Upper(x))
       PROVE  \E b : /\ Timed(b) /\ UpperBound(x) = Encode(b)
                     /\ UpperBound(x - 1) = Encode(Retyped(b, 0))
                     /\ b.reverse = ResolutionMask /\ b.ba = 1
  <2> DEFINE b == Reached(FromMilliseconds(w, Upper(x)), ResolutionMask, ResolutionMask)
  <2>1. /\ Timed(b) /\ b.reverse = ResolutionMask
        /\ b.ba = IF Upper(x) < Scale(1) THEN 0 ELSE 1
        /\ Reached(FromMilliseconds(v, Upper(x)), ResolutionMask, ResolutionMask)
             = Retyped(b, 0)
    BY <1>7, <1>8, <1>9, <1>11
  <2>2. UpperBound(x) = Encode(b)
    BY <1>2 DEF UpperBound, Reached
  <2> HIDE DEF v
  <2>3. UpperBound(x - 1)
          = Encode(Reached(FromMilliseconds(v, Upper(x)), ResolutionMask, ResolutionMask))
    BY <1>3, <1>6 DEF UpperBound, Reached
  <2> HIDE DEF b
  <2>4. b.ba = 1
    BY <1>1, <1>7, <2>1
  <2> QED
    BY <2>1, <2>2, <2>3, <2>4
<1> QED
  BY <1>6, <1>10, <1>11

\* Without its type a bound is masked to the same, or to something before the start.
LEMMA MaskedBelowType ==
  ASSUME NEW a, Sound(a), a.reverse = ResolutionMask
  PROVE  /\ Masked(Encode(a)) \in Int /\ Masked(Encode(Retyped(a, 0))) \in Int
         /\ a.ba = 1 => /\ Masked(Encode(Retyped(a, 0))) = Masked(Encode(a))
                        /\ Masked(Encode(a)) >= 0
         /\ a.ba = 0 => Masked(Encode(a)) < 0 /\ Masked(Encode(Retyped(a, 0))) < 0
<1>1. PICK j \in Nat : Index(a) = 16 * j + 13
  BY BoundIndex
<1>2. Encode(a) = IF a.ba = 0 THEN -(16 * j + 13) ELSE 16 * j + 13
  BY <1>1, EncodeIs
<1>3. Encode(Retyped(a, 0)) = IF a.ba = 0 THEN -(16 * j + 12) ELSE 16 * j + 12
  <2>1. Encode(Retyped(a, 0)) = IF a.ba = 0 THEN -(Index(a) + 0 - 1) ELSE Index(a) + 0 - 1
    BY RetypedEncodes
  <2> QED
    BY <1>1, <2>1
<1>4. /\ Masked(16 * j + 13) = 16 * j /\ Masked(16 * j + 12) = 16 * j
      /\ Masked(-(16 * j + 13)) = -(16 * j + 13) - 1
      /\ Masked(-(16 * j + 12)) = -(16 * j + 12) - 4
  BY MaskedEnds
<1>5. CASE a.ba = 0
  <2>1. Encode(a) = -(16 * j + 13) /\ Encode(Retyped(a, 0)) = -(16 * j + 12)
    BY <1>2, <1>3, <1>5
  <2>2. Masked(Encode(a)) = -(16 * j + 13) - 1
        /\ Masked(Encode(Retyped(a, 0))) = -(16 * j + 12) - 4
    BY <1>4, <2>1
  <2> QED
    BY <1>5, <2>2
<1>6. CASE a.ba # 0
  <2>1. Encode(a) = 16 * j + 13 /\ Encode(Retyped(a, 0)) = 16 * j + 12
    BY <1>2, <1>3, <1>6
  <2>2. Masked(Encode(a)) = 16 * j /\ Masked(Encode(Retyped(a, 0))) = 16 * j
    BY <1>4, <2>1
  <2> QED
    BY <1>6, <2>2
<1> QED
  BY <1>5, <1>6

\* Whether values overlap does not depend on the type of the second.
LEMMA OverlapBelowType ==
  ASSUME NEW w, Timed(w), w.ba = 1, NEW x, x = Encode(w),
         w.forward \in 0 .. MaxResolution + 1, w.reverse \in 0 .. MaxResolution + 1,
         NEW v, Timed(v), v.ba = 1, NEW y, y = Encode(v),
         v.forward \in 0 .. MaxResolution + 1, v.reverse \in 0 .. MaxResolution + 1
  PROVE  /\ CanOverlap(x, y - 1) <=> CanOverlap(x, y)
         /\ CanOverlap(x, y) => (Overlap(x, y - 1) <=> Overlap(x, y))
<1>1. /\ Lower(y - 1) = Lower(y) /\ Upper(y - 1) = Upper(y)
      /\ ~NoSuchYear(Decode(y - 1))
  BY BoundsBelowType
<1>2. ~NoSuchYear(Decode(y))
  BY BoundsAreTimes
<1>3. CanOverlap(x, y - 1) <=> CanOverlap(x, y)
  BY <1>1, <1>2 DEF CanOverlap, HasBounds
<1>4. ASSUME CanOverlap(x, y)
      PROVE  Overlap(x, y - 1) <=> Overlap(x, y)
  <2>1. /\ Representable(Lower(x)) /\ Representable(Upper(x))
        /\ Representable(Lower(y)) /\ Representable(Upper(y))
    BY <1>4 DEF CanOverlap, HasBounds
  <2>2. PICK a : /\ Timed(a) /\ LowerBound(y) = Encode(a)
                 /\ LowerBound(y - 1) = Encode(Retyped(a, 0))
                 /\ a.reverse = ResolutionMask
    BY <2>1, BoundsBelowType
  <2>3. PICK b : /\ Timed(b) /\ UpperBound(y) = Encode(b)
                 /\ UpperBound(y - 1) = Encode(Retyped(b, 0))
                 /\ b.reverse = ResolutionMask /\ b.ba = 1
    BY <2>1, BoundsBelowType
  <2>4. PICK c : /\ Timed(c) /\ UpperBound(x) = Encode(c)
                 /\ c.reverse = ResolutionMask /\ c.ba = 1
    BY <2>1, BoundsAreTimes
  <2>5. Sound(a) /\ Sound(b) /\ Sound(c) /\ a.ba \in 0 .. 1
    BY <2>2, <2>3, <2>4, TimeParts DEF Timed
  <2>6. /\ Masked(Encode(a)) \in Int /\ Masked(Encode(Retyped(a, 0))) \in Int
        /\ a.ba = 1 => Masked(Encode(Retyped(a, 0))) = Masked(Encode(a))
        /\ a.ba = 0 => Masked(Encode(a)) < 0 /\ Masked(Encode(Retyped(a, 0))) < 0
    BY <2>2, <2>5, MaskedBelowType
  <2>7. Masked(Encode(Retyped(b, 0))) = Masked(Encode(b))
    BY <2>3, <2>5, MaskedBelowType
  <2>8. Masked(Encode(c)) \in Int /\ Masked(Encode(c)) >= 0
    BY <2>4, <2>5, MaskedBelowType
  <2>9. Masked(UpperBound(y - 1)) = Masked(UpperBound(y))
    BY <2>3, <2>7
  <2>10. Masked(UpperBound(x)) >= Masked(LowerBound(y - 1))
           <=> Masked(UpperBound(x)) >= Masked(LowerBound(y))
    BY <2>2, <2>4, <2>5, <2>6, <2>8
  <2> QED
    BY <2>9, <2>10 DEF Overlap
<1> QED
  BY <1>3, <1>4

\* Nor does whether an instant is contained.
LEMMA ContainsBelowType ==
  ASSUME NEW w, Timed(w), w.ba = 1, Found(w), NEW v, Timed(v), v.ba = 1
  PROVE  /\ CanContain(Encode(w), Encode(v) - 1) <=> CanContain(Encode(w), Encode(v))
         /\ CanContain(Encode(w), Encode(v)) =>
              (ContainsInstant(Encode(w), Encode(v) - 1)
                 <=> ContainsInstant(Encode(w), Encode(v)))
<1>1. PICK u : /\ Timed(u) /\ u.ba = 1
               /\ u.forward = MaxResolution /\ u.reverse = MaxResolution
               /\ AsInstant(Encode(v)) = Encode(u)
               /\ AsInstant(Encode(v) - 1) = Encode(u) - 1
  BY InstantBelowType
<1>2. MaxResolution \in 0 .. MaxResolution + 1
  BY ResolutionFacts
<1>3. u.forward \in 0 .. MaxResolution + 1 /\ u.reverse \in 0 .. MaxResolution + 1
      /\ w.forward \in 0 .. MaxResolution + 1 /\ w.reverse \in 0 .. MaxResolution + 1
  BY <1>1, <1>2 DEF Found
<1>4. /\ CanOverlap(Encode(w), Encode(u) - 1) <=> CanOverlap(Encode(w), Encode(u))
      /\ CanOverlap(Encode(w), Encode(u)) =>
           (Overlap(Encode(w), Encode(u) - 1) <=> Overlap(Encode(w), Encode(u)))
  BY <1>1, <1>3, OverlapBelowType
<1> QED
  BY <1>1, <1>4 DEF CanContain, ContainsInstant

\* A value is made to reach a bound whether or not the bound has its type.
LEMMA ReachBelowType ==
  ASSUME NEW w, Timed(w), w.ba = 1, Found(w), NEW v, Timed(v), v.ba = 1
  PROVE  /\ ReachLower(Encode(w), Encode(v) - 1) = ReachLower(Encode(w), Encode(v))
         /\ ReachUpper(Encode(w), Encode(v) - 1) = ReachUpper(Encode(w), Encode(v))
<1>1. Encode(v) \in Int /\ Encode(v) > 0
  BY EncodedTime
<1>2. ~(Encode(v) < 0) /\ ~(Encode(v) - 1 < 0)
  BY <1>1
<1>3. /\ CanContain(Encode(w), Encode(v) - 1) <=> CanContain(Encode(w), Encode(v))
      /\ CanContain(Encode(w), Encode(v)) =>
           (ContainsInstant(Encode(w), Encode(v) - 1)
              <=> ContainsInstant(Encode(w), Encode(v)))
  BY ContainsBelowType
<1>4. ReachLower(Encode(w), Encode(v) - 1) = ReachLower(Encode(w), Encode(v))
  BY <1>2, <1>3 DEF ReachLower
<1>5. ReachUpper(Encode(w), Encode(v) - 1) = ReachUpper(Encode(w), Encode(v))
  BY <1>2, <1>3 DEF ReachUpper
<1> QED
  BY <1>4, <1>5

\* A masked bound is still at its time, and after the start it is a packed time
\* but for its type.
LEMMA MaskedIsTime ==
  ASSUME NEW a, Timed(a), a.reverse = ResolutionMask
  PROVE  /\ Milliseconds(Decode(Masked(Encode(a)))) = Milliseconds(a)
         /\ a.ba = 0 => Masked(Encode(a)) < 0
         /\ a.ba = 1 => \E v : /\ Timed(v) /\ v.ba = 1 /\ Milliseconds(v) = Milliseconds(a)
                               /\ Masked(Encode(a)) = Encode(v) - 1
<1>1. Sound(a) /\ ~NoSuchYear(a) /\ a \in Words /\ a.type = 1 /\ a.ba \in 0 .. 1
  BY TimeParts DEF Timed
<1>2. ASSUME NEW w, NEW c
      PROVE  Milliseconds(Retyped(w, c)) = Milliseconds(w)
  <2>1. Retyped(w, c).ba = w.ba /\ Retyped(w, c).field = w.field
    BY DEF Retyped
  <2> QED
    BY <2>1 DEF Milliseconds, FractionOfYear
<1>3. CASE a.ba = 0
  <2>1. Masked(Encode(a)) = Encode(a) - 1 /\ Encode(a) < 0
    BY <1>1, <1>3, MaskedBound
  <2>2. Encode(Retyped(a, 2)) = Encode(a) - 1
    BY <1>1, <1>3, TypeCounts
  <2>3. Decode(Encode(Retyped(a, 2))) = Retyped(a, 2)
    BY <1>1, RetypedDecodes
  <2>4. Masked(Encode(a)) < 0
    BY <1>1, <1>3, MaskedBelowType
  <2>5. Milliseconds(Decode(Masked(Encode(a)))) = Milliseconds(a)
    BY <1>2, <2>1, <2>2, <2>3
  <2> QED
    BY <1>3, <2>4, <2>5
<1>4. CASE a.ba = 1
  <2>1. PICK k \in Nat : k > 0 /\ ResolutionMask = 4 * k - 1
    BY MaskEndsInOnes
  <2> DEFINE r == ResolutionMask - 3
             v == Reached(a, a.forward, r)
  <2>2. r \in 0 .. ResolutionMask /\ r \in Int /\ ResolutionMask \in Int
    BY <2>1
  <2>3. a.forward \in 0 .. ResolutionMask
    BY <1>1, WordParts
  <2> HIDE DEF r
  <2>4. Timed(v) /\ v.ba = 1 /\ Milliseconds(v) = Milliseconds(a)
        /\ SetReverse(Encode(a), r) = Encode(v)
    BY <1>4, <2>2, <2>3, TimeReached
  <2> HIDE DEF v
  <2>5. Encode(v) = Encode(a) - 12
    <3>1. Bits(Encode(a), ReverseOffset, ResolutionWidth) = ResolutionMask
          /\ Encode(a) \in Int
      BY <1>4, EncodedTime DEF ReverseResolution
    <3>2. Two[ReverseOffset] = 4
      BY LowPowers
    <3>3. SetReverse(Encode(a), r) = Encode(a) + (r - ResolutionMask) * 4
      BY <3>1, <3>2 DEF SetReverse, WithBits
    <3>4. r - ResolutionMask = -3
      BY <2>2 DEF r
    <3> QED
      BY <2>4, <3>1, <3>3, <3>4
  <2>6. Masked(Encode(a)) = Encode(a) - 13 /\ Encode(a) \in Int
    BY <1>1, <1>4, MaskedBound, EncodedTime
  <2>7. Masked(Encode(a)) = Encode(v) - 1
    BY <2>5, <2>6
  <2>8. Sound(v) /\ ~NoSuchYear(v)
    BY <2>4 DEF Timed
  <2>9. Encode(Retyped(v, 0)) = Encode(v) - 1 /\ Decode(Encode(Retyped(v, 0))) = Retyped(v, 0)
    BY <2>4, <2>8, TypeCounts, RetypedDecodes
  <2>10. Milliseconds(Decode(Masked(Encode(a)))) = Milliseconds(a)
    BY <1>2, <2>4, <2>7, <2>9
  <2> QED
    BY <1>4, <2>4, <2>7, <2>10
<1> QED
  BY <1>1, <1>3, <1>4

\* Words of one time that reach equally far are packed alike.
LEMMA SameTimeSameWord ==
  ASSUME NEW a, Timed(a), NEW b, Timed(b), Milliseconds(a) = Milliseconds(b),
         a.forward = b.forward, a.reverse = b.reverse
  PROVE  a = b
<1>1. a \in Words /\ b \in Words /\ a.type = 1 /\ b.type = 1
  BY TimeParts
<1>2. a.field = b.field /\ a.ba = b.ba
  BY SameTimeSameFields
<1>3. /\ a = [ba |-> a.ba, field |-> a.field, forward |-> a.forward,
              reverse |-> a.reverse, type |-> a.type]
      /\ b = [ba |-> b.ba, field |-> b.field, forward |-> b.forward,
              reverse |-> b.reverse, type |-> b.type]
  BY <1>1, WordParts
<1> QED
  BY <1>1, <1>2, <1>3

\* Masked bounds of one kind are sorted by time, before and after the start.
LEMMA BoundsSort ==
  ASSUME NEW a, Timed(a), NEW b, Timed(b), a.forward = b.forward,
         a.reverse = ResolutionMask, b.reverse = ResolutionMask
  PROVE  /\ Masked(Encode(a)) <= Masked(Encode(b)) <=> Milliseconds(a) <= Milliseconds(b)
         /\ Masked(Encode(a)) \in Int /\ Masked(Encode(b)) \in Int
         /\ Milliseconds(a) \in Int /\ Milliseconds(b) \in Int
<1>1. /\ Milliseconds(a) \in Int /\ Milliseconds(b) \in Int
      /\ Sound(a) /\ Sound(b) /\ a.ba \in 0 .. 1 /\ b.ba \in 0 .. 1
  BY TimeParts DEF Timed
<1>2. Masked(Encode(a)) \in Int /\ Masked(Encode(b)) \in Int
  BY <1>1, MaskedBelowType
<1>3. ASSUME NEW c, NEW d, Timed(c), Timed(d), Sound(c), Sound(d),
             c.reverse = ResolutionMask, d.reverse = ResolutionMask,
             Milliseconds(c) < Milliseconds(d)
      PROVE  Masked(Encode(c)) < Masked(Encode(d))
  <2>1. /\ Encode(c) < Encode(d)
    BY <1>3, EncodeSortsTime
  <2>2. /\ Scale(1) \in Nat /\ Milliseconds(c) \in Int /\ Milliseconds(d) \in Int
        /\ c.ba \in 0 .. 1 /\ d.ba \in 0 .. 1
        /\ c.ba = 1 <=> Milliseconds(c) >= Scale(1)
        /\ d.ba = 1 <=> Milliseconds(d) >= Scale(1)
    BY <1>3, TimeParts
  <2>3. /\ c.ba = 1 => Masked(Encode(c)) = Encode(c) - 13 /\ Encode(c) >= 13
        /\ c.ba = 0 => Masked(Encode(c)) = Encode(c) - 1 /\ Encode(c) < 0
    BY <1>3, MaskedBound
  <2>4. /\ d.ba = 1 => Masked(Encode(d)) = Encode(d) - 13 /\ Encode(d) >= 13
        /\ d.ba = 0 => Masked(Encode(d)) = Encode(d) - 1 /\ Encode(d) < 0
    BY <1>3, MaskedBound
  <2>5. Encode(c) \in Int /\ Encode(d) \in Int
    <3>1. Index(c) \in Nat /\ Encode(c) = IF c.ba = 0 THEN -Index(c) ELSE Index(c)
      BY <1>3, IndexFacts, EncodeIs
    <3>2. Index(d) \in Nat /\ Encode(d) = IF d.ba = 0 THEN -Index(d) ELSE Index(d)
      BY <1>3, IndexFacts, EncodeIs
    <3> QED
      BY <3>1, <3>2
  <2>6. c.ba = 1 => d.ba = 1
    BY <1>3, <2>2
  <2> QED
    BY <2>1, <2>2, <2>3, <2>4, <2>5, <2>6
<1>4. CASE Milliseconds(a) < Milliseconds(b)
  <2>1. Masked(Encode(a)) < Masked(Encode(b))
    BY <1>1, <1>3, <1>4
  <2> QED
    BY <1>1, <1>2, <1>4, <2>1
<1>5. CASE Milliseconds(b) < Milliseconds(a)
  <2>1. Masked(Encode(b)) < Masked(Encode(a))
    BY <1>1, <1>3, <1>5
  <2> QED
    BY <1>1, <1>2, <1>5, <2>1
<1>6. CASE Milliseconds(a) = Milliseconds(b)
  <2>1. a = b
    BY <1>6, SameTimeSameWord
  <2> QED
    BY <1>1, <1>2, <2>1
<1> QED
  BY <1>1, <1>4, <1>5, <1>6

\* The least of two masked bounds is that of the earlier time.
LEMMA LeastBound ==
  ASSUME NEW a, Timed(a), NEW b, Timed(b), a.forward = b.forward,
         a.reverse = ResolutionMask, b.reverse = ResolutionMask
  PROVE  \E c : /\ c = a \/ c = b
                /\ Min({Masked(Encode(a)), Masked(Encode(b))}) = Masked(Encode(c))
                /\ Min({Milliseconds(a), Milliseconds(b)}) = Milliseconds(c)
<1>1. /\ Masked(Encode(a)) <= Masked(Encode(b)) <=> Milliseconds(a) <= Milliseconds(b)
      /\ Masked(Encode(a)) \in Int /\ Masked(Encode(b)) \in Int
      /\ Milliseconds(a) \in Int /\ Milliseconds(b) \in Int
  BY BoundsSort
<1>2. Min({Masked(Encode(a)), Masked(Encode(b))})
        = IF Masked(Encode(a)) <= Masked(Encode(b)) THEN Masked(Encode(a)) ELSE Masked(Encode(b))
  BY <1>1, LeastOfTwo
<1>3. Min({Milliseconds(a), Milliseconds(b)})
        = IF Milliseconds(a) <= Milliseconds(b) THEN Milliseconds(a) ELSE Milliseconds(b)
  BY <1>1, LeastOfTwo
<1> QED
  BY <1>1, <1>2, <1>3

\* And the greatest.
LEMMA GreatestBound ==
  ASSUME NEW a, Timed(a), NEW b, Timed(b), a.forward = b.forward,
         a.reverse = ResolutionMask, b.reverse = ResolutionMask
  PROVE  \E c : /\ c = a \/ c = b
                /\ Max({Masked(Encode(a)), Masked(Encode(b))}) = Masked(Encode(c))
                /\ Max({Milliseconds(a), Milliseconds(b)}) = Milliseconds(c)
<1>1. /\ Masked(Encode(a)) <= Masked(Encode(b)) <=> Milliseconds(a) <= Milliseconds(b)
      /\ Masked(Encode(a)) \in Int /\ Masked(Encode(b)) \in Int
      /\ Milliseconds(a) \in Int /\ Milliseconds(b) \in Int
  BY BoundsSort
<1>2. Max({Masked(Encode(a)), Masked(Encode(b))})
        = IF Masked(Encode(a)) <= Masked(Encode(b)) THEN Masked(Encode(b)) ELSE Masked(Encode(a))
  BY <1>1, GreatestOfTwo
<1>3. Max({Milliseconds(a), Milliseconds(b)})
        = IF Milliseconds(a) <= Milliseconds(b) THEN Milliseconds(b) ELSE Milliseconds(a)
  BY <1>1, GreatestOfTwo
<1> QED
  BY <1>1, <1>2, <1>3

\* The middle of two times, and how far it is from them.
LEMMA MiddleIs ==
  ASSUME NEW l \in Int, NEW u \in Int, l <= u
  PROVE  /\ Half(u - l) \in Nat /\ Half(l + u) \in Int
         /\ l <= Half(l + u) /\ Half(l + u) <= u
         /\ Half(l + u) > 0 => /\ Half(l + u) - l = Half(u - l)
                               /\ u - Half(l + u) <= Half(u - l) + 1
<1>1. PICK d \in Nat : u = l + d
  <2>1. u - l \in Nat /\ u = l + (u - l)
    OBVIOUS
  <2> QED
    BY <2>1
<1>2. PICK k \in Nat, e \in 0 .. 1 : d = 2 * k + e
  <2>1. d \div 2 \in Nat /\ d % 2 \in 0 .. 1 /\ d = 2 * (d \div 2) + (d % 2)
    OBVIOUS
  <2> QED
    BY <2>1
<1>3. u - l = 2 * k + e /\ l + u = 2 * (l + k) + e
  BY <1>1, <1>2
<1>4. ASSUME NEW n \in Int, NEW c \in 0 .. 1
      PROVE  (2 * n + c) \div 2 = n
  OBVIOUS
<1>5. Half(u - l) = k
  <2>1. ~(u - l < 0)
    BY <1>3
  <2>2. Half(u - l) = (2 * k + e) \div 2
    BY <1>3, <2>1 DEF Half
  <2> QED
    BY <1>4, <2>2
<1>6. CASE ~(l + u < 0)
  <2>1. Half(l + u) = (2 * (l + k) + e) \div 2
    BY <1>3, <1>6 DEF Half
  <2>2. l + k \in Int
    OBVIOUS
  <2>3. (2 * (l + k) + e) \div 2 = l + k
    BY <1>4, <2>2
  <2>4. Half(l + u) = l + k
    BY <2>1, <2>3
  <2> QED
    BY <1>1, <1>2, <1>5, <2>4
<1>7. CASE l + u < 0
  <2>1. Half(l + u) = -((-(l + u)) \div 2)
    BY <1>7 DEF Half
  <2>2. -(l + u) = 2 * (-(l + k + e)) + e
    BY <1>3
  <2>3. -(l + k + e) \in Int
    OBVIOUS
  <2> DEFINE n == -(l + k + e)
  <2>4. n \in Int
    OBVIOUS
  <2> HIDE DEF n
  <2>5. (2 * n + e) \div 2 = n
    BY <1>4, <2>4
  <2>6. Half(l + u) = -n
    BY <2>1, <2>2, <2>5 DEF n
  <2>7. Half(l + u) = l + k + e
    BY <2>6 DEF n
  <2>8. Half(l + u) <= 0
    BY <1>3, <1>7, <2>7
  <2> QED
    BY <1>1, <1>2, <1>5, <2>7, <2>8
<1> QED
  BY <1>6, <1>7

\* The value in the middle: before the start it is an integer nothing can be
\* made of.
LEMMA BetweenIs ==
  ASSUME NEW L, NEW U, NEW l \in Int, NEW u \in Int, l <= u,
         Milliseconds(Decode(L)) = l, Milliseconds(Decode(U)) = u,
         Representable(l), Representable(u)
  PROVE  /\ Between(L, U) \in Int
         /\ Half(l + u) < Scale(1) => ~(Between(L, U) % 4 = 1)
         /\ Half(l + u) >= Scale(1) =>
              \E m : /\ Timed(m) /\ m.ba = 1 /\ Milliseconds(m) = Half(l + u)
                     /\ m.forward = Resolve(Half(u - l)) /\ m.reverse = Resolve(Half(u - l))
                     /\ Found(m) /\ Between(L, U) = Encode(m)
<1> DEFINE t == Half(l + u)
           h == Half(u - l)
           r == Resolve(h)
           m == Reached(FromMilliseconds(ZeroWord, t), r, r)
<1>1. h \in Nat /\ t \in Int /\ l <= t /\ t <= u
  BY MiddleIs
<1>2. Between(L, U) = Encode(m)
  BY DEF Between, Reached
<1> HIDE DEF t, h
<1>3. r \in 0 .. MaxResolution + 1 /\ r \in 0 .. ResolutionMask
  <2>1. r \in 0 .. MaxResolution + 1
    BY <1>1, ResolveFits
  <2> HIDE DEF r
  <2> QED
    BY <2>1, ResolutionFacts
<1> HIDE DEF r
<1>4. Representable(t)
  <2>1. FirstMillisecond \in Int /\ LastMillisecond \in Int
    <3>1. Scale(1) \in Nat /\ MaxValue(1) \in Nat
      BY FormatFacts
    <3> QED
      BY <3>1 DEF FirstMillisecond, LastMillisecond
  <2> QED
    BY <1>1, <2>1 DEF Representable
<1>5. ZeroWord \in Words /\ ZeroWord.type = 1
  BY ZeroWordIs
<1>6. /\ Timed(m) /\ Milliseconds(m) = t /\ m.forward = r /\ m.reverse = r
      /\ m.ba = IF t < Scale(1) THEN 0 ELSE 1
  BY <1>1, <1>3, <1>4, <1>5, SetAndReached
<1> HIDE DEF m
<1>7. Scale(1) \in Nat /\ Sound(m)
  BY <1>6, TimeParts DEF Timed
<1>8. PICK n \in Nat : Index(m) = 4 * n + 1
  BY <1>7, IndexEndsInOne
<1>9. Encode(m) = IF m.ba = 0 THEN -(4 * n + 1) ELSE 4 * n + 1
  BY <1>7, <1>8, EncodeIs
<1>10. ASSUME t < Scale(1)
       PROVE  ~(Between(L, U) % 4 = 1)
  <2>1. Between(L, U) = -(4 * n + 1)
    BY <1>2, <1>6, <1>9, <1>10
  <2>2. -(4 * n + 1) = 4 * (-n - 1) + 3 /\ -n - 1 \in Int
    OBVIOUS
  <2>3. ASSUME NEW k \in Int PROVE (4 * k + 3) % 4 = 3
    OBVIOUS
  <2>4. Between(L, U) % 4 = 3
    BY <2>1, <2>2, <2>3
  <2> QED
    BY <2>4
<1>11. ASSUME t >= Scale(1)
       PROVE  \E v : /\ Timed(v) /\ v.ba = 1 /\ Milliseconds(v) = t
                     /\ v.forward = r /\ v.reverse = r
                     /\ Found(v) /\ Between(L, U) = Encode(v)
  <2>1. m.ba = 1
    BY <1>1, <1>6, <1>7, <1>11
  <2>2. Found(m)
    BY <1>3, <1>6 DEF Found
  <2> QED
    BY <1>2, <1>6, <2>1, <2>2
<1>12. Between(L, U) \in Int
  BY <1>2, <1>9
<1> QED
  BY <1>10, <1>11, <1>12 DEF t, h, r

\* A value in the middle is made to reach the lower of its bounds, unless that
\* one is before the start.
LEMMA LowerHull ==
  ASSUME NEW m, Timed(m), m.ba = 1, Found(m), NEW a, Timed(a), a.reverse = ResolutionMask,
         Milliseconds(a) <= Milliseconds(m),
         m.reverse = Resolve(Milliseconds(m) - Milliseconds(a)),
         ReachLower(Encode(m), Masked(Encode(a))) # Throws
  PROVE  \E r : /\ r \in 0 .. MaxResolution + 1
                /\ ReachLower(Encode(m), Masked(Encode(a))) = Encode(Reached(m, m.forward, r))
                /\ (a.ba = 1 /\ r > 0) =>
                     MillisecondsAt[r] + 1 >= Milliseconds(m) - Milliseconds(a)
<1> DEFINE L == Masked(Encode(a))
<1>1. a.ba \in 0 .. 1
  BY TimeParts
<1>2. CASE a.ba = 0
  <2>1. L < 0
    BY <1>2, MaskedIsTime
  <2>2. ReachLower(Encode(m), L) = Encode(m)
    BY <2>1 DEF ReachLower
  <2>3. Encode(m) = Encode(Reached(m, m.forward, m.reverse))
    BY ReachedSame
  <2>4. m.reverse \in 0 .. MaxResolution + 1
    BY DEF Found
  <2> QED
    BY <1>2, <2>2, <2>3, <2>4
<1>3. CASE a.ba = 1
  <2>1. PICK v : /\ Timed(v) /\ v.ba = 1 /\ Milliseconds(v) = Milliseconds(a)
                 /\ L = Encode(v) - 1
    BY <1>3, MaskedIsTime
  <2>2. ReachLower(Encode(m), L) = ReachLower(Encode(m), Encode(v))
    BY <2>1, ReachBelowType
  <2>3. ReachLower(Encode(m), Encode(v)) # Throws
    BY <2>2
  <2>4. PICK r : /\ r \in 0 .. MaxResolution + 1
                 /\ JustReaches(r, Milliseconds(m) - Milliseconds(v))
                 /\ ReachLower(Encode(m), Encode(v)) = Encode(Reached(m, m.forward, r))
    <3>1. Milliseconds(v) <= Milliseconds(m)
          /\ m.reverse = Resolve(Milliseconds(m) - Milliseconds(v))
      BY <2>1
    <3> QED
      BY <2>1, <2>3, <3>1, ReachLowerIs
  <2>5. r > 0 => MillisecondsAt[r] + 1 >= Milliseconds(m) - Milliseconds(a)
    BY <2>1, <2>4 DEF JustReaches
  <2> QED
    BY <2>2, <2>4, <2>5
<1> QED
  BY <1>1, <1>2, <1>3

\* And the upper one, from which it may be a millisecond further than from the
\* lower, which its resolution was found for.
LEMMA UpperHull ==
  ASSUME NEW m, Timed(m), m.ba = 1, Found(m),
         NEW b, Timed(b), b.reverse = ResolutionMask, b.ba = 1,
         Milliseconds(m) <= Milliseconds(b),
         NEW h \in Nat, Milliseconds(b) - Milliseconds(m) <= h + 1, m.forward = Resolve(h),
         ReachUpper(Encode(m), Masked(Encode(b))) # Throws
  PROVE  \E f : /\ f \in 0 .. MaxResolution + 1
                /\ ReachUpper(Encode(m), Masked(Encode(b))) = Encode(Reached(m, f, m.reverse))
                /\ f > 0 => MillisecondsAt[f] + 1 >= Milliseconds(b) - Milliseconds(m)
<1> DEFINE U == Masked(Encode(b))
           d == Milliseconds(b) - Milliseconds(m)
           s == m.forward
<1>1. PICK v : /\ Timed(v) /\ v.ba = 1 /\ Milliseconds(v) = Milliseconds(b)
               /\ U = Encode(v) - 1
  BY MaskedIsTime
<1>2. ReachUpper(Encode(m), U) = ReachUpper(Encode(m), Encode(v))
  BY <1>1, ReachBelowType
<1>3. ReachUpper(Encode(m), Encode(v)) # Throws
  BY <1>2
<1>4. PICK f : /\ f \in 0 .. MaxResolution + 1
               /\ f = IF MillisecondsAt[m.forward] + 1 >= Milliseconds(v) - Milliseconds(m)
                      THEN m.forward ELSE MaxOf(m.forward - 1, 0)
               /\ ReachUpper(Encode(m), Encode(v)) = Encode(Reached(m, f, m.reverse))
  <2>1. Milliseconds(m) <= Milliseconds(v)
    BY <1>1
  <2> QED
    BY <1>1, <1>3, <2>1, ReachUpperSteps
<1>5. f = IF MillisecondsAt[s] + 1 >= d THEN s ELSE MaxOf(s - 1, 0)
  BY <1>1, <1>4
<1>6. /\ s \in 0 .. MaxResolution + 1
      /\ s > 0 => h < MillisecondsAt[s - 1]
  BY ResolveFits
<1>7. d \in Int /\ d <= h + 1 /\ MaxResolution \in Nat
  BY TimeParts, ResolutionFacts
<1> HIDE DEF d, s
<1>8. f > 0 => MillisecondsAt[f] + 1 >= d
  <2> SUFFICES ASSUME f > 0 PROVE MillisecondsAt[f] + 1 >= d
    OBVIOUS
  <2>1. CASE MillisecondsAt[s] + 1 >= d
    BY <1>5, <2>1
  <2>2. CASE ~(MillisecondsAt[s] + 1 >= d)
    <3>1. f = s - 1 /\ s > 0
      BY <1>4, <1>5, <1>6, <1>7, <2>2 DEF MaxOf
    <3>2. h < MillisecondsAt[f]
      BY <1>6, <3>1
    <3>3. MillisecondsAt[f] \in Nat
      BY <1>4, ResolutionsDescend
    <3> QED
      BY <1>7, <3>2, <3>3
  <2> QED
    BY <2>1, <2>2
<1> QED
  BY <1>2, <1>4, <1>8 DEF d

\* What covers the time between two bounds nearly covers it, if it is made at all.
LEMMA HullCovers ==
  ASSUME NEW a, Timed(a), a.reverse = ResolutionMask,
         NEW b, Timed(b), b.reverse = ResolutionMask, b.ba = 1,
         Milliseconds(a) <= Milliseconds(b)
  PROVE  LET L == Masked(Encode(a))
             U == Masked(Encode(b))
             y == ReachLower(Between(L, U), L)
         IN  /\ Between(L, U) \in Int /\ y \in Int
             /\ NearlyCovers(ReachUpper(y, U), Milliseconds(a), Milliseconds(b))
<1> DEFINE L == Masked(Encode(a))
           U == Masked(Encode(b))
           l == Milliseconds(a)
           u == Milliseconds(b)
           t == Half(l + u)
           h == Half(u - l)
           x == Between(L, U)
           y == ReachLower(x, L)
           z == ReachUpper(y, U)
<1>1. /\ l \in Int /\ u \in Int /\ Representable(l) /\ Representable(u)
      /\ Scale(1) \in Nat /\ Scale(1) > 0
      /\ a.ba \in 0 .. 1 /\ (a.ba = 1 <=> l >= Scale(1))
  BY TimeParts
<1>2. Milliseconds(Decode(L)) = l /\ Milliseconds(Decode(U)) = u
  BY MaskedIsTime
<1>3. U \in Int /\ U >= 0 /\ ~(U < 0)
  <2>1. Sound(b)
    BY DEF Timed
  <2>2. Masked(Encode(b)) \in Int /\ Masked(Encode(b)) >= 0
    BY <2>1, MaskedBelowType
  <2> QED
    BY <2>2
<1> HIDE DEF L, U, l, u
<1>4. /\ h \in Nat /\ t \in Int /\ l <= t /\ t <= u
      /\ t > 0 => t - l = h /\ u - t <= h + 1
  BY <1>1, MiddleIs DEF l, u
<1>5. /\ x \in Int
      /\ t < Scale(1) => ~(x % 4 = 1)
      /\ t >= Scale(1) =>
           \E m : /\ Timed(m) /\ m.ba = 1 /\ Milliseconds(m) = t
                  /\ m.forward = Resolve(h) /\ m.reverse = Resolve(h)
                  /\ Found(m) /\ x = Encode(m)
  BY <1>1, <1>2, BetweenIs DEF l, u
<1> HIDE DEF t, h, x
<1>6. CASE t < Scale(1)
  <2>1. ~CanContain(x, L) /\ ~CanContain(x, U)
    BY <1>5, <1>6 DEF CanContain, CanOverlap
  <2>2. y = IF L < 0 THEN x ELSE Throws
    BY <2>1 DEF ReachLower
  <2>3. z = Throws
    <3>1. CASE y = Throws
      BY <3>1 DEF ReachUpper
    <3>2. CASE y # Throws
      BY <1>3, <2>1, <2>2, <3>2 DEF ReachUpper
    <3> QED
      BY <3>1, <3>2
  <2>4. y \in Int
    BY <1>5, <2>2 DEF Throws
  <2>5. NearlyCovers(z, l, u)
    BY <2>3 DEF NearlyCovers
  <2> QED
    BY <1>5, <2>4, <2>5 DEF L, U, l, u, x
<1>7. CASE t >= Scale(1)
  <2>1. PICK m : /\ Timed(m) /\ m.ba = 1 /\ Milliseconds(m) = t
                 /\ m.forward = Resolve(h) /\ m.reverse = Resolve(h)
                 /\ Found(m) /\ x = Encode(m)
    BY <1>5, <1>7
  <2>2. t - l = h /\ u - t <= h + 1
    BY <1>1, <1>4, <1>7
  <2>3. CASE y = Throws
    <3>1. z = Throws
      BY <2>3 DEF ReachUpper
    <3>2. y \in Int /\ NearlyCovers(z, l, u)
      BY <2>3, <3>1 DEF NearlyCovers, Throws
    <3> QED
      BY <1>5, <3>2 DEF L, U, l, u, x
  <2>4. CASE y # Throws
    <3>1. PICK r : /\ r \in 0 .. MaxResolution + 1
                   /\ y = Encode(Reached(m, m.forward, r))
                   /\ (a.ba = 1 /\ r > 0) => MillisecondsAt[r] + 1 >= t - l
      <4>1. Milliseconds(a) <= Milliseconds(m)
            /\ m.reverse = Resolve(Milliseconds(m) - Milliseconds(a))
            /\ ReachLower(Encode(m), Masked(Encode(a))) # Throws
        BY <1>4, <2>1, <2>2, <2>4 DEF l, L
      <4>2. \E r : /\ r \in 0 .. MaxResolution + 1
                   /\ ReachLower(Encode(m), Masked(Encode(a)))
                        = Encode(Reached(m, m.forward, r))
                   /\ (a.ba = 1 /\ r > 0) =>
                        MillisecondsAt[r] + 1 >= Milliseconds(m) - Milliseconds(a)
        BY <2>1, <4>1, LowerHull
      <4> QED
        BY <2>1, <4>2 DEF l, L
    <3> DEFINE p == Reached(m, m.forward, r)
    <3>2. r \in 0 .. ResolutionMask /\ m.forward \in 0 .. ResolutionMask
          /\ m.forward \in 0 .. MaxResolution + 1
      <4>1. m.forward \in 0 .. MaxResolution + 1
        BY <2>1 DEF Found
      <4> QED
        BY <3>1, <4>1, ResolutionFacts
    <3>3. /\ Timed(p) /\ p.ba = 1 /\ Milliseconds(p) = t
          /\ p.forward = m.forward /\ p.reverse = r /\ y = Encode(p)
      BY <2>1, <3>1, <3>2, TimeReached
    <3> HIDE DEF p
    <3>4. Found(p)
      BY <3>1, <3>2, <3>3 DEF Found
    <3>5. y \in Int
      BY <3>3, EncodedIsTime
    <3>6. NearlyCovers(z, l, u)
      <4> SUFFICES ASSUME z # Throws PROVE NearlyCovers(z, l, u)
        BY DEF NearlyCovers
      <4>1. PICK f : /\ f \in 0 .. MaxResolution + 1
                     /\ z = Encode(Reached(p, f, p.reverse))
                     /\ f > 0 => MillisecondsAt[f] + 1 >= u - t
        <5>1. /\ Milliseconds(p) <= Milliseconds(b)
              /\ Milliseconds(b) - Milliseconds(p) <= h + 1 /\ p.forward = Resolve(h)
              /\ ReachUpper(Encode(p), Masked(Encode(b))) # Throws
          BY <1>4, <2>1, <2>2, <3>3 DEF u, U
        <5>2. \E f : /\ f \in 0 .. MaxResolution + 1
                     /\ ReachUpper(Encode(p), Masked(Encode(b)))
                          = Encode(Reached(p, f, p.reverse))
                     /\ f > 0 =>
                          MillisecondsAt[f] + 1 >= Milliseconds(b) - Milliseconds(p)
          BY <1>4, <3>3, <3>4, <5>1, UpperHull
        <5> QED
          BY <3>3, <5>2 DEF u, U
      <4> DEFINE q == Reached(p, f, p.reverse)
      <4>2. f \in 0 .. ResolutionMask /\ p.reverse \in 0 .. ResolutionMask
        BY <3>2, <3>3, <4>1, ResolutionFacts
      <4>3. /\ Timed(q) /\ q.ba = 1 /\ Milliseconds(q) = t
            /\ q.forward = f /\ q.reverse = r /\ z = Encode(q)
        BY <3>3, <4>1, <4>2, TimeReached
      <4> HIDE DEF q
      <4>4. /\ Lower(Encode(q)) = Milliseconds(q) - MillisecondsAt[q.reverse]
            /\ Upper(Encode(q)) = Milliseconds(q) + MillisecondsAt[q.forward]
        BY <3>1, <4>1, <4>3, BoundsAreTimes
      <4>5. /\ ForwardResolution(Encode(q)) = q.forward
            /\ ReverseResolution(Encode(q)) = q.reverse
        BY <4>3, EncodedIsTime
      <4>6. MillisecondsAt[f] \in Nat /\ MillisecondsAt[r] \in Nat
        BY <3>1, <4>1, ResolutionsDescend
      <4>7. Lower(z) = t - MillisecondsAt[r] /\ Upper(z) = t + MillisecondsAt[f]
            /\ ForwardResolution(z) = f /\ ReverseResolution(z) = r
        BY <4>3, <4>4, <4>5
      <4>8. (l >= Scale(1) /\ r > 0) => t - MillisecondsAt[r] <= l + 1
        BY <1>1, <1>4, <3>1, <4>6
      <4>9. f > 0 => t + MillisecondsAt[f] >= u - 1
        BY <1>1, <1>4, <4>1, <4>6
      <4> QED
        BY <4>7, <4>8, <4>9 DEF NearlyCovers
    <3> QED
      BY <1>5, <3>5, <3>6 DEF L, U, l, u, x
  <2> QED
    BY <2>3, <2>4
<1> QED
  BY <1>1, <1>4, <1>6, <1>7

\* The value between two masked bounds, made with bounds.
LEMMA NewHullIs ==
  ASSUME NEW L, NEW U, Between(L, U) \in Int, ReachLower(Between(L, U), L) \in Int,
         NEW bounds, bounds = TRUE
  PROVE  NewTemporalValue(L, -1, U, bounds) = ReachUpper(ReachLower(Between(L, U), L), U)
<1> DEFINE x == Between(L, U)
           y == ReachLower(x, L)
           a == [q \in Int |-> ReachLower(q, L)]
           b == [q \in Int |-> ReachUpper(q, U)]
<1>1. -1 < 0
  OBVIOUS
<1>2. NewTemporalValue(L, -1, U, bounds) = b[a[x]]
  BY <1>1 DEF NewTemporalValue
<1>3. a[x] = y
  OBVIOUS
<1> HIDE DEF y
<1>4. b[y] = ReachUpper(y, U)
  BY DEF y
<1> QED
  BY <1>2, <1>3, <1>4 DEF y

\* The hull of two masked bounds, the later of which is after the start.
LEMMA HullOfBounds ==
  ASSUME NEW a, Timed(a), a.reverse = ResolutionMask,
         NEW b, Timed(b), b.reverse = ResolutionMask, b.ba = 1,
         Milliseconds(a) <= Milliseconds(b),
         NEW L, L = Masked(Encode(a)), NEW U, U = Masked(Encode(b)),
         NEW bounds, bounds = TRUE
  PROVE  NearlyCovers(NewTemporalValue(L, -1, U, bounds), Milliseconds(a), Milliseconds(b))
<1>1. /\ Between(L, U) \in Int /\ ReachLower(Between(L, U), L) \in Int
      /\ NearlyCovers(ReachUpper(ReachLower(Between(L, U), L), U),
                      Milliseconds(a), Milliseconds(b))
  BY HullCovers
<1>2. NewTemporalValue(L, -1, U, bounds) = ReachUpper(ReachLower(Between(L, U), L), U)
  BY <1>1, NewHullIs
<1> QED
  BY <1>1, <1>2

\* Union and intersection of two values that overlap.
LEMMA HullsCover ==
  ASSUME NEW w, Timed(w), w.ba = 1, NEW x, x = Encode(w),
         w.forward \in 0 .. MaxResolution + 1, w.reverse \in 0 .. MaxResolution + 1,
         NEW v, Timed(v), v.ba = 1, NEW y, y = Encode(v),
         v.forward \in 0 .. MaxResolution + 1, v.reverse \in 0 .. MaxResolution + 1,
         CanOverlap(x, y), Overlap(x, y)
  PROVE  /\ NearlyCovers(Union(x, y), Min({Lower(x), Lower(y)}), Max({Upper(x), Upper(y)}))
         /\ NearlyCovers(Intersection(x, y),
                         Max({Lower(x), Lower(y)}), Min({Upper(x), Upper(y)}))
<1>1. /\ Representable(Lower(x)) /\ Representable(Upper(x))
      /\ Representable(Lower(y)) /\ Representable(Upper(y))
  BY DEF CanOverlap, HasBounds
<1>2. /\ \E a : /\ Timed(a) /\ Milliseconds(a) = Lower(x) /\ LowerBound(x) = Encode(a)
                /\ a.forward = 0 /\ a.reverse = ResolutionMask
      /\ \E b : /\ Timed(b) /\ Milliseconds(b) = Upper(x) /\ UpperBound(x) = Encode(b)
                /\ b.forward = ResolutionMask /\ b.reverse = ResolutionMask /\ b.ba = 1
      /\ Lower(x) \in Int /\ Upper(x) \in Int
      /\ Lower(x) <= Milliseconds(w) /\ Milliseconds(w) <= Upper(x) /\ Milliseconds(w) \in Int
  BY <1>1, BoundsAreTimes
<1>3. /\ \E a : /\ Timed(a) /\ Milliseconds(a) = Lower(y) /\ LowerBound(y) = Encode(a)
                /\ a.forward = 0 /\ a.reverse = ResolutionMask
      /\ \E b : /\ Timed(b) /\ Milliseconds(b) = Upper(y) /\ UpperBound(y) = Encode(b)
                /\ b.forward = ResolutionMask /\ b.reverse = ResolutionMask /\ b.ba = 1
      /\ Lower(y) \in Int /\ Upper(y) \in Int
      /\ Lower(y) <= Milliseconds(v) /\ Milliseconds(v) <= Upper(y) /\ Milliseconds(v) \in Int
  BY <1>1, BoundsAreTimes
<1>4. Lower(x) <= Upper(y) /\ Lower(y) <= Upper(x)
  BY OverlapMeans DEF Meet
<1>5. PICK ax : /\ Timed(ax) /\ Milliseconds(ax) = Lower(x) /\ LowerBound(x) = Encode(ax)
                /\ ax.forward = 0 /\ ax.reverse = ResolutionMask
  BY <1>2
<1>6. PICK bx : /\ Timed(bx) /\ Milliseconds(bx) = Upper(x) /\ UpperBound(x) = Encode(bx)
                /\ bx.forward = ResolutionMask /\ bx.reverse = ResolutionMask /\ bx.ba = 1
  BY <1>2
<1>7. PICK ay : /\ Timed(ay) /\ Milliseconds(ay) = Lower(y) /\ LowerBound(y) = Encode(ay)
                /\ ay.forward = 0 /\ ay.reverse = ResolutionMask
  BY <1>3
<1>8. PICK by : /\ Timed(by) /\ Milliseconds(by) = Upper(y) /\ UpperBound(y) = Encode(by)
                /\ by.forward = ResolutionMask /\ by.reverse = ResolutionMask /\ by.ba = 1
  BY <1>3
<1>9. ASSUME NEW a, a = ax \/ a = ay, NEW b, b = bx \/ b = by
      PROVE  /\ Timed(a) /\ a.reverse = ResolutionMask
             /\ Timed(b) /\ b.reverse = ResolutionMask /\ b.ba = 1
             /\ Milliseconds(a) <= Milliseconds(b)
  <2>1. /\ Timed(a) /\ a.reverse = ResolutionMask
        /\ Timed(b) /\ b.reverse = ResolutionMask /\ b.ba = 1
    BY <1>5, <1>6, <1>7, <1>8, <1>9
  <2>2. Milliseconds(a) = Lower(x) \/ Milliseconds(a) = Lower(y)
    BY <1>5, <1>7, <1>9
  <2>3. Milliseconds(b) = Upper(x) \/ Milliseconds(b) = Upper(y)
    BY <1>6, <1>8, <1>9
  <2>4. Milliseconds(a) <= Milliseconds(b)
    BY <1>2, <1>3, <1>4, <2>2, <2>3
  <2> QED
    BY <2>1, <2>4
<1>10. PICK bounds : bounds = TRUE
  OBVIOUS
<1>11. NearlyCovers(Union(x, y), Min({Lower(x), Lower(y)}), Max({Upper(x), Upper(y)}))
  <2>1. PICK a : /\ a = ax \/ a = ay
                 /\ Min({Masked(Encode(ax)), Masked(Encode(ay))}) = Masked(Encode(a))
                 /\ Min({Milliseconds(ax), Milliseconds(ay)}) = Milliseconds(a)
    BY <1>5, <1>7, LeastBound
  <2>2. PICK b : /\ b = bx \/ b = by
                 /\ Max({Masked(Encode(bx)), Masked(Encode(by))}) = Masked(Encode(b))
                 /\ Max({Milliseconds(bx), Milliseconds(by)}) = Milliseconds(b)
    BY <1>6, <1>8, GreatestBound
  <2> DEFINE L == Masked(Encode(a))
             U == Masked(Encode(b))
  <2>3. Union(x, y) = NewTemporalValue(L, -1, U, bounds)
    BY <1>5, <1>6, <1>7, <1>8, <1>10, <2>1, <2>2 DEF Union
  <2>4. NearlyCovers(NewTemporalValue(L, -1, U, bounds), Milliseconds(a), Milliseconds(b))
    BY <1>9, <1>10, <2>1, <2>2, HullOfBounds
  <2>5. Min({Lower(x), Lower(y)}) = Milliseconds(a) /\ Max({Upper(x), Upper(y)}) = Milliseconds(b)
    BY <1>5, <1>6, <1>7, <1>8, <2>1, <2>2
  <2> QED
    BY <2>3, <2>4, <2>5
<1>12. NearlyCovers(Intersection(x, y), Max({Lower(x), Lower(y)}), Min({Upper(x), Upper(y)}))
  <2>1. PICK a : /\ a = ax \/ a = ay
                 /\ Max({Masked(Encode(ax)), Masked(Encode(ay))}) = Masked(Encode(a))
                 /\ Max({Milliseconds(ax), Milliseconds(ay)}) = Milliseconds(a)
    BY <1>5, <1>7, GreatestBound
  <2>2. PICK b : /\ b = bx \/ b = by
                 /\ Min({Masked(Encode(bx)), Masked(Encode(by))}) = Masked(Encode(b))
                 /\ Min({Milliseconds(bx), Milliseconds(by)}) = Milliseconds(b)
    BY <1>6, <1>8, LeastBound
  <2> DEFINE L == Masked(Encode(a))
             U == Masked(Encode(b))
  <2>3. Intersection(x, y) = NewTemporalValue(L, -1, U, bounds)
    BY <1>5, <1>6, <1>7, <1>8, <1>10, <2>1, <2>2 DEF Intersection
  <2>4. NearlyCovers(NewTemporalValue(L, -1, U, bounds), Milliseconds(a), Milliseconds(b))
    BY <1>9, <1>10, <2>1, <2>2, HullOfBounds
  <2>5. Max({Lower(x), Lower(y)}) = Milliseconds(a) /\ Min({Upper(x), Upper(y)}) = Milliseconds(b)
    BY <1>5, <1>6, <1>7, <1>8, <2>1, <2>2
  <2> QED
    BY <2>3, <2>4, <2>5
<1> QED
  BY <1>11, <1>12

\* The union of two rewritten values that overlap covers both but for a
\* millisecond at its ends, and their intersection what is common to them,
\* whenever they can be made; but for a beginning before the start.
THEOREM HullsNearlyCoverAlways == SeriesSpec => []HullsNearlyCover
<1>1. SeriesInv => HullsNearlyCover
  <2> SUFFICES ASSUME SeriesInv, NEW j \in 1 .. turns,
                      CanOverlap(series[j], series[turns]), Overlap(series[j], series[turns])
               PROVE  LET x == series[j]
                          y == series[turns]
                      IN  /\ NearlyCovers(Union(x, y),
                               Min({Lower(x), Lower(y)}), Max({Upper(x), Upper(y)}))
                          /\ NearlyCovers(Intersection(x, y),
                               Max({Lower(x), Lower(y)}), Min({Upper(x), Upper(y)}))
    BY DEF HullsNearlyCover
  <2> DEFINE w == Decode(series[j])
             v == Decode(series[turns])
  <2>1. j \in 1 .. Len(given) /\ turns \in 1 .. Len(given) /\ turns \in 1 .. turns
    <3>1. given \in Seq(Int) /\ Len(series) = Len(given) /\ turns \in 0 .. Len(series)
      BY DEF SeriesInv, SeriesTypeOK
    <3>2. Len(given) \in Nat
      BY <3>1
    <3> QED
      BY <3>1, <3>2
  <2>2. IsTime(series[j]) /\ IsTime(series[turns])
    BY <2>1 DEF SeriesInv, SeriesIsTimes
  <2>3. Timed(w) /\ w.ba = 1 /\ series[j] = Encode(w)
    BY <2>2, TimeIs
  <2>4. Timed(v) /\ v.ba = 1 /\ series[turns] = Encode(v)
    BY <2>2, TimeIs
  <2>5. Found(w) /\ Found(v)
    BY <2>1 DEF SeriesInv, ResolutionsAreFound
  <2> HIDE DEF w, v
  <2>6. w.forward \in 0 .. MaxResolution + 1 /\ w.reverse \in 0 .. MaxResolution + 1
        /\ v.forward \in 0 .. MaxResolution + 1 /\ v.reverse \in 0 .. MaxResolution + 1
    BY <2>5 DEF Found
  <2> QED
    BY <2>3, <2>4, <2>6, HullsCover
<1> QED
  BY <1>1, SeriesInvAlways, PTL
=============================================================================
