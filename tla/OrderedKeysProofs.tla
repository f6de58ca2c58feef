------------------------- MODULE OrderedKeysProofs -------------------------
(***************************************************************************)
(* What findMAX, findMIN and the iterator's moves return, for every set of *)
(* keys.  Everything rests on the existence of a least and of a greatest   *)
(* element, which is the well-foundedness of < on the natural numbers.     *)
(***************************************************************************)
EXTENDS OrderedKeys, WellFoundedInduction, TLAPS

\* A nonempty set of natural numbers has a least element.
LEMMA LeastExists ==
  ASSUME NEW S \in SUBSET Nat, S # {}
  PROVE  \E m \in S : \A k \in S : m <= k
<1>1. PICK x \in S : \A y \in S : <<y, x>> \notin OpToRel(<, Nat)
  BY NatLessThanWellFounded, WFMin
<1>2. \A y \in S : ~(y < x)
  BY <1>1 DEF OpToRel
<1> QED
  BY <1>2

\* A nonempty set of integers with an upper bound has a greatest element.
LEMMA GreatestExists ==
  ASSUME NEW S \in SUBSET Int, S # {}, NEW B \in Int, \A k \in S : k < B
  PROVE  \E m \in S : \A k \in S : k <= m
<1> DEFINE T == {B - k : k \in S}
<1>1. \A k \in S : B - k \in Nat
  OBVIOUS
<1>2. T \in SUBSET Nat /\ T # {}
  BY <1>1
<1>3. PICK t \in T : \A u \in T : t <= u
  BY <1>2, LeastExists
<1>4. PICK m \in S : t = B - m
  OBVIOUS
<1>5. ASSUME NEW k \in S PROVE k <= m
  <2>1. t <= B - k
    BY <1>3
  <2> QED
    BY <2>1, <1>4
<1> QED
  BY <1>5

LEMMA KeysAreInts ==
  /\ KEY_MAX \in Int /\ Keys \subseteq Nat
  /\ \A k \in Keys : 0 < k /\ k <= KEY_MAX
BY KeyMaxAssumption DEF Keys

LEMMA IdsAreInts ==
  /\ KEY_MAX \in Int /\ Ids \subseteq Nat /\ Ids \subseteq Keys
  /\ \A k \in Ids : 0 < k /\ k < KEY_MAX
BY KeyMaxAssumption DEF Ids, Keys

LEMMA MinOfNats ==
  ASSUME NEW S \in SUBSET Nat, S # {}
  PROVE  Min(S) \in S /\ \A x \in S : Min(S) <= x
<1>1. \E m \in S : \A k \in S : m <= k
  BY LeastExists
<1> QED
  BY <1>1 DEF Min

LEMMA MaxOfBounded ==
  ASSUME NEW S \in SUBSET Int, S # {}, NEW B \in Int, \A x \in S : x < B
  PROVE  Max(S) \in S /\ \A x \in S : x <= Max(S)
<1>1. \E m \in S : \A k \in S : k <= m
  BY GreatestExists
<1>2. \E m \in S : \A k \in S : m >= k
  BY <1>1
<1>3. Max(S) \in S /\ \A x \in S : Max(S) >= x
  BY <1>2 DEF Max
<1> QED
  BY <1>3

\* findMIN returns the least key above k, or KEY_MAX when there is none; but KEY_MIN when the
\* only key above k is KEY_MAX.
LEMMA FindMINOfNats ==
  ASSUME NEW S \in SUBSET Nat, \A x \in S : x <= KEY_MAX, NEW k \in Int
  PROVE  \/ FindMIN(S, k) = KEY_MAX /\ \A x \in S : x <= k
         \/ /\ FindMIN(S, k) = KEY_MIN /\ KEY_MAX \in S /\ k < KEY_MAX
            /\ \A x \in S : x <= k \/ x = KEY_MAX
         \/ /\ FindMIN(S, k) \in S /\ k < FindMIN(S, k) /\ FindMIN(S, k) < KEY_MAX
            /\ \A x \in S : k < x => FindMIN(S, k) <= x
<1> DEFINE above == {x \in S : x > k}
<1> KEY_MAX \in Int
  BY KeyMaxAssumption
<1>1. CASE above = {}
  BY <1>1 DEF FindMIN
<1>2. CASE above # {}
  <2>1. Min(above) \in above /\ \A x \in above : Min(above) <= x
    BY <1>2, MinOfNats
  <2>2. FindMIN(S, k) = IF Min(above) = KEY_MAX THEN KEY_MIN ELSE Min(above)
    BY <1>2 DEF FindMIN
  <2>3. CASE Min(above) = KEY_MAX
    <3>1. \A x \in above : x = KEY_MAX
      BY <2>1, <2>3
    <3> QED
      BY <2>1, <2>2, <2>3, <3>1
  <2>4. CASE Min(above) # KEY_MAX
    <3> DEFINE m == Min(above)
    <3>1. m \in S /\ k < m /\ \A x \in S : k < x => m <= x
      BY <2>1
    <3>0. m \in Nat /\ m <= KEY_MAX
      BY <3>1
    <3>2. FindMIN(S, k) = m
      BY <2>2, <2>4
    <3>3. m \in Int /\ m < KEY_MAX
      BY <2>4, <3>0
    <3> HIDE DEF m
    <3> QED
      BY <3>1, <3>2, <3>3
  <2> QED
    BY <2>3, <2>4
<1> QED
  BY <1>1, <1>2

LEMMA FindMINResult ==
  ASSUME NEW S \in SUBSET Keys, NEW k \in Int
  PROVE  \/ FindMIN(S, k) = KEY_MAX /\ \A x \in S : x <= k
         \/ /\ FindMIN(S, k) = KEY_MIN /\ KEY_MAX \in S /\ k < KEY_MAX
            /\ \A x \in S : x <= k \/ x = KEY_MAX
         \/ /\ FindMIN(S, k) \in S /\ k < FindMIN(S, k) /\ FindMIN(S, k) < KEY_MAX
            /\ \A x \in S : k < x => FindMIN(S, k) <= x
<1>1. S \in SUBSET Nat /\ \A x \in S : x <= KEY_MAX
  BY KeysAreInts
<1> QED
  BY <1>1, FindMINOfNats

\* Among ids there is no KEY_MAX to be taken for the header's.
LEMMA FindMINOfIds ==
  ASSUME NEW S \in SUBSET Ids, NEW k \in Int
  PROVE  \/ FindMIN(S, k) = KEY_MAX /\ \A x \in S : x <= k
         \/ /\ FindMIN(S, k) \in S /\ k < FindMIN(S, k)
            /\ \A x \in S : k < x => FindMIN(S, k) <= x
<1>1. S \in SUBSET Keys /\ KEY_MAX \notin S
  BY IdsAreInts
<1> QED
  BY <1>1, FindMINResult

\* findMAX returns the greatest key below k, or KEY_MIN when there is none.
LEMMA FindMAXOfNats ==
  ASSUME NEW S \in SUBSET Nat, NEW k \in Int
  PROVE  \/ FindMAX(S, k) = KEY_MIN /\ \A x \in S : k <= x
         \/ /\ FindMAX(S, k) \in S /\ FindMAX(S, k) < k
            /\ \A x \in S : x < k => x <= FindMAX(S, k)
<1> DEFINE below == {x \in S : x < k}
<1>1. CASE below = {}
  BY <1>1 DEF FindMAX
<1>2. CASE below # {}
  <2>1. Max(below) \in below /\ \A x \in below : x <= Max(below)
    BY <1>2, MaxOfBounded
  <2>2. FindMAX(S, k) = Max(below)
    BY <1>2 DEF FindMAX
  <2> QED
    BY <2>1, <2>2
<1> QED
  BY <1>1, <1>2

LEMMA FindMAXResult ==
  ASSUME NEW S \in SUBSET Keys, NEW k \in Int
  PROVE  \/ FindMAX(S, k) = KEY_MIN /\ \A x \in S : k <= x
         \/ /\ FindMAX(S, k) \in S /\ FindMAX(S, k) < k
            /\ \A x \in S : x < k => x <= FindMAX(S, k)
BY FindMAXOfNats, KeysAreInts

LEMMA FindMAXOfIds ==
  ASSUME NEW S \in SUBSET Ids, NEW k \in Int
  PROVE  \/ FindMAX(S, k) = KEY_MIN /\ \A x \in S : k <= x
         \/ /\ FindMAX(S, k) \in S /\ FindMAX(S, k) < k
            /\ \A x \in S : x < k => x <= FindMAX(S, k)
BY FindMAXOfNats, IdsAreInts

\* reset goes to the least key, or to the end of an empty list.
LEMMA FirstOfNats ==
  ASSUME NEW S \in SUBSET Nat
  PROVE  \/ First(S) = Nil /\ S = {}
         \/ First(S) \in S /\ \A x \in S : First(S) <= x
<1>1. CASE S = {}
  BY <1>1 DEF First
<1>2. CASE S # {}
  BY <1>2, MinOfNats DEF First
<1> QED
  BY <1>1, <1>2

LEMMA FirstResult ==
  ASSUME NEW S \in SUBSET Keys
  PROVE  \/ First(S) = Nil /\ S = {}
         \/ First(S) \in S /\ \A x \in S : First(S) <= x
BY FirstOfNats, KeysAreInts

LEMMA FirstOfIds ==
  ASSUME NEW S \in SUBSET Ids
  PROVE  \/ First(S) = Nil /\ S = {}
         \/ First(S) \in S /\ \A x \in S : First(S) <= x
BY FirstOfNats, IdsAreInts

\* step goes to the least key above the one the iterator is at.
LEMMA AfterOfNats ==
  ASSUME NEW S \in SUBSET Nat, NEW e \in Nat, e # Header
  PROVE  \/ After(S, e) = Nil /\ \A x \in S : x <= e
         \/ /\ After(S, e) \in S /\ e < After(S, e)
            /\ \A x \in S : e < x => After(S, e) <= x
<1> DEFINE above == {x \in S : x > e}
<1>1. After(S, e) = First(above)
  BY DEF After
<1>2. \/ First(above) = Nil /\ above = {}
      \/ First(above) \in above /\ \A x \in above : First(above) <= x
  BY FirstOfNats
<1> QED
  BY <1>1, <1>2

LEMMA AfterResult ==
  ASSUME NEW S \in SUBSET Keys, NEW e \in Keys
  PROVE  \/ After(S, e) = Nil /\ \A x \in S : x <= e
         \/ /\ After(S, e) \in S /\ e < After(S, e)
            /\ \A x \in S : e < x => After(S, e) <= x
<1>1. S \in SUBSET Nat /\ e \in Nat /\ e # Header
  BY KeysAreInts DEF Header
<1> QED
  BY <1>1, AfterOfNats

LEMMA AfterOfIds ==
  ASSUME NEW S \in SUBSET Ids, NEW e \in Ids
  PROVE  \/ After(S, e) = Nil /\ \A x \in S : x <= e
         \/ /\ After(S, e) \in S /\ e < After(S, e)
            /\ \A x \in S : e < x => After(S, e) <= x
<1>1. S \in SUBSET Keys /\ e \in Keys
  BY IdsAreInts
<1> QED
  BY <1>1, AfterResult
=============================================================================
