--------------------------- MODULE SkipListProofs ---------------------------
(***************************************************************************)
(* Theorems about SkipList for every KEY_MAX, every number of levels, all  *)
(* values and all draws of the levels: the links, the count and the place  *)
(* of freeRange fit together, the searches answer what the set of keys     *)
(* determines, and the linked levels implement the abstract map.           *)
(*                                                                         *)
(* The properties speak of the list as its walks see it: chains, descents. *)
(* The invariant speaks of single links instead: on every level an element *)
(* links the next one that is tall enough (Linked).  The first part shows  *)
(* that in such a list every descent stops where it should, the second     *)
(* that a chain lists the elements of its level in ascending order, the    *)
(* third that insert and free keep the links so.                           *)
(***************************************************************************)
EXTENDS SkipList, OrderedKeysProofs, FiniteSetTheorems

-----------------------------------------------------------------------------
(***************************************************************************)
(* The inductive invariant.                                                *)
(***************************************************************************)

\* The elements in the list, and those that are linked on level i.
Held    == {k \in Keys : value[k] # NotFound}
Tall(i) == {k \in Held : level[k] >= i}

\* The header is in front of every key.
Beyond(e, x) == e = Header \/ e < x

\* Of the keys T, a is the one that follows e; there is none if a is Nil.
IsAfter(T, e, a) ==
  \/ a = Nil /\ \A x \in T : ~Beyond(e, x)
  \/ a \in T /\ Beyond(e, a) /\ \A x \in T : Beyond(e, x) => a <= x

\* Of the keys T, d is the last one below k, or the header.
IsStop(T, k, d) ==
  \/ d = Header /\ \A x \in T : ~(x < k)
  \/ d \in T /\ d < k /\ \A x \in T : x < k => x <= d

\* links is a level that links exactly the keys T, in ascending order.
Links(T, links) ==
  \A e \in Elements :
     IF e \in T \cup {Header} THEN IsAfter(T, e, links[e]) ELSE links[e] = Nil

Linked == \A i \in Levels : Links(Tall(i), next[i])

HeaderIsTallest ==
  /\ \A k \in Held : level[k] <= level[Header]
  /\ level[Header] # 0 => \E k \in Held : level[k] = level[Header]

LengthIsHeld == length = Cardinality(Held)

FreeingAt ==
  freeing # Idle =>
    freeing.element = First({k \in Held : k >= freeing.from})

IInv == TypeOK /\ Linked /\ HeaderIsTallest /\ LengthIsHeld /\ FreeingAt

-----------------------------------------------------------------------------
(***************************************************************************)
(* What follows, and where a search stops, in any set of keys.             *)
(***************************************************************************)
LEMMA NilAndHeader ==
  /\ Header \in Int /\ Nil \in Int /\ KEY_MAX \in Int /\ KEY_MIN \in Int
  /\ Header \notin Keys /\ Nil \notin Keys /\ Nil # Header
  /\ \A k \in Keys : k \in Int /\ 0 < k /\ k <= KEY_MAX /\ k < Header
  /\ Header = KEY_MAX + 1 /\ Header \in Nat /\ Header > 0
  /\ Header \in Elements /\ Keys \subseteq Elements
  /\ \A e \in Elements : e \in Int /\ e # Nil /\ (e \in Keys \/ e = Header)
BY KeyMaxAssumption DEF Keys, Header, Nil, Elements, KEY_MIN

LEMMA LevelsAre ==
  /\ MaxLevel \in Int /\ MaxLevel > 0 /\ 0 \in Levels
  /\ \A i \in Levels : i \in Int /\ 0 <= i /\ i < MaxLevel
  /\ \A i \in Int : 0 <= i /\ i < MaxLevel => i \in Levels
BY SkipListAssumption DEF Levels

LEMMA StopExists ==
  ASSUME NEW T \in SUBSET Keys, NEW k \in Int
  PROVE  \E d \in T \cup {Header} : IsStop(T, k, d)
<1> DEFINE below == {x \in T : x < k}
<1>1. CASE below = {}
  BY <1>1 DEF IsStop
<1>2. CASE below # {}
  <2>1. \E m \in below : \A x \in below : x <= m
    BY <1>2, GreatestExists, NilAndHeader
  <2> QED
    BY <2>1 DEF IsStop
<1> QED
  BY <1>1, <1>2

LEMMA StopIsUnique ==
  ASSUME NEW T \in SUBSET Keys, NEW k \in Int,
         NEW d \in T \cup {Header}, NEW e \in T \cup {Header},
         IsStop(T, k, d), IsStop(T, k, e)
  PROVE  d = e
<1> T \subseteq Int /\ Header \in Int /\ Header \notin T
  BY NilAndHeader
<1> QED
  BY DEF IsStop

LEMMA AfterIsUnique ==
  ASSUME NEW T \in SUBSET Keys, NEW e \in Elements,
         NEW a \in T \cup {Nil}, NEW b \in T \cup {Nil},
         IsAfter(T, e, a), IsAfter(T, e, b)
  PROVE  a = b
<1> T \subseteq Int /\ Header \in Int /\ Nil \notin T
  BY NilAndHeader
<1> QED
  BY DEF IsAfter, Beyond

\* The links of a level lead where the iterator is promised to go.
LEMMA AfterIsAfter ==
  ASSUME NEW T \in SUBSET Keys, NEW e \in Elements
  PROVE  IsAfter(T, e, After(T, e))
<1>1. CASE e = Header
  BY <1>1, FirstResult, NilAndHeader DEF After, IsAfter, Beyond
<1>2. CASE e \in Keys
  BY <1>2, AfterResult, NilAndHeader DEF IsAfter, Beyond
<1> QED
  BY <1>1, <1>2, NilAndHeader

LEMMA FirstIsAfter ==
  ASSUME NEW T \in SUBSET Keys, NEW a \in T \cup {Nil}, IsAfter(T, Header, a)
  PROVE  a = First(T)
<1> T \subseteq Int /\ Nil \notin T
  BY NilAndHeader
<1>1. /\ First(T) \in T \cup {Nil}
      /\ First(T) = Nil => T = {}
      /\ \A x \in T : First(T) \in T /\ First(T) <= x
  BY FirstResult
<1>2. /\ a = Nil => T = {}
      /\ \A x \in T : a \in T /\ a <= x
  BY DEF IsAfter, Beyond
<1>3. CASE T = {}
  BY <1>1, <1>3
<1>4. CASE T # {}
  <2>1. a \in Int /\ First(T) \in Int /\ a <= First(T) /\ First(T) <= a
    BY <1>1, <1>2, <1>4
  <2> QED
    BY <2>1
<1> QED
  BY <1>3, <1>4

\* Behind the stop before k comes the first key that is not below k.
LEMMA AfterStop ==
  ASSUME NEW T \in SUBSET Keys, NEW k \in Int,
         NEW d \in T \cup {Header}, NEW a \in T \cup {Nil},
         IsStop(T, k, d), IsAfter(T, d, a)
  PROVE  /\ a = First({x \in T : x >= k})
         /\ k \in T => a = k
         /\ a = k => k \in T \/ k = Nil
<1> DEFINE left == {x \in T : x >= k}
<1> T \subseteq Int /\ Header \in Int /\ Header \notin T /\ Nil \notin T
  BY NilAndHeader
<1>1. left \in SUBSET Keys
  OBVIOUS
<1>2. \/ a = Nil /\ left = {}
      \/ a \in left /\ \A x \in left : a <= x
  <2>1. \A x \in T : Beyond(d, x) <=> x >= k
    BY DEF IsStop, Beyond
  <2> QED
    BY <2>1 DEF IsAfter
<1>3. a = First(left)
  <2> Nil \notin left /\ left \subseteq Int
    OBVIOUS
  <2> HIDE DEF left
  <2>1. /\ First(left) \in left \cup {Nil}
        /\ First(left) = Nil => left = {}
        /\ \A x \in left : First(left) \in left /\ First(left) <= x
    BY <1>1, FirstResult
  <2>2. CASE left = {}
    BY <1>2, <2>1, <2>2
  <2>3. CASE left # {}
    <3>1. a \in Int /\ First(left) \in Int /\ a <= First(left) /\ First(left) <= a
      BY <1>2, <2>1, <2>3
    <3> QED
      BY <3>1
  <2> QED
    BY <2>2, <2>3
<1>4. k \in T => a = k
  BY <1>2
<1> QED
  BY <1>2, <1>3, <1>4
-----------------------------------------------------------------------------
(***************************************************************************)
(* The descent through the levels.                                         *)
(***************************************************************************)

\* What the walks need: the links, and a header that is tall enough.
Good == TypeOK /\ Linked /\ HeaderIsTallest

LEMMA TallAre ==
  ASSUME TypeOK
  PROVE  /\ Held \in SUBSET Keys
         /\ \A i \in Levels : Tall(i) \in SUBSET Keys /\ Tall(i) \in SUBSET Held
         /\ Tall(0) = Held
         /\ \A k \in Elements : level[k] \in Levels
BY LevelsAre, NilAndHeader DEF Held, Tall, TypeOK

LEMMA LinksAre ==
  ASSUME Good, NEW i \in Levels
  PROVE  /\ \A e \in Tall(i) \cup {Header} :
              IsAfter(Tall(i), e, next[i][e]) /\ next[i][e] \in Tall(i) \cup {Nil}
         /\ \A e \in Elements : e \notin Tall(i) \cup {Header} => next[i][e] = Nil
         /\ \A e \in Elements : next[i][e] \in Keys \cup {Nil}
<1>1. Links(Tall(i), next[i]) /\ Tall(i) \in SUBSET Keys
  BY TallAre DEF Good, Linked
<1>2. \A e \in Elements : next[i][e] \in Keys \cup {Nil}
  BY DEF Good, TypeOK
<1> QED
  BY <1>1, <1>2, NilAndHeader DEF Links, IsAfter

\* An element of level i has a link on it, the header on the levels in use.
LEMMA LinkIsRead ==
  ASSUME Good, NEW i \in Levels, NEW e \in Tall(i) \cup {Header},
         e = Header => i <= level[Header]
  PROVE  GetElement(e, i) = next[i][e]
<1>1. level[e] \in Int /\ i \in Int
  BY TallAre, LevelsAre, NilAndHeader DEF Good
<1>2. ~(i > level[e])
  BY <1>1 DEF Tall
<1> QED
  BY <1>2 DEF GetElement

\* Advance walks to the last element below k, from wherever it begins.
LEMMA AdvanceStops ==
  ASSUME Good, NEW i \in Levels, i <= level[Header], NEW k \in Int,
         NEW e \in Tall(i) \cup {Header}, e = Header \/ e < k
  PROVE  IsStop(Tall(i), k, Advance(e, i, k))
<1> DEFINE T == Tall(i)
           Before == {x \in T \cup {Header} : x = Header \/ x < k}
           Solves(f) ==
             f = [x \in Elements |->
                    LET n == GetElement(x, i)
                    IN  IF n # Nil /\ n < k THEN f[n] ELSE x]
<1>1. T \in SUBSET Keys /\ Before \subseteq Elements
  BY TallAre, NilAndHeader DEF Good
<1>2. PICK d \in T \cup {Header} : IsStop(T, k, d)
  BY <1>1, StopExists
<1>3. \A x \in T \cup {Header} :
         /\ GetElement(x, i) = next[i][x]
         /\ IsAfter(T, x, next[i][x])
         /\ next[i][x] \in T \cup {Nil}
  BY LinksAre, LinkIsRead
<1> HIDE DEF T
<1>4. \A x \in Before :
         LET n == GetElement(x, i)
         IN  IF n # Nil /\ n < k THEN n \in Before /\ Beyond(x, n) /\ n \in Keys
                                 ELSE x = d
  <2> SUFFICES ASSUME NEW x \in Before, NEW n, n = next[i][x]
               PROVE  IF n # Nil /\ n < k THEN n \in Before /\ Beyond(x, n) /\ n \in Keys
                                          ELSE x = d
    BY <1>3
  <2>1. IsAfter(T, x, n) /\ n \in T \cup {Nil}
    BY <1>3
  <2>2. T \subseteq Int /\ Header \in Int /\ Nil \in Int /\ Nil \notin T
    BY <1>1, NilAndHeader
  <2> QED
    BY <1>1, <1>2, <2>1, <2>2, NilAndHeader DEF IsAfter, IsStop, Beyond
<1>5. \A x \in Elements \ Before : GetElement(x, i) = x \/ GetElement(x, i) = Nil
                                     \/ ~(GetElement(x, i) < k)
  <2> SUFFICES ASSUME NEW x \in Elements \ Before,
                      GetElement(x, i) # x, GetElement(x, i) # Nil
               PROVE  ~(GetElement(x, i) < k)
    OBVIOUS
  <2>1. GetElement(x, i) = next[i][x]
    BY DEF GetElement
  <2>2. x \in T
    BY <2>1, LinksAre DEF T
  <2>3. ~(x < k) /\ IsAfter(T, x, next[i][x]) /\ next[i][x] \in T
    BY <2>1, <2>2, <1>3
  <2>4. x < next[i][x]
    BY <2>2, <2>3, <1>1, NilAndHeader DEF IsAfter, Beyond
  <2> QED
    <3>1. x \in Int /\ next[i][x] \in Int
      BY <2>2, <2>3, <1>1, NilAndHeader
    <3> QED
      BY <2>1, <2>3, <2>4, <3>1, <2>2, <1>1, NilAndHeader
<1> DEFINE g == [x \in Elements |-> IF x \in Before THEN d ELSE x]
<1> HIDE DEF Before
<1>6. Solves(g)
  <2>1. \A x \in Elements :
          g[x] = LET n == GetElement(x, i)
                 IN  IF n # Nil /\ n < k THEN g[n] ELSE x
    <3> SUFFICES ASSUME NEW x \in Elements, NEW n, n = GetElement(x, i)
                 PROVE  g[x] = IF n # Nil /\ n < k THEN g[n] ELSE x
      OBVIOUS
    <3>1. CASE x \in Before
      BY <3>1, <1>1, <1>4
    <3>2. CASE x \notin Before
      BY <3>2, <1>5
    <3> QED
      BY <3>1, <3>2
  <2> QED
    BY <2>1
<1>7. Advance(e, i, k) = (CHOOSE f : Solves(f))[e]
  BY DEF Advance
<1>8. PICK f : f = (CHOOSE h : Solves(h)) /\ Solves(f)
  <2> HIDE DEF Solves
  <2> QED
    BY <1>6
<1>9. \A x \in Before : f[x] = LET n == GetElement(x, i)
                               IN  IF n # Nil /\ n < k THEN f[n] ELSE x
  BY <1>8, <1>1
<1> HIDE DEF Solves, g
<1> DEFINE Bad == {x \in Before : f[x] # d /\ x # Header}
<1>10. Bad = {}
  <2> SUFFICES ASSUME Bad # {} PROVE FALSE
    OBVIOUS
  <2>1. Bad \in SUBSET Int /\ \A x \in Bad : x < Header
    BY <1>1, NilAndHeader
  <2>2. PICK m \in Bad : \A x \in Bad : x <= m
    BY <2>1, GreatestExists, NilAndHeader
  <2>3. GetElement(m, i) \in Bad /\ m < GetElement(m, i)
    BY <2>2, <1>4, <1>9, NilAndHeader DEF Beyond
  <2> QED
    BY <2>1, <2>2, <2>3
<1>11. e \in Before
  BY DEF Before, T
<1>12. f[e] = d
  BY <1>4, <1>9, <1>10, <1>11, NilAndHeader
<1> QED
  BY <1>2, <1>7, <1>8, <1>12 DEF T

LEMMA NothingAboveHeader ==
  ASSUME Good, NEW i \in Levels, i > level[Header]
  PROVE  Tall(i) = {}
<1>1. \A k \in Held : level[k] \in Int /\ level[k] <= level[Header]
  BY TallAre, LevelsAre, NilAndHeader DEF Good, HeaderIsTallest
<1>2. level[Header] \in Int /\ i \in Int
  BY TallAre, LevelsAre, NilAndHeader DEF Good
<1> QED
  BY <1>1, <1>2 DEF Tall

\* On every level the descent stops at the last element below k.
LEMMA DescentStops ==
  ASSUME Good, NEW k \in Int
  PROVE  \A i \in Levels : /\ Descent(k)[i] \in Tall(i) \cup {Header}
                           /\ IsStop(Tall(i), k, Descent(k)[i])
<1> DEFINE Solves(f) ==
             f = [i \in 0 .. MaxLevel |->
                    IF i > level[Header] THEN Header ELSE Advance(f[i + 1], i, k)]
           Top == level[Header]
           Stops(i) == CHOOSE d \in Tall(i) \cup {Header} : IsStop(Tall(i), k, d)
           g == [i \in 0 .. MaxLevel |-> IF i > Top THEN Header ELSE Stops(i)]
<1>1. /\ MaxLevel \in Int /\ MaxLevel > 0 /\ Top \in Levels /\ Top \in Int
      /\ 0 <= Top /\ Top < MaxLevel
  BY LevelsAre, TallAre, NilAndHeader DEF Good
<1>2. \A i \in Levels : /\ Stops(i) \in Tall(i) \cup {Header}
                        /\ IsStop(Tall(i), k, Stops(i))
  BY TallAre, StopExists DEF Good
\* Whatever is right one level higher makes it right here.
<1>3. ASSUME NEW i \in Levels, i <= Top,
             NEW d, IF i = Top THEN d = Header
                    ELSE d \in Tall(i + 1) \cup {Header} /\ IsStop(Tall(i + 1), k, d)
      PROVE  Advance(d, i, k) = Stops(i)
  <2>1. Tall(i) \in SUBSET Keys
    BY TallAre DEF Good
  <2>2. d \in Tall(i) \cup {Header} /\ (d = Header \/ d < k)
    <3>1. CASE i = Top
      BY <3>1, <1>3
    <3>2. CASE i # Top
      <4>1. i \in Int /\ i + 1 \in Levels
        BY <3>2, <1>1, <1>3, LevelsAre
      <4>2. \A x \in Tall(i + 1) : level[x] \in Int /\ x \in Tall(i)
        <5>1. \A x \in Held : level[x] \in Int
          BY TallAre, LevelsAre, NilAndHeader DEF Good
        <5> QED
          BY <4>1, <5>1 DEF Tall
      <4> QED
        BY <3>2, <4>2, <1>3 DEF IsStop
    <3> QED
      BY <3>1, <3>2
  <2>3. IsStop(Tall(i), k, Advance(d, i, k))
    BY <2>2, <1>3, AdvanceStops
  <2>4. Advance(d, i, k) \in Tall(i) \cup {Header}
    BY <2>3 DEF IsStop
  <2> HIDE DEF Stops
  <2> QED
    BY <2>1, <2>3, <2>4, <1>2, StopIsUnique
<1> HIDE DEF Stops
<1>4. Solves(g)
  <2>1. \A i \in 0 .. MaxLevel :
          g[i] = IF i > Top THEN Header ELSE Advance(g[i + 1], i, k)
    <3> SUFFICES ASSUME NEW i \in 0 .. MaxLevel, i <= Top
                 PROVE  Stops(i) = Advance(g[i + 1], i, k)
      BY <1>1
    <3>1. i \in Levels /\ i + 1 \in 0 .. MaxLevel
      BY <1>1, LevelsAre
    <3>2. CASE i = Top
      BY <3>1, <3>2, <1>1, <1>3
    <3>3. CASE i # Top
      <4>1. i + 1 \in Levels /\ g[i + 1] = Stops(i + 1)
        BY <3>1, <3>3, <1>1, LevelsAre
      <4> QED
        BY <3>1, <3>3, <4>1, <1>2, <1>3
    <3> QED
      BY <3>2, <3>3
  <2> QED
    BY <2>1
<1>5. Descent(k) = CHOOSE f : Solves(f)
  BY DEF Descent
<1>6. Solves(Descent(k))
  <2> HIDE DEF Solves
  <2> QED
    BY <1>4, <1>5
<1>7. \A i \in 0 .. MaxLevel :
        Descent(k)[i] = IF i > Top THEN Header ELSE Advance(Descent(k)[i + 1], i, k)
  BY <1>6
<1> HIDE DEF Solves, g
<1> DEFINE Bad == {i \in 0 .. Top : Descent(k)[i] # Stops(i)}
<1>8. Bad = {}
  <2> SUFFICES ASSUME Bad # {} PROVE FALSE
    OBVIOUS
  <2>1. Bad \in SUBSET Int /\ \A i \in Bad : i < MaxLevel
    BY <1>1
  <2>2. PICK i \in Bad : \A j \in Bad : j <= i
    BY <2>1, <1>1, GreatestExists
  <2>3. i \in Levels /\ i <= Top /\ i \in 0 .. MaxLevel /\ i + 1 \in 0 .. MaxLevel
    BY <2>2, <1>1, LevelsAre
  <2>4. Descent(k)[i] = Advance(Descent(k)[i + 1], i, k)
    BY <2>3, <1>7, <1>1
  <2>5. CASE i = Top
    BY <2>2, <2>3, <2>4, <2>5, <1>1, <1>3, <1>7
  <2>6. CASE i # Top
    <3>1. i + 1 \in Levels /\ i + 1 \notin Bad /\ i + 1 \in 0 .. Top
      BY <2>2, <2>3, <2>6, <1>1, LevelsAre
    <3> QED
      BY <3>1, <2>2, <2>3, <2>4, <2>6, <1>2, <1>3
  <2> QED
    BY <2>5, <2>6
<1> SUFFICES ASSUME NEW i \in Levels
             PROVE  /\ Descent(k)[i] \in Tall(i) \cup {Header}
                    /\ IsStop(Tall(i), k, Descent(k)[i])
  OBVIOUS
<1>9. CASE i <= Top
  BY <1>2, <1>8, <1>9, <1>1, LevelsAre
<1>10. CASE i > Top
  <2>1. Descent(k)[i] = Header
    BY <1>7, <1>10, <1>1, LevelsAre
  <2>2. Tall(i) = {}
    BY <1>10, NothingAboveHeader
  <2> QED
    BY <2>1, <2>2 DEF IsStop
<1> QED
  BY <1>9, <1>10, <1>1, LevelsAre

\* The search ends at the first element of the list that is not below k.
LEMMA ReachedIs ==
  ASSUME Good, NEW k \in Int
  PROVE  /\ Reached(k) = First({x \in Held : x >= k})
         /\ Reached(k) \in Held \cup {Nil}
         /\ k \in Held => Reached(k) = k
         /\ Reached(k) = k => k \in Held \/ k = Nil
<1> DEFINE d == Descent(k)[0]
<1>1. d \in Held \cup {Header} /\ IsStop(Held, k, d)
  BY DescentStops, TallAre, LevelsAre DEF Good
<1>2. Reached(k) = next[0][d]
  <2>1. 0 <= level[Header]
    BY TallAre, LevelsAre, NilAndHeader DEF Good
  <2>2. d \in Tall(0) \cup {Header}
    BY <1>1, TallAre DEF Good
  <2> QED
    BY <2>1, <2>2, LinkIsRead, LevelsAre DEF Reached
<1>3. IsAfter(Held, d, next[0][d]) /\ next[0][d] \in Held \cup {Nil}
  BY <1>1, LinksAre, TallAre, LevelsAre DEF Good
<1>4. Held \in SUBSET Keys
  BY TallAre DEF Good
<1> HIDE DEF d
<1> QED
  BY <1>1, <1>2, <1>3, <1>4, AfterStop

-----------------------------------------------------------------------------
(***************************************************************************)
(* The chain of a level.                                                   *)
(***************************************************************************)

\* s lists the keys A in ascending order, each once.
Lists(s, A) ==
  /\ s \in Seq(Keys)
  /\ Len(s) = Cardinality(A)
  /\ ToSet(s) = A
  /\ \A n \in 1 .. Len(s) - 1 : s[n] < s[n + 1]

LEMMA FiniteKeys ==
  ASSUME NEW A \in SUBSET Keys
  PROVE  IsFiniteSet(A) /\ Cardinality(A) \in Nat
<1>1. IsFiniteSet(Keys)
  BY FS_Interval, NilAndHeader DEF Keys
<1> QED
  BY <1>1, FS_Subset, FS_CardinalityType

LEMMA EmptyLists == Lists(<< >>, {})
BY FS_EmptySet DEF Lists, ToSet

LEMMA ConsLists ==
  ASSUME NEW A \in SUBSET Keys, NEW e \in Keys, \A x \in A : e < x,
         NEW s, Lists(s, A)
  PROVE  Lists(<<e>> \o s, A \cup {e})
<1> DEFINE t == <<e>> \o s
<1>1. s \in Seq(Keys) /\ Len(s) \in Nat
  BY DEF Lists
<1>2. /\ t \in Seq(Keys) /\ Len(t) = Len(s) + 1
      /\ t[1] = e /\ \A n \in 1 .. Len(s) : t[n + 1] = s[n]
  BY <1>1
<1>3. DOMAIN t = 1 .. Len(s) + 1 /\ DOMAIN s = 1 .. Len(s)
  BY <1>1, <1>2
<1> HIDE DEF t
<1>4. Len(t) = Cardinality(A \cup {e})
  <2>1. e \notin A
    BY NilAndHeader
  <2> QED
    BY <1>2, <2>1, FiniteKeys, FS_AddElement DEF Lists
<1>5. ToSet(t) = A \cup {e}
  <2>1. \A x : x \in A <=> \E n \in 1 .. Len(s) : s[n] = x
    BY <1>3 DEF Lists, ToSet
  <2>2. \A n \in 1 .. Len(s) + 1 : t[n] \in A \cup {e}
    <3> TAKE n \in 1 .. Len(s) + 1
    <3>1. CASE n = 1
      BY <3>1, <1>2
    <3>2. CASE n # 1
      <4>1. n - 1 \in 1 .. Len(s) /\ (n - 1) + 1 = n
        BY <3>2, <1>1
      <4>2. t[n] = s[n - 1]
        BY <4>1, <1>2
      <4> QED
        BY <4>1, <4>2, <2>1
    <3> QED
      BY <3>1, <3>2
  <2>3. \A x \in A : \E n \in 1 .. Len(s) + 1 : t[n] = x
    <3> TAKE x \in A
    <3>1. PICK n \in 1 .. Len(s) : s[n] = x
      BY <2>1
    <3>2. n + 1 \in 1 .. Len(s) + 1 /\ t[n + 1] = x
      BY <3>1, <1>1, <1>2
    <3> QED
      BY <3>2
  <2>4. 1 \in 1 .. Len(s) + 1 /\ t[1] = e
    BY <1>1, <1>2
  <2> QED
    BY <1>3, <2>2, <2>3, <2>4 DEF ToSet
<1>6. \A n \in 1 .. Len(t) - 1 : t[n] < t[n + 1]
  <2> TAKE n \in 1 .. Len(t) - 1
  <2>1. n \in 1 .. Len(s) /\ t[n + 1] = s[n]
    BY <1>1, <1>2
  <2>2. CASE n = 1
    <3>1. s[1] \in A
      BY <2>1, <2>2, <1>3 DEF Lists, ToSet
    <3> QED
      BY <3>1, <2>1, <2>2, <1>2
  <2>3. CASE n # 1
    <3>1. n - 1 \in 1 .. Len(s) - 1 /\ (n - 1) + 1 = n /\ n - 1 \in 1 .. Len(s)
      BY <2>1, <2>3, <1>1
    <3>2. s[n - 1] < s[n]
      BY <3>1 DEF Lists
    <3>3. t[n] = s[n - 1]
      BY <3>1, <1>2
    <3> QED
      BY <2>1, <3>2, <3>3
  <2> QED
    BY <2>2, <2>3
<1> QED
  BY <1>2, <1>4, <1>5, <1>6 DEF Lists, t

\* What holds of n, and of every smaller number when of the next, holds of all.
LEMMA Downward ==
  ASSUME NEW n \in Nat, NEW S, n \in S,
         \A m \in 0 .. n - 1 : m + 1 \in S => m \in S
  PROVE  \A m \in 0 .. n : m \in S
<1> DEFINE Bad == {m \in 0 .. n : m \notin S}
<1> SUFFICES ASSUME Bad # {} PROVE FALSE
  OBVIOUS
<1>1. Bad \in SUBSET Int /\ n + 1 \in Int /\ \A m \in Bad : m < n + 1
  OBVIOUS
<1>2. PICK m \in Bad : \A x \in Bad : x <= m
  <2> HIDE DEF Bad
  <2> QED
    BY <1>1, GreatestExists
<1>3. m # n /\ m \in 0 .. n - 1 /\ m + 1 \in 0 .. n /\ m + 1 \notin Bad
  BY <1>2
<1> QED
  BY <1>2, <1>3

\* The recursion that defines Chain has a solution, for the links lead upwards.
LEMMA ChainRecursion ==
  ASSUME Good, NEW i \in Levels
  PROVE  \E f : /\ Chain(i) = f[next[i][Header]]
                /\ f[Nil] = << >>
                /\ \A e \in Keys : f[e] = <<e>> \o f[next[i][e]]
<1> DEFINE Solves(f, D) ==
             f = [e \in D |-> IF e = Nil THEN << >> ELSE <<e>> \o f[next[i][e]]]
           From(m) == {e \in Keys \cup {Nil} : e = Nil \/ m <= e}
           Solved == {m \in 0 .. Header : \E f : Solves(f, From(m))}
           All == Elements \cup {Nil}
<1>1. \A e \in Keys : next[i][e] = Nil \/ (next[i][e] \in Keys /\ e < next[i][e])
  <2> TAKE e \in Keys
  <2>1. CASE e \in Tall(i)
    <3>1. IsAfter(Tall(i), e, next[i][e]) /\ Tall(i) \in SUBSET Keys
      BY <2>1, LinksAre, TallAre DEF Good
    <3> QED
      BY <3>1, NilAndHeader DEF IsAfter, Beyond
  <2>2. CASE e \notin Tall(i)
    BY <2>2, LinksAre, NilAndHeader
  <2> QED
    BY <2>1, <2>2
<1>2. Header \in Solved
  <2>1. From(Header) = {Nil}
    <3>1. \A e \in Keys : ~(Header <= e)
      BY NilAndHeader
    <3> QED
      BY <3>1
  <2>2. Solves([e \in {Nil} |-> << >>], {Nil})
    OBVIOUS
  <2>3. Header \in 0 .. Header
    BY NilAndHeader
  <2> HIDE DEF Solves, From
  <2> QED
    BY <2>1, <2>2, <2>3
<1>3. \A m \in 0 .. Header - 1 : m + 1 \in Solved => m \in Solved
  <2> SUFFICES ASSUME NEW m \in 0 .. Header - 1, NEW f, Solves(f, From(m + 1))
               PROVE  \E g : Solves(g, From(m))
    <3>1. 0 .. Header - 1 \subseteq 0 .. Header
      BY NilAndHeader
    <3> HIDE DEF Solves, From
    <3> QED
      BY <3>1
  <2>0. /\ \A e \in Keys : (m <= e /\ e # m) <=> m + 1 <= e
        /\ \A e \in Keys : m + 1 <= e => m <= e /\ e # m
        /\ Nil # m
    BY NilAndHeader DEF Nil
  <2> DEFINE g == [e \in From(m) |-> IF e = Nil THEN << >>
                                     ELSE IF e = m THEN <<e>> \o f[next[i][e]] ELSE f[e]]
  <2>1. \A e \in From(m) : e # Nil =>
          /\ e \in Keys /\ e \in Int /\ m <= e
          /\ next[i][e] \in From(m + 1) /\ next[i][e] \in From(m) /\ next[i][e] # m
    <3> SUFFICES ASSUME NEW e \in Keys, m <= e
                 PROVE  /\ e \in Int
                        /\ next[i][e] \in From(m + 1) /\ next[i][e] \in From(m)
                        /\ next[i][e] # m
      OBVIOUS
    <3>1. CASE next[i][e] = Nil
      BY <2>0, <3>1, NilAndHeader
    <3>2. CASE next[i][e] # Nil
      <4>1. next[i][e] \in Keys /\ e < next[i][e] /\ e \in Int /\ next[i][e] \in Int
        BY <1>1, <3>2, NilAndHeader
      <4>2. m + 1 <= next[i][e] /\ m <= next[i][e] /\ next[i][e] # m
        BY <4>1
      <4> QED
        BY <4>1, <4>2
    <3> QED
      BY <3>1, <3>2
  <2>2. \A e \in From(m + 1) : e \in From(m) /\ e # m
    BY <2>0
  <2>3. \A e \in From(m + 1) : f[e] = IF e = Nil THEN << >> ELSE <<e>> \o f[next[i][e]]
    OBVIOUS
  <2>4. \A e \in From(m) : e # Nil /\ e # m => e \in From(m + 1)
    BY <2>0
  <2>5. Nil \in From(m + 1)
    OBVIOUS
  <2> HIDE DEF From
  <2>6. \A e \in From(m + 1) : g[e] = f[e]
    BY <2>2, <2>3
  <2>7. \A e \in From(m) : g[e] = IF e = Nil THEN << >> ELSE <<e>> \o g[next[i][e]]
    <3> TAKE e \in From(m)
    <3>1. CASE e = Nil
      BY <3>1
    <3>2. CASE e = m
      BY <3>2, <2>1, <2>6
    <3>3. CASE e # m /\ e # Nil
      BY <3>3, <2>1, <2>3, <2>4, <2>6
    <3> QED
      BY <3>1, <3>2, <3>3
  <2>8. Solves(g, From(m))
    BY <2>7
  <2> QED
    BY <2>8
<1>4. 0 \in Solved
  <2> HIDE DEF Solved
  <2> QED
    BY <1>2, <1>3, Downward, NilAndHeader
<1>5. PICK f : Solves(f, From(0))
  BY <1>4
<1>6. From(0) = Keys \cup {Nil}
  <2>1. \A e \in Keys : 0 <= e
    BY NilAndHeader
  <2> QED
    BY <2>1
<1> DEFINE g == [e \in All |-> IF e = Header THEN <<e>> \o f[next[i][e]] ELSE f[e]]
<1>7. Solves(g, All)
  <2>1. \A e \in Keys \cup {Nil} :
          /\ f[e] = IF e = Nil THEN << >> ELSE <<e>> \o f[next[i][e]]
          /\ g[e] = f[e]
    BY <1>5, <1>6, NilAndHeader
  <2>2. \A e \in Elements : next[i][e] \in Keys \cup {Nil}
    BY LinksAre
  <2>3. \A e \in All : g[e] = IF e = Nil THEN << >> ELSE <<e>> \o g[next[i][e]]
    <3> TAKE e \in All
    <3>1. CASE e = Header
      BY <3>1, <2>1, <2>2, NilAndHeader
    <3>2. CASE e \in Keys \cup {Nil}
      BY <3>2, <2>1, <2>2, NilAndHeader
    <3> QED
      BY <3>1, <3>2, NilAndHeader
  <2> QED
    BY <2>3
<1> DEFINE h == CHOOSE h : Solves(h, All)
<1>8. Chain(i) = h[next[i][Header]]
  BY DEF Chain
<1>9. Solves(h, All)
  <2> HIDE DEF Solves, g
  <2> QED
    BY <1>7
<1>10. h[Nil] = << >> /\ \A e \in Keys : h[e] = <<e>> \o h[next[i][e]]
  BY <1>9, NilAndHeader
<1> QED
  BY <1>8, <1>10

\* The chain of a level lists the elements tall enough for it.
LEMMA ChainLists ==
  ASSUME Good, NEW i \in Levels
  PROVE  Lists(Chain(i), Tall(i))
<1> DEFINE T == Tall(i)
           Rest(e) == {x \in T : e <= x}
<1>1. PICK f : /\ Chain(i) = f[next[i][Header]]
               /\ f[Nil] = << >>
               /\ \A e \in Keys : f[e] = <<e>> \o f[next[i][e]]
  BY ChainRecursion
<1>2. T \in SUBSET Keys /\ Header \notin T /\ Nil \notin T
  BY TallAre, NilAndHeader DEF Good
<1>3. \A e \in T \cup {Header} : IsAfter(T, e, next[i][e]) /\ next[i][e] \in T \cup {Nil}
  BY LinksAre
<1> HIDE DEF T
<1> DEFINE Listed == {m \in 0 .. Header : \A e \in T : m <= e => Lists(f[e], Rest(e))}
<1>4. Header \in Listed
  BY <1>2, NilAndHeader
<1>5. \A m \in 0 .. Header - 1 : m + 1 \in Listed => m \in Listed
  <2> SUFFICES ASSUME NEW m \in 0 .. Header - 1, m + 1 \in Listed
               PROVE  \A e \in T : m <= e => Lists(f[e], Rest(e))
    BY NilAndHeader
  <2> SUFFICES ASSUME m \in T
               PROVE  Lists(f[m], Rest(m))
    BY <1>2, NilAndHeader
  <2> DEFINE n == next[i][m]
  <2>1. IsAfter(T, m, n) /\ n \in T \cup {Nil} /\ f[m] = <<m>> \o f[n]
    BY <1>1, <1>2, <1>3
  <2>2. Header # m
    BY <1>2
  <2>3. CASE n = Nil
    <3>1. \A x \in T : x \in Int /\ ~(m < x)
      BY <2>1, <2>2, <2>3, <1>2, NilAndHeader DEF IsAfter, Beyond
    <3>2. Rest(m) = {} \cup {m}
      <4>1. ASSUME NEW x \in T PROVE m <= x <=> x = m
        <5> x \in Int /\ ~(m < x) /\ m \in Int
          BY <3>1
        <5> QED
          OBVIOUS
      <4> QED
        BY <4>1
    <3>3. Lists(<<m>> \o << >>, {} \cup {m})
      BY <1>2, EmptyLists, ConsLists
    <3> QED
      BY <3>2, <3>3, <2>1, <2>3, <1>1
  <2>4. CASE n # Nil
    <3>1. n \in T /\ m < n /\ \A x \in T : m < x => n <= x
      BY <2>1, <2>2, <2>4, <1>2, NilAndHeader DEF IsAfter, Beyond
    <3>2. T \subseteq Int /\ m \in Int /\ n \in Int
      BY <3>1, <1>2, NilAndHeader
    <3>3. \A x \in T : (m <= x <=> x = m \/ n <= x) /\ (n <= x => m < x)
      <4> TAKE x \in T
      <4> x \in Int /\ m \in Int /\ n \in Int /\ m < n /\ (m < x => n <= x)
        BY <3>1, <3>2
      <4> QED
        OBVIOUS
    <3>4. Rest(m) = Rest(n) \cup {m} /\ \A x \in Rest(n) : m < x
      BY <3>2, <3>3
    <3>5. Lists(f[n], Rest(n))
      <4>1. m + 1 <= n
        BY <3>1, <3>2
      <4> HIDE DEF Rest
      <4> QED
        BY <3>1, <4>1
    <3>6. Rest(n) \in SUBSET Keys
      BY <1>2
    <3> HIDE DEF Rest
    <3> QED
      BY <3>4, <3>5, <3>6, <2>1, <1>2, ConsLists
  <2> QED
    BY <2>3, <2>4
<1>6. 0 \in Listed
  <2> HIDE DEF Listed
  <2> QED
    BY <1>4, <1>5, Downward, NilAndHeader
<1>7. \A e \in T : Lists(f[e], Rest(e))
  BY <1>6, <1>2, NilAndHeader
<1> DEFINE n == next[i][Header]
<1>8. CASE n = Nil
  <2>1. T = {}
    BY <1>3, <1>8, <1>2 DEF IsAfter, Beyond
  <2> QED
    BY <2>1, <1>1, <1>8, EmptyLists DEF T
<1>9. CASE n # Nil
  <2>1. n \in T /\ \A x \in T : n <= x
    BY <1>3, <1>9, <1>2 DEF IsAfter, Beyond
  <2>2. Rest(n) = T
    BY <2>1
  <2>3. Lists(f[n], T)
    BY <2>1, <2>2, <1>7
  <2> QED
    BY <2>3, <1>1 DEF T
<1> QED
  BY <1>8, <1>9

-----------------------------------------------------------------------------
(***************************************************************************)
(* Hooking an element into a level and taking it out of it.                *)
(***************************************************************************)
LEMMA LinksLead ==
  ASSUME NEW T \in SUBSET Keys, NEW links, Links(T, links), NEW e \in T \cup {Header}
  PROVE  IsAfter(T, e, links[e]) /\ links[e] \in T \cup {Nil}
<1>1. e \in Elements
  BY NilAndHeader
<1>2. IsAfter(T, e, links[e])
  BY <1>1 DEF Links
<1> QED
  BY <1>2 DEF IsAfter

LEMMA Hooked ==
  ASSUME NEW T \in SUBSET Keys, NEW k \in Keys, k \notin T,
         NEW links \in [Elements -> Keys \cup {Nil}], Links(T, links),
         NEW d \in T \cup {Header}, IsStop(T, k, d)
  PROVE  LET new == [links EXCEPT ![k] = links[d], ![d] = k]
         IN  new \in [Elements -> Keys \cup {Nil}] /\ Links(T \cup {k}, new)
<1> DEFINE new == [links EXCEPT ![k] = links[d], ![d] = k]
<1>1. /\ T \subseteq Int /\ k \in Int /\ Header \in Int /\ Nil \in Int
      /\ Header \notin T /\ Header # k /\ Nil \notin T /\ Nil # k /\ Nil # Header
      /\ d \in Int /\ d \in Elements /\ k \in Elements /\ d # k /\ T \subseteq Elements
  BY NilAndHeader
<1>2. /\ new \in [Elements -> Keys \cup {Nil}]
      /\ new[k] = links[d] /\ new[d] = k
      /\ \A e \in Elements : e # k /\ e # d => new[e] = links[e]
  BY <1>1
<1>3. \A e \in T \cup {Header} : IsAfter(T, e, links[e]) /\ links[e] \in T \cup {Nil}
  BY <1>1, LinksLead
<1> HIDE DEF new
<1>4. IsAfter(T \cup {k}, k, new[k])
  <2>1. /\ IsAfter(T, d, links[d]) /\ links[d] \in T \cup {Nil}
        /\ new[k] = links[d]
    BY <1>2, <1>3
  <2>2. \A x \in T : Beyond(d, x) <=> Beyond(k, x)
    <3> TAKE x \in T
    <3>1. x \in Int /\ x # k
      BY <1>1
    <3> QED
      BY <3>1, <1>1 DEF IsStop, Beyond
  <2>3. ~Beyond(k, k)
    BY <1>1 DEF Beyond
  <2> QED
    BY <2>1, <2>2, <2>3 DEF IsAfter
<1>5. IsAfter(T \cup {k}, d, new[d])
  <2>1. Beyond(d, k) /\ \A x \in T : Beyond(d, x) => k <= x
    BY <1>1 DEF IsStop, Beyond
  <2> QED
    BY <2>1, <1>1, <1>2 DEF IsAfter
<1>6. ASSUME NEW e \in T \cup {Header}, e # d
      PROVE  IsAfter(T \cup {k}, e, new[e])
  <2>1. e \in Int /\ e \in Elements /\ e # k
    BY <1>1, NilAndHeader
  <2>2. new[e] = links[e] /\ IsAfter(T, e, links[e]) /\ links[e] \in T \cup {Nil}
    BY <1>2, <1>3, <1>6, <2>1
  <2>3. CASE e = Header
    <3>1. d \in T /\ d < k
      BY <2>3, <1>6 DEF IsStop
    <3>2. links[e] \in T /\ links[e] <= d
      BY <2>2, <2>3, <3>1 DEF IsAfter, Beyond
    <3>3. links[e] \in Int /\ d \in Int /\ k \in Int /\ links[e] <= k
      <4> links[e] \in Int /\ d \in Int /\ k \in Int
        BY <3>1, <3>2, <1>1
      <4> QED
        BY <3>1, <3>2
    <3> QED
      BY <2>2, <2>3, <3>2, <3>3 DEF IsAfter, Beyond
  <2>4. CASE e \in T /\ e < k
    <3>1. d \in T /\ d < k /\ e < d
      BY <2>1, <2>4, <1>1, <1>6 DEF IsStop
    <3>2. links[e] \in T /\ links[e] <= d
      BY <2>1, <2>2, <2>4, <3>1, <1>1 DEF IsAfter, Beyond
    <3>3. links[e] \in Int /\ d \in Int /\ k \in Int /\ links[e] <= k
      <4> links[e] \in Int /\ d \in Int /\ k \in Int
        BY <3>1, <3>2, <1>1
      <4> QED
        BY <3>1, <3>2
    <3> QED
      BY <2>1, <2>2, <2>4, <3>2, <3>3, <1>1 DEF IsAfter, Beyond
  <2>5. CASE e \in T /\ ~(e < k)
    <3>1. ~Beyond(e, k)
      BY <2>1, <2>5, <1>1 DEF Beyond
    <3> QED
      BY <2>2, <3>1 DEF IsAfter
  <2> QED
    BY <2>3, <2>4, <2>5
<1>7. ASSUME NEW e \in Elements, e \notin T \cup {k} \cup {Header}
      PROVE  new[e] = Nil
  BY <1>2, <1>7 DEF Links
<1>8. Links(T \cup {k}, new)
  BY <1>4, <1>5, <1>6, <1>7 DEF Links
<1> QED
  BY <1>2, <1>8 DEF new

LEMMA Unhooked ==
  ASSUME NEW T \in SUBSET Keys, NEW k \in T,
         NEW links \in [Elements -> Keys \cup {Nil}], Links(T, links),
         NEW d \in T \cup {Header}, IsStop(T, k, d)
  PROVE  LET new == [links EXCEPT ![d] = links[k], ![k] = Nil]
         IN  new \in [Elements -> Keys \cup {Nil}] /\ Links(T \ {k}, new)
<1> DEFINE new == [links EXCEPT ![d] = links[k], ![k] = Nil]
<1>1. /\ T \subseteq Int /\ k \in Int /\ Header \in Int /\ Nil \in Int
      /\ Header \notin T /\ Header # k /\ Nil \notin T /\ Nil # k /\ Nil # Header
      /\ d \in Int /\ d \in Elements /\ k \in Elements /\ T \subseteq Elements
      /\ k \in Keys /\ Nil \notin Elements
  BY NilAndHeader
<1>2. d # k
  BY <1>1 DEF IsStop
<1>3. /\ new \in [Elements -> Keys \cup {Nil}]
      /\ new[k] = Nil /\ new[d] = links[k]
      /\ \A e \in Elements : e # k /\ e # d => new[e] = links[e]
  BY <1>1, <1>2
<1>4. \A e \in T \cup {Header} : IsAfter(T, e, links[e]) /\ links[e] \in T \cup {Nil}
  BY <1>1, LinksLead
<1> HIDE DEF new
<1>5. IsAfter(T \ {k}, d, new[d])
  <2>1. /\ IsAfter(T, k, links[k]) /\ links[k] \in T \cup {Nil} /\ new[d] = links[k]
        /\ \A x \in T : x \in Int
    BY <1>1, <1>3, <1>4
  <2>2. \A x \in T : (Beyond(d, x) /\ x # k) <=> Beyond(k, x)
    BY <1>1, <1>2 DEF IsStop, Beyond
  <2>3. ~Beyond(k, k)
    BY <1>1 DEF Beyond
  <2> QED
    BY <2>1, <2>2, <2>3 DEF IsAfter
<1>6. ASSUME NEW e \in (T \ {k}) \cup {Header}, e # d
      PROVE  IsAfter(T \ {k}, e, new[e])
  <2>1. e \in Int /\ e \in Elements /\ e # k
    BY <1>1, NilAndHeader
  <2>2. new[e] = links[e] /\ IsAfter(T, e, links[e]) /\ links[e] \in T \cup {Nil}
    BY <1>3, <1>4, <1>6, <2>1
  <2>3. links[e] # k
    <3> SUFFICES ASSUME links[e] = k PROVE FALSE
      OBVIOUS
    <3>1. Beyond(e, k) /\ \A x \in T : Beyond(e, x) => k <= x
      BY <2>2, <1>1 DEF IsAfter
    <3>2. d \in T => d \in Int /\ d < k /\ ~Beyond(e, d)
      BY <3>1, <1>1 DEF IsStop
    <3>3. CASE d \in T
      BY <3>1, <3>2, <3>3, <2>1, <1>1, <1>6 DEF IsStop, Beyond
    <3>4. CASE d = Header
      BY <3>1, <3>4, <2>1, <1>1, <1>6 DEF IsStop, Beyond
    <3> QED
      BY <3>3, <3>4
  <2> QED
    BY <2>2, <2>3, <1>1 DEF IsAfter
<1>7. ASSUME NEW e \in Elements, e \notin (T \ {k}) \cup {Header}
      PROVE  new[e] = Nil
  BY <1>1, <1>2, <1>3, <1>7 DEF Links
<1>8. Links(T \ {k}, new)
  <2>1. d \in (T \ {k}) \cup {Header}
    BY <1>1, <1>2
  <2> QED
    BY <2>1, <1>5, <1>6, <1>7 DEF Links
<1> QED
  BY <1>3, <1>8 DEF new

-----------------------------------------------------------------------------
(***************************************************************************)
(* The bodies of insert and free.                                          *)
(***************************************************************************)
ListType ==
  /\ level \in [Elements -> Levels]
  /\ next \in [Levels -> [Elements -> Keys \cup {Nil}]]
  /\ value \in [Keys -> Values \cup {NotFound}]
  /\ length \in Nat

PlacesType ==
  /\ iter \in Elements \cup {Nil, Freed}
  /\ freeing \in [from : Int, to : Int, element : Keys \cup {Nil}]

\* What a list is, iterator and freeRange's place left aside.
ListInv == ListType /\ Linked /\ HeaderIsTallest /\ LengthIsHeld

LEMMA InvIsParts ==
  /\ IInv <=> ListInv /\ PlacesType /\ FreeingAt
  /\ IInv => Good
BY DEF IInv, ListInv, ListType, PlacesType, TypeOK, Good

LEMMA ValuesAreFound == NotFound \notin Values /\ \A v \in Values : v # NotFound
BY SkipListAssumption DEF NotFound

LEMMA MaxOfTwo ==
  ASSUME NEW a \in Int, NEW b \in Int
  PROVE  /\ Max({a, b}) \in {a, b} /\ a <= Max({a, b}) /\ b <= Max({a, b})
<1>1. \E m \in {a, b} : \A x \in {a, b} : m >= x
  OBVIOUS
<1> QED
  BY <1>1 DEF Max

\* A list that keeps its elements, their levels and its links is still one.
LEMMA KeptList ==
  ASSUME ListInv, ListType', Held' = Held, UNCHANGED <<level, next, length>>
  PROVE  ListInv'
<1>1. \A i \in Levels : Tall(i)' = Tall(i)
  BY DEF Tall
<1>2. Linked'
  BY <1>1 DEF ListInv, Linked, Links
<1>3. HeaderIsTallest' /\ LengthIsHeld'
  BY DEF ListInv, HeaderIsTallest, LengthIsHeld
<1> QED
  BY <1>2, <1>3 DEF ListInv

LEMMA UnchangedKeeps ==
  ASSUME ListInv, UNCHANGED <<level, next, value, length>>
  PROVE  ListInv' /\ Held' = Held
<1>1. Held' = Held
  BY DEF Held
<1>2. ListType'
  BY DEF ListInv, ListType
<1> QED
  BY <1>1, <1>2, KeptList

LEMMA OverwriteKeeps ==
  ASSUME ListInv, Good, NEW k \in Keys, NEW v \in Values, Overwrite(k, v)
  PROVE  /\ ListInv' /\ k \in Held /\ Held' = Held
         /\ value'[k] = v /\ \A x \in Keys : x # k => value'[x] = value[x]
<1>1. k \in Held
  BY ReachedIs, NilAndHeader DEF Overwrite
<1>2. /\ value' = [value EXCEPT ![k] = v] /\ value \in [Keys -> Values \cup {NotFound}]
      /\ UNCHANGED <<level, next, length>>
  BY DEF Overwrite, ListInv, ListType
<1>3. value'[k] = v /\ \A x \in Keys : x # k => value'[x] = value[x]
  BY <1>2
<1>4. Held' = Held
  BY <1>1, <1>3, ValuesAreFound DEF Held
<1>5. ListType'
  BY <1>2 DEF ListInv, ListType
<1> QED
  BY <1>1, <1>2, <1>3, <1>4, <1>5, KeptList

LEMMA LinkKeeps ==
  ASSUME ListInv, Good, NEW k \in Keys, NEW v \in Values,
         NEW newLevel \in NewLevels, Link(k, v, newLevel)
  PROVE  /\ ListInv' /\ k \notin Held /\ Held' = Held \cup {k}
         /\ value'[k] = v /\ \A x \in Keys : x # k => value'[x] = value[x]
<1> DEFINE top == Max({level[Header], newLevel})
<1>0. /\ newLevel \in Levels /\ newLevel \in Int
      /\ level[Header] \in Int /\ level[Header] \in Levels
      /\ \A x \in Held : x \in Elements /\ level[x] \in Int
      /\ Held \in SUBSET Keys
  BY LevelsAre, NilAndHeader, TallAre DEF NewLevels, Good
<1>1. k \notin Held
  BY ReachedIs, NilAndHeader DEF Link
<1>2. /\ value' = [value EXCEPT ![k] = v] /\ value \in [Keys -> Values \cup {NotFound}]
      /\ level' = [level EXCEPT ![k] = newLevel, ![Header] = Max({@, newLevel})]
      /\ level \in [Elements -> Levels]
      /\ next' = [i \in Levels |->
                    IF i <= newLevel
                    THEN [next[i] EXCEPT ![k] = next[i][Descent(k)[i]],
                                         ![Descent(k)[i]] = k]
                    ELSE next[i]]
      /\ next \in [Levels -> [Elements -> Keys \cup {Nil}]]
      /\ length' = length + 1 /\ length \in Nat
  BY DEF Link, ListInv, ListType
<1>3. value'[k] = v /\ \A x \in Keys : x # k => value'[x] = value[x]
  BY <1>2
<1>4. Held' = Held \cup {k}
  BY <1>1, <1>3, ValuesAreFound DEF Held
<1>5. /\ top \in Levels /\ level[Header] <= top /\ newLevel <= top
      /\ top = level[Header] \/ top = newLevel
  BY <1>0, MaxOfTwo
<1>6. /\ level' \in [Elements -> Levels]
      /\ level'[k] = newLevel /\ level'[Header] = top
      /\ \A x \in Held : level'[x] = level[x]
  <2>1. level' = [level EXCEPT ![k] = newLevel, ![Header] = top]
    BY <1>2, NilAndHeader
  <2> HIDE DEF top
  <2> QED
    BY <2>1, <1>0, <1>1, <1>2, <1>5, NilAndHeader
<1> HIDE DEF top
<1>7. ASSUME NEW i \in Levels
      PROVE  Tall(i)' = IF i <= newLevel THEN Tall(i) \cup {k} ELSE Tall(i)
  <2>1. i \in Int
    BY LevelsAre
  <2>2. \A x \in Held : level'[x] >= i <=> level[x] >= i
    BY <1>6
  <2>3. level'[k] >= i <=> i <= newLevel
    BY <2>1, <1>0, <1>6
  <2> QED
    BY <2>2, <2>3, <1>1, <1>4 DEF Tall
<1>8. ASSUME NEW i \in Levels
      PROVE  next'[i] \in [Elements -> Keys \cup {Nil}] /\ Links(Tall(i)', next'[i])
  <2> DEFINE T == Tall(i)
             d == Descent(k)[i]
  <2>1. /\ T \in SUBSET Keys /\ k \notin T /\ Links(T, next[i])
        /\ next[i] \in [Elements -> Keys \cup {Nil}]
        /\ d \in T \cup {Header} /\ IsStop(T, k, d)
    BY <1>1, <1>2, TallAre, DescentStops, NilAndHeader DEF Good, Linked
  <2>2. next'[i] = IF i <= newLevel
                   THEN [next[i] EXCEPT ![k] = next[i][d], ![d] = k]
                   ELSE next[i]
    BY <1>2
  <2>3. Tall(i)' = IF i <= newLevel THEN T \cup {k} ELSE T
    BY <1>7
  <2> HIDE DEF T, d
  <2>4. CASE i <= newLevel
    <3> DEFINE new == [next[i] EXCEPT ![k] = next[i][d], ![d] = k]
    <3>1. new \in [Elements -> Keys \cup {Nil}] /\ Links(T \cup {k}, new)
      BY <2>1, Hooked
    <3>2. next'[i] = new /\ Tall(i)' = T \cup {k}
      BY <2>2, <2>3, <2>4
    <3> QED
      BY <3>1, <3>2
  <2>5. CASE ~(i <= newLevel)
    BY <2>1, <2>2, <2>3, <2>5
  <2> QED
    BY <2>4, <2>5
<1>9. next' \in [Levels -> [Elements -> Keys \cup {Nil}]]
  BY <1>2, <1>8
<1>10. Linked'
  <2>1. \A i \in Levels : Links(Tall(i)', next'[i])
    BY <1>8
  <2> QED
    BY <2>1 DEF Linked, Links
<1>11. HeaderIsTallest'
  <2>1. \A x \in Held : level[x] <= level[Header]
    BY DEF ListInv, HeaderIsTallest
  <2>2. \A x \in Held' : level'[x] <= level'[Header]
    BY <2>1, <1>0, <1>4, <1>5, <1>6
  <2>3. level'[Header] # 0 => \E x \in Held' : level'[x] = level'[Header]
    <3>1. CASE top = newLevel
      BY <3>1, <1>4, <1>6
    <3>2. CASE top = level[Header] /\ level[Header] # 0
      <4>1. PICK x \in Held : level[x] = level[Header]
        BY <3>2 DEF ListInv, HeaderIsTallest
      <4> QED
        BY <4>1, <3>2, <1>4, <1>6
    <3> QED
      BY <3>1, <3>2, <1>5, <1>6
  <2> QED
    BY <2>2, <2>3 DEF HeaderIsTallest
<1>12. LengthIsHeld'
  <2>1. length = Cardinality(Held)
    BY DEF ListInv, LengthIsHeld
  <2>2. Cardinality(Held \cup {k}) = Cardinality(Held) + 1
    BY <1>0, <1>1, FiniteKeys, FS_AddElement
  <2> QED
    BY <2>1, <2>2, <1>2, <1>4 DEF LengthIsHeld
<1>13. ListType'
  <2>1. value' \in [Keys -> Values \cup {NotFound}] /\ length' \in Nat
    BY <1>2
  <2> QED
    BY <2>1, <1>6, <1>9 DEF ListType
<1> QED
  BY <1>1, <1>3, <1>4, <1>10, <1>11, <1>12, <1>13 DEF ListInv

LEMMA UnlinkKeeps ==
  ASSUME ListInv, Good, NEW k \in Held, Unlink(k)
  PROVE  /\ ListInv' /\ Held' = Held \ {k}
         /\ value'[k] = NotFound /\ \A x \in Keys : x # k => value'[x] = value[x]
<1> DEFINE Has(i) == i <= level[Header] /\ next[i][Descent(k)[i]] = k
           links == [i \in Levels |->
                       IF Has(i)
                       THEN [next[i] EXCEPT ![Descent(k)[i]] = next[i][k], ![k] = Nil]
                       ELSE next[i]]
           used == {i \in 1 .. level[Header] : links[i][Header] # Nil}
           top == Max(used \cup {0})
<1>0. /\ level[Header] \in Int /\ level[Header] \in Levels /\ 0 <= level[Header]
      /\ level[Header] < MaxLevel
      /\ \A x \in Held : x \in Elements /\ level[x] \in Int /\ 0 <= level[x]
                         /\ level[x] <= level[Header] /\ level[x] \in Levels
      /\ Held \in SUBSET Keys /\ k \in Keys /\ k \in Elements /\ k # Header
      /\ Header \in Elements /\ 0 \in Levels
  BY LevelsAre, NilAndHeader, TallAre DEF Good, HeaderIsTallest
<1>1. /\ next' = links
      /\ level' = [level EXCEPT ![k] = 0, ![Header] = top]
      /\ value' = [value EXCEPT ![k] = NotFound]
      /\ length' = length - 1
  BY DEF Unlink
<1>2. /\ value \in [Keys -> Values \cup {NotFound}]
      /\ level \in [Elements -> Levels]
      /\ next \in [Levels -> [Elements -> Keys \cup {Nil}]]
      /\ length \in Nat
  BY DEF ListInv, ListType
<1>3. value'[k] = NotFound /\ \A x \in Keys : x # k => value'[x] = value[x]
  BY <1>0, <1>1, <1>2
<1>4. Held' = Held \ {k}
  BY <1>3 DEF Held
<1>5. ASSUME NEW i \in Levels
      PROVE  /\ links[i] \in [Elements -> Keys \cup {Nil}]
             /\ Links(Tall(i) \ {k}, links[i])
  <2> DEFINE T == Tall(i)
             d == Descent(k)[i]
             new == [next[i] EXCEPT ![d] = next[i][k], ![k] = Nil]
  <2>1. /\ T \in SUBSET Keys /\ Links(T, next[i])
        /\ next[i] \in [Elements -> Keys \cup {Nil}]
        /\ d \in T \cup {Header} /\ IsStop(T, k, d)
        /\ IsAfter(T, d, next[i][d]) /\ next[i][d] \in T \cup {Nil}
    BY <1>0, <1>2, TallAre, DescentStops, LinksAre, NilAndHeader DEF Good, Linked
  <2>2. links[i] = IF Has(i) THEN new ELSE next[i]
    OBVIOUS
  <2>3. Has(i) <=> k \in T
    <3>1. next[i][d] = k <=> k \in T
      <4> DEFINE a == next[i][d]
      <4>1. /\ T \in SUBSET Keys /\ d \in T \cup {Header} /\ IsStop(T, k, d)
            /\ IsAfter(T, d, a) /\ a \in T \cup {Nil} /\ k \in Int
        BY <2>1, <1>0, NilAndHeader
      <4> HIDE DEF T, d, a
      <4>2. (k \in T => a = k) /\ (a = k => k \in T \/ k = Nil)
        BY <4>1, AfterStop
      <4>3. (k \in T => next[i][d] = k) /\ (next[i][d] = k => k \in T \/ k = Nil)
        BY <4>2 DEF a
      <4> QED
        BY <4>3, <1>0, NilAndHeader
    <3>2. k \in T => i <= level[Header]
      <4>1. i \in Int
        BY LevelsAre
      <4> QED
        BY <4>1, <1>0 DEF Tall
    <3> QED
      BY <3>1, <3>2
  <2> HIDE DEF T, d, links, Has
  <2>4. CASE k \in T
    <3>1. new \in [Elements -> Keys \cup {Nil}] /\ Links(T \ {k}, new)
      BY <2>1, <2>4, Unhooked
    <3> QED
      BY <3>1, <2>2, <2>3, <2>4 DEF T
  <2>5. CASE k \notin T
    <3>1. T \ {k} = T
      BY <2>5
    <3> QED
      BY <3>1, <2>1, <2>2, <2>3, <2>5 DEF T
  <2> QED
    BY <2>4, <2>5
<1>6. links \in [Levels -> [Elements -> Keys \cup {Nil}]]
  BY <1>5
<1> HIDE DEF links
\* The header keeps the highest level that links an element.
<1>7. \A i \in Levels : links[i][Header] # Nil <=> Tall(i) \ {k} # {}
  <2> TAKE i \in Levels
  <2>1. Tall(i) \ {k} \in SUBSET Keys
    BY TallAre DEF Good
  <2>2. IsAfter(Tall(i) \ {k}, Header, links[i][Header])
        /\ links[i][Header] \in (Tall(i) \ {k}) \cup {Nil}
    BY <2>1, <1>5, LinksLead
  <2> QED
    BY <2>1, <2>2, NilAndHeader DEF IsAfter, Beyond
<1>8. /\ top \in used \cup {0} /\ \A i \in used \cup {0} : i <= top
      /\ top \in Levels /\ top \in Int /\ 0 <= top
  <2>1. used \cup {0} \in SUBSET Int /\ \A i \in used \cup {0} : i < MaxLevel
    BY <1>0, LevelsAre
  <2>2. \A i \in used \cup {0} : i \in Levels
    BY <1>0, LevelsAre
  <2> HIDE DEF used
  <2>3. MaxLevel \in Int /\ used \cup {0} # {}
    BY LevelsAre
  <2>4. \E m \in used \cup {0} : \A i \in used \cup {0} : i <= m
    BY <2>1, <2>3, GreatestExists
  <2>5. \E m \in used \cup {0} : \A i \in used \cup {0} : m >= i
    BY <2>1, <2>4
  <2>6. top \in used \cup {0} /\ \A i \in used \cup {0} : top >= i
    BY <2>5 DEF Max
  <2> QED
    BY <2>1, <2>2, <2>6
<1> HIDE DEF top
<1>9. /\ level' \in [Elements -> Levels]
      /\ level'[Header] = top
      /\ \A x \in Held : x # k => level'[x] = level[x]
  BY <1>0, <1>1, <1>2, <1>8, NilAndHeader
<1>10. ASSUME NEW i \in Levels
       PROVE  Tall(i)' = Tall(i) \ {k}
  <2>1. \A x \in Held : x # k => (level'[x] >= i <=> level[x] >= i)
    BY <1>9
  <2> QED
    BY <2>1, <1>4 DEF Tall
<1>11. Linked'
  <2>1. \A i \in Levels : Links(Tall(i)', next'[i])
    BY <1>1, <1>5, <1>10
  <2> QED
    BY <2>1 DEF Linked, Links
<1>12. HeaderIsTallest'
  <2>1. ASSUME NEW x \in Held'
        PROVE  level'[x] <= level'[Header]
    <3>1. x \in Held /\ x # k /\ level[x] \in Levels /\ level[x] \in Int
          /\ 0 <= level[x] /\ level[x] <= level[Header]
      BY <1>0, <1>4
    <3>2. CASE level[x] = 0
      BY <3>1, <3>2, <1>8, <1>9
    <3>3. CASE level[x] # 0
      <4>1. x \in Tall(level[x]) \ {k}
        BY <3>1 DEF Tall
      <4>2. level[x] \in 1 .. level[Header]
        BY <3>1, <3>3, <1>0
      <4>3. level[x] \in used
        BY <3>1, <4>1, <4>2, <1>7
      <4> QED
        BY <4>3, <3>1, <1>8, <1>9
    <3> QED
      BY <3>2, <3>3
  <2>2. ASSUME level'[Header] # 0
        PROVE  \E x \in Held' : level'[x] = level'[Header]
    <3>1. top \in used /\ top # 0
      BY <2>2, <1>8, <1>9
    <3>2. PICK x \in Tall(top) \ {k} : TRUE
      BY <3>1, <1>7, <1>8
    <3>3. x \in Held /\ x # k /\ level[x] >= top
      BY <3>2 DEF Tall
    <3>4. x \in Held' /\ level'[x] = level[x] /\ level[x] \in Int
      BY <3>3, <1>0, <1>4, <1>9
    <3>5. level'[x] <= level'[Header]
      BY <3>4, <2>1
    <3> QED
      BY <3>3, <3>4, <3>5, <1>8, <1>9
  <2> QED
    BY <2>1, <2>2 DEF HeaderIsTallest
<1>13. LengthIsHeld' /\ length' \in Nat
  <2>1. length = Cardinality(Held)
    BY DEF ListInv, LengthIsHeld
  <2>2. Cardinality(Held \ {k}) = Cardinality(Held) - 1
    BY <1>0, FiniteKeys, FS_RemoveElement
  <2>3. Held \ {k} \in SUBSET Keys
    BY <1>0
  <2>4. Cardinality(Held \ {k}) \in Nat
    BY <2>3, FiniteKeys
  <2> QED
    BY <2>1, <2>2, <2>4, <1>1, <1>4 DEF LengthIsHeld
<1>14. ListType'
  <2>1. value' \in [Keys -> Values \cup {NotFound}]
    BY <1>1, <1>2
  <2> QED
    BY <2>1, <1>1, <1>6, <1>9, <1>13 DEF ListType
<1> QED
  BY <1>3, <1>4, <1>11, <1>12, <1>13, <1>14 DEF ListInv

-----------------------------------------------------------------------------
(***************************************************************************)
(* The invariant is kept.                                                  *)
(***************************************************************************)
LEMMA InitKeeps == Init => IInv
<1> SUFFICES ASSUME Init PROVE IInv
  OBVIOUS
<1>1. Held = {} /\ \A i \in Levels : Tall(i) = {}
  BY NilAndHeader DEF Held, Tall, Init
<1>2. TypeOK
  <2>1. Idle \in [from : Int, to : Int, element : Keys \cup {Nil}]
    BY DEF Idle
  <2> QED
    BY <2>1, LevelsAre, NilAndHeader DEF TypeOK, Init
<1>3. Linked
  <2>1. \A i \in Levels, e \in Elements : next[i][e] = Nil
    BY DEF Init
  <2> QED
    BY <2>1, <1>1 DEF Linked, Links, IsAfter
<1>4. HeaderIsTallest
  BY <1>1, NilAndHeader DEF HeaderIsTallest, Init
<1>5. LengthIsHeld
  BY <1>1, FS_EmptySet DEF LengthIsHeld, Init
<1>6. FreeingAt
  BY DEF FreeingAt, Init
<1> QED
  BY <1>2, <1>3, <1>4, <1>5, <1>6 DEF IInv

\* What a client's call makes of the list.
LEMMA InsertKeeps ==
  ASSUME IInv, NEW k \in Keys, NEW v \in Values, Insert(k, v)
  PROVE  /\ IInv' /\ Held' = Held \cup {k}
         /\ value'[k] = v /\ \A x \in Keys : x # k => value'[x] = value[x]
<1>1. ListInv /\ Good
  BY InvIsParts
<1>2. /\ ListInv' /\ Held' = Held \cup {k}
      /\ value'[k] = v /\ \A x \in Keys : x # k => value'[x] = value[x]
  <2>1. CASE Overwrite(k, v)
    BY <2>1, <1>1, OverwriteKeeps
  <2>2. CASE \E newLevel \in NewLevels : Link(k, v, newLevel)
    BY <2>2, <1>1, LinkKeeps
  <2> QED
    BY <2>1, <2>2 DEF Insert
<1>3. PlacesType' /\ FreeingAt'
  BY DEF IInv, TypeOK, PlacesType, FreeingAt, Insert
<1> QED
  BY <1>2, <1>3, InvIsParts, PTL

LEMMA FreeBodyKeeps ==
  ASSUME IInv, NEW k \in Keys, FreeBody(k)
  PROVE  /\ ListInv' /\ Held' = Held \ {k} /\ iter' \in {iter, Freed}
         /\ \A x \in Keys : x # k => value'[x] = value[x]
<1>1. ListInv /\ Good
  BY InvIsParts
<1>2. CASE Reached(k) = k
  <2>1. k \in Held /\ Unlink(k)
    BY <1>1, <1>2, ReachedIs, NilAndHeader DEF FreeBody
  <2> QED
    BY <1>1, <2>1, UnlinkKeeps DEF Unlink
<1>3. CASE Reached(k) # k
  <2>1. k \notin Held
    BY <1>1, <1>3, ReachedIs, NilAndHeader
  <2>2. UNCHANGED <<level, next, value, length, iter>>
    BY <1>3 DEF FreeBody
  <2> QED
    BY <1>1, <2>1, <2>2, UnchangedKeeps
<1> QED
  BY <1>2, <1>3

LEMMA FreeKeeps ==
  ASSUME IInv, NEW k \in Keys, Free(k)
  PROVE  /\ IInv' /\ Held' = Held \ {k}
         /\ \A x \in Keys : x # k => value'[x] = value[x]
<1>1. /\ ListInv' /\ Held' = Held \ {k} /\ iter' \in {iter, Freed}
      /\ \A x \in Keys : x # k => value'[x] = value[x]
  BY FreeBodyKeeps DEF Free
<1>2. PlacesType' /\ FreeingAt'
  BY <1>1 DEF IInv, TypeOK, PlacesType, FreeingAt, Free
<1> QED
  BY <1>1, <1>2, InvIsParts, PTL

\* A turn of freeRange frees the first key left and goes on to the next.
LEMMA TurnKeeps ==
  ASSUME IInv, FreeRangeTurn
  PROVE  /\ IInv' /\ freeing.element \in Held
         /\ freeing.from <= freeing.element /\ freeing.element <= freeing.to
         /\ Held' = Held \ {freeing.element}
         /\ \A x \in Keys : x # freeing.element => value'[x] = value[x]
<1> DEFINE e == freeing.element
           n == next[0][e]
           left == {k \in Held : k >= freeing.from}
           rest == {k \in Held' : k >= freeing.from}
<1>1. ListInv /\ Good /\ Held \in SUBSET Keys /\ freeing.from \in Int
      /\ freeing \in [from : Int, to : Int, element : Keys \cup {Nil}]
  BY InvIsParts, TallAre DEF IInv, TypeOK
<1>2. /\ freeing # Idle /\ e # Nil /\ e <= freeing.to /\ FreeBody(e)
      /\ freeing' = [freeing EXCEPT !.element = n]
  BY DEF FreeRangeTurn
<1>3. e \in left /\ \A k \in left : e <= k
  <2>1. e = First(left)
    BY <1>2 DEF IInv, FreeingAt
  <2>2. left \in SUBSET Keys
    BY <1>1
  <2> HIDE DEF left, e
  <2> QED
    BY <2>1, <2>2, <1>2, FirstResult
<1>4. e \in Held /\ e \in Keys /\ e \in Int /\ e >= freeing.from /\ e # Header
  BY <1>1, <1>3, NilAndHeader
<1>5. /\ ListInv' /\ Held' = Held \ {e} /\ iter' \in {iter, Freed}
      /\ \A x \in Keys : x # e => value'[x] = value[x]
  BY <1>2, <1>4, FreeBodyKeeps
<1>6. IsAfter(Held, e, n) /\ n \in Held \cup {Nil}
  BY <1>1, <1>4, LinksAre, TallAre, LevelsAre DEF Good
<1>7. n = First(rest)
  <2>1. rest \in SUBSET Keys /\ rest = left \ {e}
    BY <1>1, <1>5
  <2>2. \A k \in Held : k \in Int /\ (k \in rest <=> Beyond(e, k))
    <3> SUFFICES ASSUME NEW k \in Held
                 PROVE  k \in Int /\ (k \in rest <=> Beyond(e, k))
      OBVIOUS
    <3>1. k \in Int /\ (k \in left => e <= k)
      BY <1>1, <1>3, NilAndHeader
    <3>2. k \in left <=> k >= freeing.from
      OBVIOUS
    <3> HIDE DEF left, rest, e
    <3> QED
      BY <3>1, <3>2, <2>1, <1>1, <1>4 DEF Beyond
  <2>3. \A k \in rest : k \in Held
    BY <1>5
  <2> HIDE DEF left, rest, e, n
  <2>4. IsAfter(rest, Header, n) /\ n \in rest \cup {Nil}
    BY <1>6, <2>2, <2>3 DEF IsAfter, Beyond
  <2> QED
    BY <2>1, <2>4, FirstIsAfter
<1>8. /\ freeing'.element = n /\ freeing'.from = freeing.from
      /\ freeing' \in [from : Int, to : Int, element : Keys \cup {Nil}]
  <2>1. n \in Keys \cup {Nil}
    BY <1>1, <1>6
  <2> HIDE DEF n
  <2> QED
    BY <2>1, <1>1, <1>2
<1>9. PlacesType' /\ FreeingAt'
  <2>1. PlacesType'
    BY <1>5, <1>8 DEF IInv, TypeOK, PlacesType
  <2>2. FreeingAt'
    BY <1>7, <1>8 DEF FreeingAt
  <2> QED
    BY <2>1, <2>2
<1>10. IInv'
  BY <1>5, <1>9, InvIsParts, PTL
<1> QED
  BY <1>2, <1>4, <1>5, <1>10

\* The calls that only move the iterator, or begin or end a loop.
Moves ==
  \/ \E lo, hi \in Keys : FreeRangeBegin(lo, hi)
  \/ FreeAllBegin
  \/ FreeRangeEnd
  \/ Reset
  \/ Step
  \/ \E k \in Keys : SearchAndSet(k) \/ GetNthKey(k)

LEMMA ChainOfHeld ==
  ASSUME Good
  PROVE  /\ Lists(Chain(0), Held) /\ Len(Chain(0)) \in Nat
         /\ \A n \in 1 .. Len(Chain(0)) : Chain(0)[n] \in Held
<1>1. Lists(Chain(0), Held) /\ 0 \in Levels
  BY ChainLists, TallAre, LevelsAre DEF Good
<1> DEFINE c == Chain(0)
<1> HIDE DEF c
<1>2. c \in Seq(Keys) /\ ToSet(c) = Held
  BY <1>1 DEF Lists, c
<1>3. Len(c) \in Nat /\ DOMAIN c = 1 .. Len(c)
  BY <1>2
<1>4. \A n \in 1 .. Len(c) : c[n] \in Held
  BY <1>2, <1>3 DEF ToSet
<1> QED
  BY <1>1, <1>3, <1>4 DEF c

LEMMA MovesKeep ==
  ASSUME IInv, Moves
  PROVE  IInv' /\ Held' = Held /\ value' = value
<1>1. /\ ListInv /\ Good /\ PlacesType /\ FreeingAt
      /\ Held \in SUBSET Keys /\ 0 \in Levels
  BY InvIsParts, TallAre, LevelsAre DEF IInv
<1>2. UNCHANGED <<level, next, value, length>>
  BY DEF Moves, FreeRangeBegin, FreeAllBegin, FreeRangeEnd, Reset, Step,
         SearchAndSet, GetNthKey
<1>3. ListInv' /\ Held' = Held
  BY <1>1, <1>2, UnchangedKeeps
<1>4. \A e \in Elements : next[0][e] \in Keys \cup {Nil}
  BY <1>1, LinksAre
<1>5. Keys \cup {Nil} \subseteq Elements \cup {Nil, Freed}
  BY NilAndHeader
<1>6. ASSUME NEW lo \in Keys, NEW hi \in Keys, FreeRangeBegin(lo, hi)
      PROVE  PlacesType' /\ FreeingAt'
  <2>1. /\ freeing' = [from |-> lo, to |-> hi, element |-> Reached(lo)]
        /\ iter' = iter
    BY <1>6 DEF FreeRangeBegin
  <2>2. /\ lo \in Int /\ hi \in Int
        /\ Reached(lo) = First({k \in Held : k >= lo}) /\ Reached(lo) \in Keys \cup {Nil}
    BY <1>1, ReachedIs, NilAndHeader
  <2> QED
    BY <2>1, <2>2, <1>1, <1>3 DEF PlacesType, FreeingAt
<1>7. ASSUME FreeAllBegin
      PROVE  PlacesType' /\ FreeingAt'
  <2>1. /\ freeing' = [from |-> 1, to |-> KEY_MAX, element |-> next[0][Header]]
        /\ iter' = iter
    BY <1>7 DEF FreeAllBegin
  <2>2. next[0][Header] \in Keys \cup {Nil} /\ KEY_MAX \in Int
    BY <1>4, NilAndHeader
  <2>3. next[0][Header] = First(Held)
    <3>1. /\ IsAfter(Tall(0), Header, next[0][Header])
          /\ next[0][Header] \in Tall(0) \cup {Nil}
      BY <1>1, LinksAre
    <3> QED
      BY <3>1, <1>1, TallAre, FirstIsAfter DEF Good
  <2>4. {k \in Held : k >= 1} = Held
    <3>1. \A k \in Held : k >= 1
      BY <1>1, NilAndHeader
    <3> QED
      BY <3>1
  <2>5. freeing'.from = 1 /\ freeing'.element = next[0][Header]
    BY <2>1
  <2>6. PlacesType'
    BY <2>1, <2>2, <1>1 DEF PlacesType
  <2>7. FreeingAt'
    BY <2>3, <2>4, <2>5, <1>3 DEF FreeingAt
  <2> QED
    BY <2>6, <2>7
<1>8. ASSUME FreeRangeEnd
      PROVE  PlacesType' /\ FreeingAt'
  <2>1. freeing' = Idle /\ iter' = iter
    BY <1>8 DEF FreeRangeEnd
  <2>2. Idle \in [from : Int, to : Int, element : Keys \cup {Nil}]
    BY DEF Idle
  <2>3. PlacesType'
    BY <2>1, <2>2, <1>1 DEF PlacesType
  <2>4. FreeingAt'
    BY <2>1 DEF FreeingAt
  <2> QED
    BY <2>3, <2>4
<1>9. ASSUME Reset \/ Step \/ \E k \in Keys : SearchAndSet(k) \/ GetNthKey(k)
      PROVE  PlacesType' /\ FreeingAt'
  <2>1. freeing' = freeing /\ freeing = Idle
    BY <1>9 DEF Reset, Step, SearchAndSet, GetNthKey
  <2>2. iter' \in Elements \cup {Nil, Freed}
    <3>1. CASE Reset
      BY <3>1, <1>4, <1>5, NilAndHeader DEF Reset
    <3>2. CASE Step
      BY <3>2, <1>4, <1>5 DEF Step
    <3>3. ASSUME NEW k \in Keys, SearchAndSet(k)
          PROVE  iter' \in Elements \cup {Nil, Freed}
      BY <3>3, <1>1, NilAndHeader DEF SearchAndSet, PlacesType
    <3>4. ASSUME NEW k \in Keys, GetNthKey(k)
          PROVE  iter' \in Elements \cup {Nil, Freed}
      <4>1. k \in Int /\ 1 <= k /\ Max({k, 1}) = k
        <5>1. k \in Int /\ 1 <= k
          BY NilAndHeader
        <5>2. Max({k, 1}) \in {k, 1} /\ k <= Max({k, 1})
          BY <5>1, MaxOfTwo
        <5> QED
          BY <5>1, <5>2
      <4>2. ~(k > Len(Chain(0))) => Chain(0)[k] \in Held
        <5>1. Len(Chain(0)) \in Nat
              /\ \A n \in 1 .. Len(Chain(0)) : Chain(0)[n] \in Held
          BY <1>1, ChainOfHeld
        <5> HIDE DEF Chain
        <5> QED
          BY <5>1, <4>1
      <4>3. iter' = IF k > Len(Chain(0)) THEN Nil ELSE Chain(0)[k]
        BY <3>4, <4>1 DEF GetNthKey
      <4> HIDE DEF Chain
      <4> QED
        BY <4>2, <4>3, <1>1, <1>5
    <3> QED
      BY <3>1, <3>2, <3>3, <3>4, <1>9
  <2>3. PlacesType'
    BY <2>1, <2>2, <1>1 DEF PlacesType
  <2>4. FreeingAt'
    BY <2>1 DEF FreeingAt
  <2> QED
    BY <2>3, <2>4
<1>10. PlacesType' /\ FreeingAt'
  <2>1. CASE \E lo, hi \in Keys : FreeRangeBegin(lo, hi)
    BY <2>1, <1>6
  <2>2. CASE FreeAllBegin \/ FreeRangeEnd
    BY <2>2, <1>7, <1>8
  <2>3. CASE Reset \/ Step \/ \E k \in Keys : SearchAndSet(k) \/ GetNthKey(k)
    BY <2>3, <1>9
  <2> QED
    BY <2>1, <2>2, <2>3 DEF Moves
<1>11. IInv'
  BY <1>3, <1>10, InvIsParts, PTL
<1> QED
  BY <1>2, <1>3, <1>11

LEMMA NextIs ==
  ASSUME Next
  PROVE  \/ \E k \in Keys, v \in Values : Insert(k, v)
         \/ \E k \in Keys : Free(k)
         \/ FreeRangeTurn
         \/ Moves
BY DEF Next, Moves

LEMMA NextKeeps == IInv /\ [Next]_vars => IInv'
<1> SUFFICES ASSUME IInv, [Next]_vars PROVE IInv'
  OBVIOUS
<1>1. CASE UNCHANGED vars
  <2>1. \A i \in Levels : Tall(i)' = Tall(i)
    BY <1>1 DEF Tall, Held, vars
  <2> QED
    BY <1>1, <2>1 DEF IInv, TypeOK, Linked, Links, HeaderIsTallest, LengthIsHeld,
                      FreeingAt, Held, vars
<1>2. CASE Next
  BY <1>2, NextIs, InsertKeeps, FreeKeeps, TurnKeeps, MovesKeep
<1> QED
  BY <1>1, <1>2

THEOREM Invariance == Spec => []IInv
<1> QED
  BY InitKeeps, NextKeeps, PTL DEF Spec

-----------------------------------------------------------------------------
(***************************************************************************)
(* The invariants the runs check.                                          *)
(***************************************************************************)
LEMMA ContentsAre ==
  ASSUME IInv
  PROVE  /\ ToSet(Chain(0)) = Held /\ DOMAIN Contents = Held
         /\ Contents = [k \in Held |-> value[k]]
         /\ \A k \in Held : Contents[k] = value[k]
<1>1. ToSet(Chain(0)) = Held
  BY InvIsParts, ChainOfHeld DEF Lists
<1> HIDE DEF Chain
<1> QED
  BY <1>1 DEF Contents

LEMMA HeaderLevelIsMax ==
  ASSUME IInv
  PROVE  level[Header] = Max({level[k] : k \in Held} \cup {0})
<1> DEFINE L == {level[k] : k \in Held} \cup {0}
<1>1. /\ \A k \in Held : level[k] \in Int /\ level[k] <= level[Header]
      /\ level[Header] \in Int /\ 0 <= level[Header]
      /\ level[Header] # 0 => \E k \in Held : level[k] = level[Header]
  BY LevelsAre, NilAndHeader, TallAre DEF IInv, HeaderIsTallest
<1>2. L \subseteq Int /\ level[Header] \in L /\ \A x \in L : level[Header] >= x
  BY <1>1
<1> HIDE DEF L
<1>3. Max(L) \in L /\ \A x \in L : Max(L) >= x
  BY <1>2 DEF Max
<1>4. Max(L) \in Int /\ Max(L) <= level[Header] /\ level[Header] <= Max(L)
  BY <1>2, <1>3
<1>5. Max(L) = level[Header]
  BY <1>1, <1>4
<1> QED
  BY <1>5 DEF L

LEMMA InvIsWellFormed == IInv => ListIsWellFormed
<1> SUFFICES ASSUME IInv PROVE ListIsWellFormed
  OBVIOUS
<1>1. Good
  BY InvIsParts
<1>2. ASSUME NEW i \in Levels
      PROVE  /\ ToSet(Chain(i)) = {k \in ToSet(Chain(0)) : level[k] >= i}
             /\ \A n \in 1 .. Len(Chain(i)) - 1 : Chain(i)[n] < Chain(i)[n + 1]
             /\ i > level[Header] => Chain(i) = << >>
  <2>1. Lists(Chain(i), Tall(i))
    BY <1>1, ChainLists
  <2>2. i > level[Header] => Tall(i) = {}
    BY <1>1, NothingAboveHeader
  <2>3. Tall(i) = {} => Len(Chain(i)) = 0 /\ Chain(i) \in Seq(Keys)
    BY <2>1, FS_EmptySet DEF Lists
  <2>4. i > level[Header] => Chain(i) = << >>
    <3> HIDE DEF Chain
    <3> QED
      BY <2>2, <2>3
  <2> HIDE DEF Chain
  <2> QED
    BY <2>1, <2>4, ContentsAre DEF Lists, Tall
<1>3. LevelsNested
  BY <1>2 DEF LevelsNested
<1>4. LengthIsCount
  <2>1. length = Len(Chain(0))
    BY <1>1, ChainOfHeld DEF IInv, LengthIsHeld, Lists
  <2> QED
    BY <2>1, HeaderLevelIsMax, ContentsAre DEF LengthIsCount, GetCount
<1>5. FreeRangeLookAhead
  BY ContentsAre DEF IInv, FreeingAt, FreeRangeLookAhead
<1> QED
  BY <1>3, <1>4, <1>5 DEF ListIsWellFormed, IInv

\* The links of every level are the elements tall enough for it, in order,
\* the count is right, and freeRange is never at a freed element
\* (SkipList.cpp, insert, free and freeRange), for all draws of the levels.
THEOREM ListIsWellFormedAlways == Spec => []ListIsWellFormed
<1> QED
  BY Invariance, InvIsWellFormed, PTL

LEMMA InvAnswers == IInv => SearchesAgree
<1> SUFFICES ASSUME IInv PROVE SearchesAgree
  OBVIOUS
<1>1. Good /\ Held \in SUBSET Keys /\ 0 \in Levels /\ Tall(0) = Held
  BY InvIsParts, TallAre, LevelsAre DEF IInv
<1> SUFFICES ASSUME NEW k \in 0 .. KEY_MAX
             PROVE  /\ WalkMAX(k) = FindMAX(Held, k)
                    /\ WalkMIN(k) = FindMIN(Held, k)
                    /\ Search(k) = IF k \in Held THEN value[k] ELSE NotFound
  <2>1. DOMAIN Contents = Held /\ \A k \in Held : Contents[k] = value[k]
    BY ContentsAre
  <2> QED
    BY <2>1 DEF SearchesAgree
<1>2. k \in Int /\ k + 1 \in Int /\ k # Nil
  BY NilAndHeader DEF Nil
<1>3. WalkMAX(k) = FindMAX(Held, k)
  <2> DEFINE d == Descent(k)[0]
  <2>1. d \in Held \cup {Header} /\ IsStop(Held, k, d)
    BY <1>1, <1>2, DescentStops
  <2>2. WalkMAX(k) = IF d = Header THEN KEY_MIN ELSE d
    BY DEF WalkMAX
  <2> DEFINE m == FindMAX(Held, k)
  <2>3. \/ m = KEY_MIN /\ \A x \in Held : k <= x
        \/ m \in Held /\ m < k /\ \A x \in Held : x < k => x <= m
    BY <1>1, <1>2, FindMAXResult
  <2>4. Held \subseteq Int /\ Header \notin Held
    BY <1>1, NilAndHeader
  <2> HIDE DEF d, m
  <2>5. CASE d = Header
    <3>1. \A x \in Held : x \in Int /\ ~(x < k)
      BY <2>1, <2>4, <2>5 DEF IsStop
    <3>2. m = KEY_MIN
      BY <3>1, <2>3
    <3> QED
      BY <3>2, <2>2, <2>5 DEF m
  <2>6. CASE d # Header
    <3>1. d \in Held /\ d < k /\ \A x \in Held : x < k => x <= d
      BY <2>1, <2>6 DEF IsStop
    <3>2. m \in Held /\ m < k /\ \A x \in Held : x < k => x <= m
      BY <2>3, <2>4, <3>1, <1>2
    <3>3. m \in Int /\ d \in Int /\ m <= d /\ d <= m
      BY <3>1, <3>2, <2>4
    <3>4. m = d
      BY <3>3
    <3> QED
      BY <2>2, <2>6, <3>4 DEF m
  <2> QED
    BY <2>5, <2>6 DEF m
<1>4. WalkMIN(k) = FindMIN(Held, k)
  <2> DEFINE r == Reached(k + 1)
             left == {x \in Held : x >= k + 1}
             m == FindMIN(Held, k)
  <2>1. WalkMIN(k) = IF r = Nil THEN KEY_MAX ELSE IF r = KEY_MAX THEN KEY_MIN ELSE r
    BY DEF WalkMIN, Reached
  <2>2. r = First(left) /\ left \in SUBSET Keys
    BY <1>1, <1>2, ReachedIs
  <2>3. /\ \A x \in Held : x \in Int /\ x <= KEY_MAX /\ (x \in left <=> k < x)
        /\ KEY_MAX \in Int /\ Nil \notin Held
    BY <1>1, <1>2, NilAndHeader
  <2>4. \/ m = KEY_MAX /\ \A x \in Held : x <= k
        \/ /\ m = KEY_MIN /\ KEY_MAX \in Held /\ k < KEY_MAX
           /\ \A x \in Held : x <= k \/ x = KEY_MAX
        \/ /\ m \in Held /\ k < m /\ m < KEY_MAX
           /\ \A x \in Held : k < x => m <= x
    BY <1>1, <1>2, FindMINResult
  <2>5. \A x \in left : x \in Held
    OBVIOUS
  <2> HIDE DEF r, left, m
  <2>6. \/ r = Nil /\ left = {}
        \/ r \in left /\ \A x \in left : r <= x
    BY <2>2, FirstResult
  <2>7. CASE left = {}
    <3>1. \A x \in Held : ~(k < x)
      BY <2>3, <2>7
    <3>2. m = KEY_MAX
      BY <2>3, <2>4, <3>1, <1>2
    <3> QED
      BY <3>2, <2>1, <2>6, <2>7 DEF m
  <2>8. CASE left # {}
    <3>1. r \in Held /\ r # Nil /\ k < r /\ \A x \in Held : k < x => r <= x
      BY <2>3, <2>5, <2>6, <2>8
    <3>2. r \in Int /\ r <= KEY_MAX
      BY <3>1, <2>3
    <3>3. CASE r = KEY_MAX
      <4>2. ~(\A x \in Held : x <= k)
        BY <2>3, <3>1, <1>2
      <4>3. ~(m \in Held /\ k < m /\ m < KEY_MAX)
        <5> SUFFICES ASSUME m \in Held, k < m, m < KEY_MAX PROVE FALSE
          OBVIOUS
        <5>1. r <= m /\ m \in Int
          BY <2>3, <3>1
        <5> QED
          BY <2>3, <3>3, <5>1
      <4>1. m = KEY_MIN
        BY <2>4, <4>2, <4>3
      <4> QED
        BY <2>1, <3>1, <3>3, <4>1 DEF m
    <3>4. CASE r # KEY_MAX
      <4>1. m \in Held /\ k < m /\ \A x \in Held : k < x => m <= x
        BY <2>3, <2>4, <3>1, <3>2, <3>4, <1>2
      <4>2. m \in Int /\ m <= r /\ r <= m
        BY <2>3, <3>1, <4>1
      <4>3. m = r
        BY <3>2, <4>2
      <4> QED
        BY <2>1, <3>1, <3>4, <4>3 DEF m
    <3> QED
      BY <3>3, <3>4
  <2> QED
    BY <2>7, <2>8
<1>5. Search(k) = IF k \in Held THEN value[k] ELSE NotFound
  BY <1>1, <1>2, ReachedIs DEF Search
<1> QED
  BY <1>3, <1>4, <1>5

\* findMAX, findMIN and search answer what the set of keys determines,
\* wherever the descent through the levels leads (SkipList.cpp:127-259).
THEOREM SearchesAgreeAlways == Spec => []SearchesAgree
<1> QED
  BY Invariance, InvAnswers, PTL

-----------------------------------------------------------------------------
(***************************************************************************)
(* The list as a map.                                                      *)
(***************************************************************************)
ContentsAreHeld == Contents = [k \in Held |-> value[k]]

LEMMA ContentsBefore == IInv => ContentsAreHeld
BY ContentsAre DEF ContentsAreHeld

LEMMA ContentsAfter ==
  ASSUME IInv'
  PROVE  Contents' = [k \in Held' |-> value'[k]]
<1>1. ContentsAreHeld'
  BY ContentsBefore, PTL
<1> QED
  BY <1>1 DEF ContentsAreHeld

LEMMA InsertPuts ==
  ASSUME IInv, NEW k \in Keys, NEW v \in Values, Insert(k, v)
  PROVE  Map!Put(k, v)
<1>1. /\ IInv' /\ Held' = Held \cup {k} /\ Held \in SUBSET Keys
      /\ value'[k] = v /\ \A x \in Keys : x # k => value'[x] = value[x]
  BY InsertKeeps, TallAre DEF IInv
<1>2. Contents' = [x \in Held \cup {k} |-> value'[x]]
  BY <1>1, ContentsAfter
<1>3. DOMAIN Contents = Held /\ \A x \in Held : Contents[x] = value[x]
  BY ContentsAre
<1> HIDE DEF Contents
<1> QED
  BY <1>1, <1>2, <1>3 DEF Map!Put

LEMMA LossRemoves ==
  ASSUME IInv, IInv', NEW k, Held' = Held \ {k},
         \A x \in Keys : x # k => value'[x] = value[x]
  PROVE  Map!Remove(k)
<1>1. Held \in SUBSET Keys
  BY TallAre DEF IInv
<1>2. Contents' = [x \in Held \ {k} |-> value'[x]]
  BY ContentsAfter
<1>3. DOMAIN Contents = Held /\ \A x \in Held : Contents[x] = value[x]
  BY ContentsAre
<1> HIDE DEF Contents
<1> QED
  BY <1>1, <1>2, <1>3 DEF Map!Remove

LEMMA KeptContents ==
  ASSUME IInv, IInv', Held' = Held, value' = value
  PROVE  Contents' = Contents
BY ContentsAre, ContentsAfter

\* What one step does to the map.
Promise ==
  /\ \A k \in Keys, v \in Values : Insert(k, v) => Map!Put(k, v)
  /\ \A k \in Keys : Free(k) => Map!Remove(k)
  /\ Contents' # Contents /\ freeing # Idle =>
       \E k \in freeing.from .. freeing.to : Map!Remove(k)

LEMMA StepKeepsPromise == IInv /\ [Next]_vars => [Promise]_vars
<1> SUFFICES ASSUME IInv, Next PROVE Promise
  OBVIOUS
<1>1. \A k \in Keys, v \in Values : Insert(k, v) => Map!Put(k, v)
  BY InsertPuts
<1>2. \A k \in Keys : Free(k) => Map!Remove(k)
  BY FreeKeeps, LossRemoves
<1>3. ASSUME Contents' # Contents, freeing # Idle
      PROVE  \E k \in freeing.from .. freeing.to : Map!Remove(k)
  <2>1. FreeRangeTurn
    <3>1. ~Moves
      BY <1>3, MovesKeep, KeptContents
    <3>2. \A k \in Keys : ~Free(k) /\ \A v \in Values : ~Insert(k, v)
      BY <1>3 DEF Free, Insert
    <3> QED
      BY <3>1, <3>2, NextIs
  <2>2. Map!Remove(freeing.element)
    BY <2>1, TurnKeeps, LossRemoves
  <2>3. freeing.element \in freeing.from .. freeing.to
    <3>1. /\ freeing.element \in Int /\ freeing.from \in Int /\ freeing.to \in Int
          /\ freeing.from <= freeing.element /\ freeing.element <= freeing.to
      BY <2>1, TurnKeeps, TallAre, NilAndHeader DEF IInv, TypeOK
    <3> QED
      BY <3>1
  <2> QED
    BY <2>2, <2>3
<1> QED
  BY <1>1, <1>2, <1>3 DEF Promise

\* insert and free change the one key they were given, freeRange's turns
\* only keys inside the range, and nothing else changes the map.
THEOREM CallsKeepTheirPromiseAlways == Spec => CallsKeepTheirPromise
<1> QED
  BY Invariance, StepKeepsPromise, PTL DEF Spec, CallsKeepTheirPromise, Promise

LEMMA InitIsMapped == Init => Map!Init
<1> SUFFICES ASSUME Init PROVE Map!Init
  OBVIOUS
<1>1. Held = {}
  BY NilAndHeader DEF Held, Init
<1>2. Contents = [k \in {} |-> value[k]]
  BY <1>1, InitKeeps, ContentsAre
<1> HIDE DEF Contents
<1> QED
  BY <1>2 DEF Map!Init

LEMMA StepIsMapped == IInv /\ [Next]_vars => [Map!Next]_Contents
<1> SUFFICES ASSUME IInv, [Next]_vars
             PROVE  Map!Next \/ Contents' = Contents
  OBVIOUS
<1>0. IInv' /\ Map!Keys = Keys
  BY NextKeeps DEF Map!Keys, Keys
<1>1. CASE UNCHANGED vars
  <2>1. Held' = Held /\ value' = value
    BY <1>1 DEF Held, vars
  <2> QED
    BY <2>1, <1>0, KeptContents
<1>2. ASSUME NEW k \in Keys, NEW v \in Values, Insert(k, v)
      PROVE  Map!Next
  BY <1>0, <1>2, InsertPuts DEF Map!Next
<1>3. ASSUME NEW k \in Keys, Free(k)
      PROVE  Map!Next
  <2>1. Map!Remove(k)
    BY <1>0, <1>3, FreeKeeps, LossRemoves
  <2> QED
    BY <2>1, <1>0 DEF Map!Next
<1>4. CASE FreeRangeTurn
  <2>1. Map!Remove(freeing.element) /\ freeing.element \in Keys
    BY <1>4, TurnKeeps, LossRemoves, TallAre DEF IInv
  <2> QED
    BY <2>1, <1>0 DEF Map!Next
<1>5. CASE Moves
  BY <1>0, <1>5, MovesKeep, KeptContents
<1> QED
  BY <1>1, <1>2, <1>3, <1>4, <1>5, NextIs

\* The linked levels implement the abstract map (OrderedMap): what a client
\* sees of insert, free, freeRange and freeAll is a map changed key by key.
THEOREM Implementation == Spec => ImplementsMap
<1>1. Spec => Init /\ [][Next]_vars /\ []IInv
  BY Invariance DEF Spec
<1>2. Init => Map!Init
  BY InitIsMapped
<1>3. IInv /\ [Next]_vars => [Map!Next]_Contents
  BY StepIsMapped
<1> QED
  BY <1>1, <1>2, <1>3, PTL DEF ImplementsMap, Map!Spec
=============================================================================
