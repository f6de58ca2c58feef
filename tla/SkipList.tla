------------------------------ MODULE SkipList ------------------------------
(***************************************************************************)
(* The skip list of src/src/SkipList.cpp and SkipListElement.cpp: elements *)
(* with one link per level, a header element whose level is the highest    *)
(* level in use, an iterator shared by every client, and freeRange's loop. *)
(*                                                                         *)
(* Elements are named by their keys, which a list holds at most once.  An  *)
(* element that is not in the list has level 0, no links and no value.     *)
(* The level of a new element is drawn at random (getNewLevel), here by a  *)
(* nondeterministic choice.                                                *)
(***************************************************************************)
EXTENDS OrderedKeys, SequencesExt

CONSTANTS MaxLevel,   \* SKIPLIST_MAXLEVEL
          Values      \* what a client may store; NotFound is none of them

NotFound == -1        \* SKIPLIST_NOT_FOUND

ASSUME SkipListAssumption ==
  /\ MaxLevel \in Nat \ {0}
  /\ Values \subseteq Nat

Levels   == 0 .. MaxLevel - 1
Elements == Keys \cup {Header}

VARIABLES
  level,    \* myLevel of every element
  next,     \* next[i][e]: myNext[i] of element e
  value,    \* myValue of every element
  length,   \* myLength
  iter,     \* the iterator
  freeing   \* freeRange's locals, or Idle

vars == <<level, next, value, length, iter, freeing>>

Idle == [from |-> 0, to |-> 0, element |-> Nil]

TypeOK ==
  /\ level \in [Elements -> Levels]
  /\ next \in [Levels -> [Elements -> Keys \cup {Nil}]]
  /\ value \in [Keys -> Values \cup {NotFound}]
  /\ length \in Nat
  /\ iter \in Elements \cup {Nil, Freed}
  /\ freeing \in [from : Int, to : Int, element : Keys \cup {Nil}]

Init ==
  /\ level = [e \in Elements |-> 0]
  /\ next = [i \in Levels |-> [e \in Elements |-> Nil]]
  /\ value = [k \in Keys |-> NotFound]
  /\ length = 0
  /\ iter = Header
  /\ freeing = Idle

-----------------------------------------------------------------------------
(***************************************************************************)
(* Walking the levels.  getElement answers the element itself when asked   *)
(* for a level the element does not have.                                  *)
(***************************************************************************)
GetElement(e, i) == IF i > level[e] THEN e ELSE next[i][e]

\* The last element of level i, from e on, whose successor is not below k.
Advance(e, i, k) ==
  LET walk[x \in Elements] ==
        LET n == GetElement(x, i)
        IN  IF n # Nil /\ n < k THEN walk[n] ELSE x
  IN  walk[e]

\* Where the descent through the levels stops on each of them.
Descent(k) ==
  LET stop[i \in 0 .. MaxLevel] ==
        IF i > level[Header] THEN Header ELSE Advance(stop[i + 1], i, k)
  IN  stop

\* The element at which a search for k ends: the first whose key is not < k.
Reached(k) == GetElement(Descent(k)[0], 0)

Search(k) ==
  IF Reached(k) = k THEN value[k] ELSE NotFound

WalkMAX(k) ==
  LET element == Descent(k)[0]
  IN  IF element = Header THEN KEY_MIN ELSE element

\* Slip: stop at k itself instead of passing it.
Slip_WalkMIN(k) ==
  IF Reached(k) = Nil THEN KEY_MAX
  ELSE IF Reached(k) = KEY_MAX THEN KEY_MIN ELSE Reached(k)

WalkMIN(k) ==
  LET element == GetElement(Descent(k + 1)[0], 0)   \* passes keys <= k
  IN  IF element = Nil THEN KEY_MAX
      ELSE IF element = KEY_MAX THEN KEY_MIN ELSE element

\* The elements of level i in the order of the links.
Chain(i) ==
  LET from[e \in Elements \cup {Nil}] ==
        IF e = Nil THEN << >> ELSE <<e>> \o from[next[i][e]]
  IN  from[next[i][Header]]

GetCount == Len(Chain(0))

-----------------------------------------------------------------------------
(***************************************************************************)
(* insert: overwrite the value of a key the list holds, or link a new      *)
(* element behind the stops of the descent, raising the header first.      *)
(***************************************************************************)
Overwrite(k, v) ==
  /\ Reached(k) = k
  /\ value' = [value EXCEPT ![k] = v]
  /\ UNCHANGED <<level, next, length>>

\* getNewLevel stays below its maxLevel.
NewLevels == Levels

\* Slip: the new element is hooked in without taking over the old successor.
Slip_Link(k, v, newLevel) ==
  /\ Reached(k) # k
  /\ level' = [level EXCEPT ![k] = newLevel,
                            ![Header] = Max({@, newLevel})]
  /\ next' = [i \in Levels |->
                IF i <= newLevel
                THEN [next[i] EXCEPT ![Descent(k)[i]] = k]
                ELSE next[i]]
  /\ value' = [value EXCEPT ![k] = v]
  /\ length' = length + 1

Link(k, v, newLevel) ==
  LET update == Descent(k)
  IN  /\ Reached(k) # k
      /\ level' = [level EXCEPT ![k] = newLevel,
                                ![Header] = Max({@, newLevel})]
      /\ next' = [i \in Levels |->
                    IF i <= newLevel
                    THEN [next[i] EXCEPT ![k] = next[i][update[i]],
                                         ![update[i]] = k]
                    ELSE next[i]]
      /\ value' = [value EXCEPT ![k] = v]
      /\ length' = length + 1

Insert(k, v) ==
  /\ freeing = Idle
  /\ \/ Overwrite(k, v)
     \/ \E newLevel \in NewLevels : Link(k, v, newLevel)
  /\ UNCHANGED <<iter, freeing>>

(***************************************************************************)
(* free: unlink the element on every level on which a stop of the descent  *)
(* points at it, delete it, and lower the header past its empty levels.    *)
(* An iterator on the element is left with its address.                    *)
(***************************************************************************)
\* Slip: only the lowest level is unlinked.
Slip_UnlinkLowest(k) ==
  /\ next' = [next EXCEPT ![0][Descent(k)[0]] = next[0][k], ![0][k] = Nil]
  /\ value' = [value EXCEPT ![k] = NotFound]
  /\ length' = length - 1
  /\ iter' = IF iter = k THEN Freed ELSE iter
  /\ UNCHANGED level

Unlink(k) ==
  LET update == Descent(k)
      links == [i \in Levels |->
                  IF i <= level[Header] /\ next[i][update[i]] = k
                  THEN [next[i] EXCEPT ![update[i]] = next[i][k], ![k] = Nil]
                  ELSE next[i]]
      used == {i \in 1 .. level[Header] : links[i][Header] # Nil}
  IN  /\ next' = links
      /\ level' = [level EXCEPT ![k] = 0, ![Header] = Max(used \cup {0})]
      /\ value' = [value EXCEPT ![k] = NotFound]
      /\ length' = length - 1
      /\ iter' = IF iter = k THEN Freed ELSE iter

\* Slip: free whatever the search ended at.
Slip_FreeReached(k) ==
  IF Reached(k) # Nil THEN Unlink(Reached(k))
  ELSE UNCHANGED <<level, next, value, length, iter>>

FreeBody(k) ==
  IF Reached(k) = k THEN Unlink(k)
  ELSE UNCHANGED <<level, next, value, length, iter>>

Free(k) ==
  /\ freeing = Idle
  /\ FreeBody(k)
  /\ UNCHANGED freeing

(***************************************************************************)
(* freeRange and freeAll: walk level 0, taking the successor of each       *)
(* element before freeing it.  One action per turn of the loop.            *)
(***************************************************************************)
FreeRangeBegin(lo, hi) ==
  /\ freeing = Idle
  /\ freeing' = [from |-> lo, to |-> hi, element |-> Reached(lo)]
  /\ UNCHANGED <<level, next, value, length, iter>>

FreeAllBegin ==
  /\ freeing = Idle
  /\ freeing' = [from |-> 1, to |-> KEY_MAX, element |-> next[0][Header]]
  /\ UNCHANGED <<level, next, value, length, iter>>

Slip_TurnStays ==
  /\ freeing # Idle
  /\ freeing.element # Nil
  /\ freeing.element <= freeing.to
  /\ FreeBody(freeing.element)
  /\ UNCHANGED freeing

FreeRangeTurn ==
  /\ freeing # Idle
  /\ freeing.element # Nil
  /\ freeing.element <= freeing.to
  /\ FreeBody(freeing.element)
  /\ freeing' = [freeing EXCEPT !.element = next[0][freeing.element]]

FreeRangeEnd ==
  /\ freeing # Idle
  /\ freeing.element = Nil \/ freeing.element > freeing.to
  /\ freeing' = Idle
  /\ UNCHANGED <<level, next, value, length, iter>>

-----------------------------------------------------------------------------
(***************************************************************************)
(* The iterator.  step dereferences it, so a client may only step an       *)
(* iterator that is on a live element.                                     *)
(***************************************************************************)
Reset ==
  /\ freeing = Idle
  /\ iter' = next[0][Header]
  /\ UNCHANGED <<level, next, value, length, freeing>>

Step ==
  /\ freeing = Idle
  /\ iter \in Elements
  /\ iter' = next[0][iter]
  /\ UNCHANGED <<level, next, value, length, freeing>>

\* search(k, 1): the iterator moves only when the key is found.
SearchAndSet(k) ==
  /\ freeing = Idle
  /\ iter' = IF Reached(k) = k THEN k ELSE iter
  /\ UNCHANGED <<level, next, value, length, freeing>>

\* getNthKey leaves the iterator on the nth element, or at the end.
GetNthKey(n) ==
  /\ freeing = Idle
  /\ iter' = IF n > Len(Chain(0)) THEN Nil ELSE Chain(0)[Max({n, 1})]
  /\ UNCHANGED <<level, next, value, length, freeing>>

Next ==
  \/ \E k \in Keys :
        \/ \E v \in Values : Insert(k, v)
        \/ Free(k)
        \/ SearchAndSet(k)
        \/ GetNthKey(k)
  \/ \E lo, hi \in Keys : FreeRangeBegin(lo, hi)
  \/ FreeAllBegin
  \/ FreeRangeTurn
  \/ FreeRangeEnd
  \/ Reset
  \/ Step

\* A loop that has begun is not interrupted; clients owe no further call.
Fairness == WF_vars(FreeRangeTurn) /\ WF_vars(FreeRangeEnd)

Spec == Init /\ [][Next]_vars /\ Fairness

-----------------------------------------------------------------------------
(***************************************************************************)
(* Properties.                                                             *)
(***************************************************************************)

\* The map a list stands for: the keys its lowest level links, with values.
Contents == [k \in ToSet(Chain(0)) |-> value[k]]

\* Every level links exactly the elements tall enough for it, in ascending
\* order, and no link of an element is above its level, so getElement and
\* setElement never take their error branch (SkipListElement.cpp:38, :50).
LevelsNested ==
  \A i \in Levels :
     /\ ToSet(Chain(i)) = {k \in ToSet(Chain(0)) : level[k] >= i}
     /\ \A n \in 1 .. Len(Chain(i)) - 1 : Chain(i)[n] < Chain(i)[n + 1]
     /\ i > level[Header] => Chain(i) = << >>

\* However the levels were drawn, the descents of search, findMAX and findMIN
\* (SkipList.cpp:127-259) answer what the set of keys alone determines, for a
\* list that holds the header's key KEY_MAX as well.
SearchesAgree ==
  \A k \in 0 .. KEY_MAX :
     /\ WalkMAX(k) = FindMAX(DOMAIN Contents, k)
     /\ WalkMIN(k) = FindMIN(DOMAIN Contents, k)
     /\ Search(k) = IF k \in DOMAIN Contents THEN Contents[k] ELSE NotFound

\* myLength, counted up and down by insert and free, and getCount's walk
\* agree, also between two turns of freeRange, and the header is no taller
\* than the tallest element (SkipList.cpp:402).
LengthIsCount ==
  /\ length = GetCount
  /\ level[Header] = Max({level[k] : k \in DOMAIN Contents} \cup {0})

\* freeRange's element is always the first key left of those it has to visit,
\* never a freed one (the look-ahead of SkipList.cpp:363), and every key
\* between the lower bound and it is gone.
FreeRangeLookAhead ==
  freeing # Idle =>
    LET left == {k \in DOMAIN Contents : k >= freeing.from}
    IN  freeing.element = First(left)

\* The links, the count and freeRange's place in them fit together after every step of every
\* call, for all draws of the levels.
ListIsWellFormed == TypeOK /\ LevelsNested /\ LengthIsCount /\ FreeRangeLookAhead

Map == INSTANCE OrderedMap WITH map <- Contents

\* insert and free change one key of the map and no other, the value given
\* and the key given; only they and freeRange's turns, and those only inside
\* the range, change the map at all.
CallsKeepTheirPromise ==
  [][/\ \A k \in Keys, v \in Values : Insert(k, v) => Map!Put(k, v)
     /\ \A k \in Keys : Free(k) => Map!Remove(k)
     /\ Contents' # Contents /\ freeing # Idle =>
          \E k \in freeing.from .. freeing.to : Map!Remove(k)]_vars

\* freeRange and freeAll always come to an end.
FreeRangeEnds == [](freeing # Idle => <>(freeing = Idle))

\* The linked levels implement the abstract map.
ImplementsMap == Map!Spec
=============================================================================
