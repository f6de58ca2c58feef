---------------------------- MODULE OrderedKeys ----------------------------
(***************************************************************************)
(* What a SkipList promises about the keys it holds, stated on a plain set *)
(* of keys.  Module SkipList shows that the linked levels of               *)
(* src/src/SkipList.cpp keep these promises; HtmRange, whose two lists use *)
(* only the keys, is built on the promises alone.                          *)
(*                                                                         *)
(* SkipList.h:23 presumes positive keys.  A list can hold KEY_MAX too: it  *)
(* is the terminator of the last trixel of the sphere.  But the header     *)
(* element carries that key as well, and findMAX and findMIN take a key    *)
(* KEY_MAX for the header's.                                               *)
(***************************************************************************)
EXTENDS Integers, FiniteSetsExt

CONSTANT KEY_MAX   \* LLONG_MAX in the program

ASSUME KeyMaxAssumption == KEY_MAX \in Nat /\ KEY_MAX > 1

KEY_MIN == -KEY_MAX

Keys == 1 .. KEY_MAX

\* Right-justified ids, an HtmRange's keys, stay below KEY_MAX.
Ids == 1 .. KEY_MAX - 1

(***************************************************************************)
(* The positions an iterator can be in: at an element, named by its key,   *)
(* at the header before the first reset, at the end of the list, where     *)
(* getkey() answers -1, or at an address whose element has been deleted.   *)
(***************************************************************************)
Header == KEY_MAX + 1
Nil    == -1
Freed  == -2

\* The greatest key below k, or KEY_MIN.  No key below another one is KEY_MAX.
FindMAX(S, k) ==
  LET below == {x \in S : x < k}
  IN  IF below = {} THEN KEY_MIN ELSE Max(below)

\* The smallest key above k, or KEY_MAX; but KEY_MIN when that key is KEY_MAX.
FindMIN(S, k) ==
  LET above == {x \in S : x > k}
  IN  IF above = {} THEN KEY_MAX
      ELSE IF Min(above) = KEY_MAX THEN KEY_MIN ELSE Min(above)

\* The keys freeRange(lo, hi) leaves: it frees both ends too.
FreeRange(S, lo, hi) == {x \in S : x < lo \/ hi < x}

\* The first key, and the key after position e, as the iterator sees them.
First(S) == IF S = {} THEN Nil ELSE Min(S)

After(S, e) ==
  IF e = Header THEN First(S) ELSE First({x \in S : x > e})
=============================================================================
