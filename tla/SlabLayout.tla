----------------------------- MODULE SlabLayout -----------------------------
(***************************************************************************)
(* initMemcached: how the host divides the memory of the device into the   *)
(* hash table and three slabs of values, from three value sizes and four   *)
(* addresses.  The lines are those of Test_Bluecache_Flash.                *)
(***************************************************************************)
EXTENDS Integers

VARIABLE slabs  (* what the device was told: {} or one layout *)

(* C's integer division. *)
Quotient(a, b) == IF a >= 0 THEN a \div b ELSE - ((- a) \div b)

Lg[x \in Nat \ {0}] == CHOOSE k \in 0 .. 30 : x \div 2 ^ k = 1

(* 1 << (int)log2(x).  For x <= 0 the conversion and the shift are         *)
(* undefined; x86 converts to the smallest integer and shifts by 0.        *)
PowerBelow[x \in Int] == IF x <= 0 THEN 1 ELSE 2 ^ Lg[x]

LgAbove(size) == IF 2 ^ Lg[size] < size THEN Lg[size] + 1 ELSE Lg[size]

(* Mutant: the number of slots is rounded up. *)
SlotsUp(from, to, size) == 2 * PowerBelow[Quotient(to - from, size)]

(* A slab of slots of this size from one address on: a power of two of     *)
(* them, as many as fit before the next address, but at least one.         *)
Slots(from, to, size) == PowerBelow[Quotient(to - from, size)]

Layout(size1, size2, size3, addr0, addr1, addr2, addr3) ==
  LET lgHLines == Lg[addr0 \div 64]
      base  == 2 ^ lgHLines * 64 + 2 * 2 ^ 20
      lgSz1 == LgAbove(size1)
      lgSz2 == IF LgAbove(size2) <= lgSz1 THEN lgSz1 + 1 ELSE LgAbove(size2)
      lgSz3 == IF LgAbove(size3) <= lgSz2 THEN lgSz2 + 1 ELSE LgAbove(size3)
      n1    == Slots(base, addr1, 2 ^ lgSz1)
      end1  == base + n1 * 2 ^ lgSz1
      n2    == Slots(end1, addr2, 2 ^ lgSz2)
      end2  == end1 + n2 * 2 ^ lgSz2
      n3    == Slots(end2, addr3, 2 ^ lgSz3)
  IN  [ lgHLines |-> lgHLines, base |-> base,
        randMax |-> << n1 - 1, n2 - 1, n3 - 1 >>,
        lgSz    |-> << lgSz1, lgSz2, lgSz3 >>,
        offset  |-> << 0, end1 - base, end2 - base >>,
        need    |-> << size1, size2, size3 >>,
        limit   |-> << addr1, addr2, addr3 >> ]

-----------------------------------------------------------------------------
(* The end of slab i, behind the slot of the highest index.  *)
SlabEnd(s, i) == s.base + s.offset[i] + (s.randMax[i] + 1) * 2 ^ s.lgSz[i]

(* The hash table lies below the slabs, no slab reaches into the next, a   *)
(* slot holds a value of the size asked for and slots grow from slab to    *)
(* slab, so that a value belongs to one slab; a slab passes the address    *)
(* given for its end only if not even one slot fits before it, and the     *)
(* last one does not.                                                      *)
SlabsInMemory ==
  \A s \in slabs :
    /\ 2 ^ s.lgHLines * 64 <= s.base
    /\ \A i \in 1 .. 3 :
         /\ 2 ^ s.lgSz[i] >= s.need[i]
         /\ SlabEnd(s, i) <= s.limit[i] \/ (i < 3 /\ s.randMax[i] = 0)
    /\ \A i \in 1 .. 2 :
         /\ s.lgSz[i] < s.lgSz[i + 1]
         /\ SlabEnd(s, i) <= s.base + s.offset[i + 1]
=============================================================================
