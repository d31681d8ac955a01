--------------------------- MODULE UnitTotals_proofs ---------------------------
(***************************************************************************)
(* What Total does when a row joins or leaves the set, and that it depends  *)
(* on the quantities of its rows only.                                      *)
(***************************************************************************)
EXTENDS UnitTotals, FiniteSetTheorems, TLAPS

\* A single row has as many units as its quantity says.
LEMMA RowUnits ==
  ASSUME NEW r, NEW n \in Nat
  PROVE  IsFiniteSet({r} \X (1..n)) /\ Cardinality({r} \X (1..n)) = n
<1>1. IsFiniteSet({r}) /\ Cardinality({r}) = 1
  BY FS_Singleton
<1>2. IsFiniteSet(1..n) /\ Cardinality(1..n) = n
  BY FS_Interval
<1>3. /\ IsFiniteSet({r} \X (1..n))
      /\ Cardinality({r} \X (1..n)) = Cardinality({r}) * Cardinality(1..n)
  BY <1>1, <1>2, FS_Product, Zenon
<1>4. 1 * n = n
  OBVIOUS
<1> QED
  BY <1>1, <1>2, <1>3, <1>4

\* The total of a set with one more row, the units of the others being finite.
LEMMA AddUnits ==
  ASSUME NEW rows, NEW qty, NEW r, r \notin rows, qty[r] \in Nat,
         IsFiniteSet(UnitsOf(rows, qty))
  PROVE  /\ IsFiniteSet(UnitsOf(rows \cup {r}, qty))
         /\ Total(rows \cup {r}, qty) = Total(rows, qty) + qty[r]
<1> DEFINE old == UnitsOf(rows, qty)
           new == {r} \X (1..qty[r])
<1>1. UnitsOf(rows \cup {r}, qty) = old \cup new
  BY DEF UnitsOf
<1>2. old \cap new = {}
  BY DEF UnitsOf
<1>3. IsFiniteSet(new) /\ Cardinality(new) = qty[r]
  BY RowUnits
<1>4. Cardinality(old) \in Nat
  BY FS_CardinalityType
<1>5. Cardinality(old \cap new) = 0
  BY <1>2, FS_EmptySet
<1>6. IsFiniteSet(old \cup new)
      /\ Cardinality(old \cup new) = Cardinality(old) + Cardinality(new) - Cardinality(old \cap new)
  BY <1>3, FS_Union
<1>7. Cardinality(old \cup new) = Cardinality(old) + qty[r]
  BY <1>3, <1>4, <1>5, <1>6
<1> HIDE DEF old, new
<1>8. Total(rows, qty) = Cardinality(old)
  BY DEF Total, old
<1>9. Total(rows \cup {r}, qty) = Cardinality(old \cup new)
  BY <1>1 DEF Total
<1> QED
  BY <1>1, <1>6, <1>7, <1>8, <1>9

\* Bounded quantities of finitely many rows have finitely many units.
LEMMA FiniteUnits ==
  ASSUME NEW S, IsFiniteSet(S), NEW rows \in SUBSET S, NEW max \in Nat, NEW qty,
         \A r \in rows : qty[r] \in 1..max
  PROVE  IsFiniteSet(UnitsOf(rows, qty)) /\ Total(rows, qty) \in Nat
<1>1. IsFiniteSet(1..max)
  BY FS_Interval
<1>2. IsFiniteSet(S \X (1..max))
  BY <1>1, FS_Product
<1>3. UnitsOf(rows, qty) \in SUBSET (S \X (1..max))
  <2> SUFFICES ASSUME NEW r \in rows, NEW i \in 1..qty[r] PROVE i \in 1..max
    BY DEF UnitsOf
  <2>1. qty[r] \in Int /\ qty[r] <= max
    OBVIOUS
  <2> QED
    BY <2>1
<1>4. IsFiniteSet(UnitsOf(rows, qty))
  BY <1>2, <1>3, FS_Subset
<1> QED
  BY <1>4, FS_CardinalityType DEF Total

\* Equal quantities on the rows, equal totals.
LEMMA SameUnits ==
  ASSUME NEW rows, NEW q1, NEW q2, \A r \in rows : q1[r] = q2[r]
  PROVE  UnitsOf(rows, q1) = UnitsOf(rows, q2) /\ Total(rows, q1) = Total(rows, q2)
BY DEF UnitsOf, Total

\* Finitely many rows have finitely many units.
LEMMA NatUnits ==
  ASSUME NEW rows, IsFiniteSet(rows), NEW qty, \A r \in rows : qty[r] \in Nat
  PROVE  IsFiniteSet(UnitsOf(rows, qty)) /\ Total(rows, qty) \in Nat
<1> DEFINE unit == [r \in rows |-> {r} \X (1..qty[r])]
           units == {{r} \X (1..qty[r]) : r \in rows}
<1>1. unit \in Surjection(rows, units)
  BY DEF Surjection
<1>2. IsFiniteSet(units)
  BY <1>1, FS_Surjection DEF ExistsSurjection
<1>3. \A T \in units : IsFiniteSet(T)
  <2> SUFFICES ASSUME NEW r \in rows PROVE IsFiniteSet({r} \X (1..qty[r]))
    OBVIOUS
  <2>1. qty[r] \in Nat
    OBVIOUS
  <2> QED
    BY <2>1, RowUnits
<1> HIDE DEF units
<1>4. IsFiniteSet(UNION units)
  BY <1>2, <1>3, FS_UNION
<1>5. UNION units = UnitsOf(rows, qty)
  BY DEF units, UnitsOf
<1> QED
  BY <1>4, <1>5, FS_CardinalityType DEF Total

\* No rows, no units.
LEMMA NoUnits == \A qty : Total({}, qty) = 0
BY FS_EmptySet DEF Total, UnitsOf

\* A row's quantity is part of the total.
LEMMA RowWithin ==
  ASSUME NEW rows, IsFiniteSet(rows), NEW qty, \A r \in rows : qty[r] \in Nat, NEW x \in rows
  PROVE  qty[x] <= Total(rows, qty)
<1> DEFINE others == rows \ {x}
<1>1. IsFiniteSet(others) /\ rows = others \cup {x} /\ x \notin others
  BY FS_RemoveElement
<1>2. IsFiniteSet(UnitsOf(others, qty)) /\ Total(others, qty) \in Nat
  BY <1>1, NatUnits
<1> HIDE DEF others
<1>3. Total(others \cup {x}, qty) = Total(others, qty) + qty[x]
  BY <1>1, <1>2, AddUnits
<1> QED
  BY <1>1, <1>2, <1>3

-----------------------------------------------------------------------------
(* Sums of quantities of either sign *)

Clipped(rows, qty) == [r \in rows |-> IF qty[r] > 0 THEN qty[r] ELSE 0]

\* A negative quantity has no units.
LEMMA ClippedUnits ==
  ASSUME NEW rows, NEW qty, \A r \in rows : qty[r] \in Int
  PROVE  /\ UnitsOf(rows, qty) = UnitsOf(rows, Clipped(rows, qty))
         /\ Total(rows, qty) = Total(rows, Clipped(rows, qty))
<1>1. \A r \in rows : 1..qty[r] = 1..Clipped(rows, qty)[r]
  BY DEF Clipped
<1>2. UnitsOf(rows, qty) = UnitsOf(rows, Clipped(rows, qty))
  BY <1>1 DEF UnitsOf
<1> QED
  BY <1>2 DEF Total

LEMMA IntUnits ==
  ASSUME NEW rows, IsFiniteSet(rows), NEW qty, \A r \in rows : qty[r] \in Int
  PROVE  IsFiniteSet(UnitsOf(rows, qty)) /\ Total(rows, qty) \in Nat
<1>1. \A r \in rows : Clipped(rows, qty)[r] \in Nat
  BY DEF Clipped
<1> QED
  BY <1>1, ClippedUnits, NatUnits

\* One row more, of a quantity of either sign.
LEMMA AddClipped ==
  ASSUME NEW rows, IsFiniteSet(rows), NEW qty, NEW x, x \notin rows,
         \A r \in rows \cup {x} : qty[r] \in Int
  PROVE  Total(rows \cup {x}, qty) = Total(rows, qty) + IF qty[x] > 0 THEN qty[x] ELSE 0
<1> DEFINE all == rows \cup {x}
           clip == Clipped(all, qty)
<1>1. \A r \in all : clip[r] \in Nat
  BY DEF Clipped
<1>2. clip[x] = IF qty[x] > 0 THEN qty[x] ELSE 0
  BY DEF Clipped
<1>3. Total(all, qty) = Total(all, clip)
  BY ClippedUnits
<1>4. \A r \in rows : clip[r] = Clipped(rows, qty)[r]
  BY DEF Clipped
<1>5. Total(rows, qty) = Total(rows, Clipped(rows, qty))
  BY ClippedUnits
<1> HIDE DEF clip
<1>6. Total(rows, clip) = Total(rows, Clipped(rows, qty))
  BY <1>4, SameUnits
<1>7. IsFiniteSet(UnitsOf(rows, clip))
  BY <1>1, NatUnits
<1>8. Total(rows \cup {x}, clip) = Total(rows, clip) + clip[x]
  BY <1>1, <1>7, AddUnits
<1> QED
  BY <1>2, <1>3, <1>5, <1>6, <1>8

LEMMA SignedType ==
  ASSUME NEW rows, IsFiniteSet(rows), NEW qty, \A r \in rows : qty[r] \in Int
  PROVE  SignedTotal(rows, qty) \in Int
<1>1. \A r \in rows : [i \in rows |-> -qty[i]][r] \in Int
  OBVIOUS
<1> QED
  BY <1>1, IntUnits DEF SignedTotal

LEMMA SameSigned ==
  ASSUME NEW rows, NEW q1, NEW q2, \A r \in rows : q1[r] = q2[r]
  PROVE  SignedTotal(rows, q1) = SignedTotal(rows, q2)
<1>1. [r \in rows |-> -q1[r]] = [r \in rows |-> -q2[r]]
  OBVIOUS
<1> QED
  BY <1>1, SameUnits DEF SignedTotal

LEMMA NoSigned == \A qty : SignedTotal({}, qty) = 0
BY NoUnits DEF SignedTotal

\* Rows of nothing add up to nothing.
LEMMA ZeroSigned ==
  ASSUME NEW rows, NEW qty, \A r \in rows : qty[r] = 0
  PROVE  SignedTotal(rows, qty) = 0
<1> DEFINE neg == [r \in rows |-> -qty[r]]
<1>1. \A r \in rows : qty[r] = 0 /\ neg[r] = 0
  OBVIOUS
<1> HIDE DEF neg
<1>2. UnitsOf(rows, qty) = {} /\ UnitsOf(rows, neg) = {}
  BY <1>1 DEF UnitsOf
<1> QED
  BY <1>2, FS_EmptySet DEF SignedTotal, Total, neg

\* One row more adds its quantity.
LEMMA AddSigned ==
  ASSUME NEW rows, IsFiniteSet(rows), NEW qty, NEW x, x \notin rows,
         \A r \in rows \cup {x} : qty[r] \in Int
  PROVE  SignedTotal(rows \cup {x}, qty) = SignedTotal(rows, qty) + qty[x]
<1> DEFINE all == rows \cup {x}
           neg == [r \in all |-> -qty[r]]
<1>1. \A r \in all : neg[r] \in Int
  OBVIOUS
<1>2. neg[x] = -qty[x] /\ qty[x] \in Int
  OBVIOUS
<1>3. \A r \in rows : neg[r] = [i \in rows |-> -qty[i]][r] /\ neg[r] \in Int
  OBVIOUS
<1> HIDE DEF neg
<1>4. Total(all, qty) = Total(rows, qty) + IF qty[x] > 0 THEN qty[x] ELSE 0
  BY AddClipped
<1>5. Total(all, neg) = Total(rows, neg) + IF neg[x] > 0 THEN neg[x] ELSE 0
  BY <1>1, AddClipped
<1>6. Total(rows, neg) = Total(rows, [i \in rows |-> -qty[i]])
  BY <1>3, SameUnits
<1>7. Total(rows, qty) \in Nat /\ Total(rows, neg) \in Nat
  BY <1>3, IntUnits
<1>8. SignedTotal(all, qty) = Total(all, qty) - Total(all, neg)
  BY DEF SignedTotal, neg
<1>9. SignedTotal(rows, qty) = Total(rows, qty) - Total(rows, neg)
  BY <1>6 DEF SignedTotal
<1> QED
  BY <1>2, <1>4, <1>5, <1>7, <1>8, <1>9

\* One row's quantity changes, the others stay.
LEMMA ChangeSigned ==
  ASSUME NEW rows, IsFiniteSet(rows), NEW q1, NEW q2, NEW x \in rows, NEW n \in Int,
         \A r \in rows : q1[r] \in Int,
         \A r \in rows : q2[r] = IF r = x THEN q1[r] + n ELSE q1[r]
  PROVE  SignedTotal(rows, q2) = SignedTotal(rows, q1) + n
<1> DEFINE others == rows \ {x}
<1>1. IsFiniteSet(others) /\ x \notin others
  BY FS_RemoveElement
<1>2. rows = others \cup {x}
  OBVIOUS
<1>3. \A r \in others : q1[r] = q2[r] /\ q1[r] \in Int
  OBVIOUS
<1>4. /\ \A r \in others \cup {x} : q1[r] \in Int
      /\ \A r \in others \cup {x} : q2[r] \in Int
  OBVIOUS
<1>5. q1[x] \in Int /\ q2[x] = q1[x] + n
  OBVIOUS
<1> HIDE DEF others
<1>6. SignedTotal(others, q1) = SignedTotal(others, q2) /\ SignedTotal(others, q1) \in Int
  BY <1>1, <1>3, SameSigned, SignedType
<1>7. SignedTotal(others \cup {x}, q1) = SignedTotal(others, q1) + q1[x]
  BY <1>1, <1>4, AddSigned
<1>8. SignedTotal(others \cup {x}, q2) = SignedTotal(others, q2) + q2[x]
  BY <1>1, <1>4, AddSigned
<1> QED
  BY <1>2, <1>5, <1>6, <1>7, <1>8
=============================================================================
