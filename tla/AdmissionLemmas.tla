--------------------------- MODULE AdmissionLemmas ---------------------------
(***************************************************************************)
(* What the operators of AdmissionState compute: a weight is a finite sum   *)
(* that grows by the weight of an added permit and shrinks by the weight of *)
(* a removed one, so charging and discharging keep the counters equal to    *)
(* the weights of the permits that are out.                                 *)
(***************************************************************************)
EXTENDS AdmissionState, FiniteSetTheorems, FunctionTheorems, TLAPS

(* The units of one permit: as many pairs as the permit weighs. *)
LEMMA UnitsOfOne ==
  ASSUME NEW p, NEW n \in Nat
  PROVE  /\ IsFiniteSet({p} \X (1 .. n))
         /\ Cardinality({p} \X (1 .. n)) = n
<1> DEFINE left == {p}
           right == 1 .. n
<1>1. IsFiniteSet(left) /\ Cardinality(left) = 1
  BY FS_Singleton
<1>2. IsFiniteSet(right) /\ Cardinality(right) = n
  BY FS_Interval
<1> HIDE DEF left, right
<1>3. /\ IsFiniteSet(left \X right)
      /\ Cardinality(left \X right) = Cardinality(left) * Cardinality(right)
  BY <1>1, <1>2, FS_Product
<1>4. Cardinality(left \X right) = n
  BY <1>1, <1>2, <1>3
<1>5. QED
  BY <1>3, <1>4 DEF left, right

(* A finite set of permits has finitely many units. *)
LEMMA UnitsFinite ==
  ASSUME NEW S, IsFiniteSet(S), NEW w, \A p \in S : w[p] \in Nat
  PROVE  IsFiniteSet(Units(S, w)) /\ Weight(S, w) \in Nat
<1> DEFINE Blocks == {{p} \X (1 .. w[p]) : p \in S}
           f == [p \in S |-> {p} \X (1 .. w[p])]
<1>1. f \in Surjection(S, Blocks)
  BY DEF Surjection
<1>2. IsFiniteSet(Blocks)
  BY <1>1, FS_Surjection
<1>3. \A B \in Blocks : IsFiniteSet(B)
  <2>1. SUFFICES ASSUME NEW q \in S
                 PROVE  IsFiniteSet({q} \X (1 .. w[q]))
    OBVIOUS
  <2>2. w[q] \in Nat
    OBVIOUS
  <2>3. QED
    BY <2>2, UnitsOfOne
<1>4. IsFiniteSet(UNION Blocks)
  BY <1>2, <1>3, FS_UNION
<1>5. QED
  BY <1>4, FS_CardinalityType DEF Units, Weight

(* Adding a permit adds its weight. *)
LEMMA WeightAdd ==
  ASSUME NEW S, IsFiniteSet(S), NEW w, \A p \in S : w[p] \in Nat,
         NEW q, q \notin S, w[q] \in Nat
  PROVE  Weight(S \cup {q}, w) = Weight(S, w) + w[q]
<1> DEFINE new == {q} \X (1 .. w[q])
<1>1. Units(S \cup {q}, w) = Units(S, w) \cup new
  BY DEF Units
<1>2. Units(S, w) \cap new = {}
  BY DEF Units
<1>3. IsFiniteSet(Units(S, w)) /\ Weight(S, w) \in Nat
  BY UnitsFinite
<1>4. IsFiniteSet(new) /\ Cardinality(new) = w[q]
  BY UnitsOfOne
<1>5. Cardinality(Units(S, w) \cup new)
        = Cardinality(Units(S, w)) + Cardinality(new) - Cardinality({})
  BY <1>2, <1>3, <1>4, FS_Union
<1>6. Cardinality({}) = 0
  BY FS_EmptySet
<1>7. Cardinality(Units(S, w) \cup new) = Weight(S, w) + w[q]
  <2> HIDE DEF new
  <2>1. QED
    BY <1>3, <1>4, <1>5, <1>6 DEF Weight
<1>8. QED
  BY <1>1, <1>7 DEF Weight

(* Removing a permit removes its weight, which was part of the total. *)
LEMMA WeightRemove ==
  ASSUME NEW S, IsFiniteSet(S), NEW w, \A p \in S : w[p] \in Nat,
         NEW q \in S
  PROVE  /\ Weight(S \ {q}, w) = Weight(S, w) - w[q]
         /\ w[q] <= Weight(S, w)
<1> DEFINE R == S \ {q}
<1>1. IsFiniteSet(R) /\ q \notin R /\ S = R \cup {q}
  BY FS_RemoveElement
<1>2. Weight(R, w) \in Nat
  BY <1>1, UnitsFinite
<1>3. Weight(R \cup {q}, w) = Weight(R, w) + w[q]
  <2>1. \A p \in R : w[p] \in Nat
    OBVIOUS
  <2>2. w[q] \in Nat
    OBVIOUS
  <2> HIDE DEF R
  <2>3. QED
    BY <1>1, <2>1, <2>2, WeightAdd
<1>4. Weight(S, w) = Weight(R, w) + w[q]
  BY <1>1, <1>3
<1>5. QED
  BY <1>2, <1>4

(* Nothing lent weighs nothing. *)
LEMMA WeightNone == \A w : Weight({}, w) = 0
BY FS_EmptySet DEF Weight, Units

-----------------------------------------------------------------------------
(* The counters of state are the weights of the permits in S. *)
Matches(state, S, cpu, mem) ==
  /\ state.cpu_in_use = Weight(S, cpu)
  /\ state.memory_in_use = Weight(S, mem)
  /\ state.queued = Cardinality(S)

(* charge() for a new permit keeps the counters equal to the weights. *)
LEMMA ChargeMatches ==
  ASSUME NEW S, IsFiniteSet(S), NEW cpu, NEW mem,
         \A p \in S : cpu[p] \in Nat /\ mem[p] \in Nat,
         NEW q, q \notin S, NEW cost,
         cpu[q] = cost.cpu_units, mem[q] = cost.estimated_bytes,
         cpu[q] \in Nat, mem[q] \in Nat,
         NEW state, Matches(state, S, cpu, mem)
  PROVE  Matches(Charge(state, cost), S \cup {q}, cpu, mem)
<1>1. /\ Weight(S \cup {q}, cpu) = Weight(S, cpu) + cpu[q]
      /\ Weight(S \cup {q}, mem) = Weight(S, mem) + mem[q]
  BY WeightAdd
<1>2. Cardinality(S \cup {q}) = Cardinality(S) + 1
  BY FS_AddElement
<1>3. QED
  BY <1>1, <1>2 DEF Matches, Charge

(* release() of a permit that is out keeps them equal too: nothing          *)
(* saturates.                                                               *)
LEMMA DischargeMatches ==
  ASSUME NEW S, IsFiniteSet(S), NEW cpu, NEW mem,
         \A p \in S : cpu[p] \in Nat /\ mem[p] \in Nat,
         NEW q \in S, NEW cost,
         cpu[q] = cost.cpu_units, mem[q] = cost.estimated_bytes,
         NEW state, Matches(state, S, cpu, mem)
  PROVE  Matches(Discharge(state, cost), S \ {q}, cpu, mem)
<1>1. /\ Weight(S \ {q}, cpu) = Weight(S, cpu) - cpu[q]
      /\ cpu[q] <= Weight(S, cpu)
      /\ Weight(S \ {q}, mem) = Weight(S, mem) - mem[q]
      /\ mem[q] <= Weight(S, mem)
  BY WeightRemove
<1>2. /\ Cardinality(S \ {q}) = Cardinality(S) - 1
      /\ Cardinality(S) \in Nat /\ Cardinality(S) # 0
  BY FS_RemoveElement, FS_CardinalityType, FS_EmptySet
<1>3. 1 <= Cardinality(S)
  BY <1>2
<1>4. QED
  BY <1>1, <1>2, <1>3 DEF Matches, Discharge, SaturatingSub

(* What fits leaves the total within the limits. *)
LEMMA FitsIsAffordable ==
  ASSUME NEW S, IsFiniteSet(S), NEW cpu, NEW mem,
         \A p \in S : cpu[p] \in Nat /\ mem[p] \in Nat,
         NEW q, q \notin S, NEW cost,
         cpu[q] = cost.cpu_units, mem[q] = cost.estimated_bytes,
         cpu[q] \in Nat, mem[q] \in Nat,
         NEW state, Matches(state, S, cpu, mem),
         NEW limits, limits.cpu_units \in Nat, limits.memory_bytes \in Nat,
         Weight(S, cpu) <= limits.cpu_units,
         Weight(S, mem) <= limits.memory_bytes,
         Fits(limits, state, cost)
  PROVE  /\ Weight(S \cup {q}, cpu) <= limits.cpu_units
         /\ Weight(S \cup {q}, mem) <= limits.memory_bytes
<1>1. /\ Weight(S \cup {q}, cpu) = Weight(S, cpu) + cpu[q]
      /\ Weight(S \cup {q}, mem) = Weight(S, mem) + mem[q]
  BY WeightAdd
<1>2. Weight(S, cpu) \in Nat /\ Weight(S, mem) \in Nat
  BY UnitsFinite
<1>3. QED
  BY <1>1, <1>2 DEF Matches, Fits, SaturatingSub

=============================================================================
