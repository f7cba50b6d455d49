--------------------------- MODULE BreakerProofs ---------------------------
(***************************************************************************)
(* Proofs about the governor and the circuit breaker, for any number of    *)
(* calls, limits and bursts.                                               *)
(***************************************************************************)
EXTENDS Breaker, FiniteSetTheorems, TLAPS

\* The flags are assigned truth values only.
LEMMA InitFlags == Init => FlagsOK
  BY DEF Init, FlagsOK

\* Initially every variable has its type.
LEMMA InitType == Init => TypeOK
  BY InitFlags, ConstantsAssumption DEF Init, TypeOK

\* allow, success and failure set the flags to truth values, and the clock
\* does; the other steps leave them alone.
LEMMA NextFlags == ASSUME FlagsOK, [Next]_vars PROVE FlagsOK'
<1> USE DEF FlagsOK, breakerVars
<1>1. ASSUME NEW c \in Caller, Allow(c) PROVE FlagsOK'  BY <1>1 DEF Allow
<1>2. ASSUME NEW c \in Caller, TakeSlot(c) PROVE FlagsOK'  BY <1>2 DEF TakeSlot
<1>3. ASSUME NEW c \in Caller, TakeToken(c) PROVE FlagsOK'
  BY <1>3 DEF TakeToken
<1>4. ASSUME NEW c \in Caller, Cancel(c) PROVE FlagsOK'  BY <1>4 DEF Cancel
<1>5. ASSUME NEW c \in Caller, TargetAnswers(c) PROVE FlagsOK'
  BY <1>5 DEF TargetAnswers
<1>6. ASSUME NEW c \in Caller, Success(c) PROVE FlagsOK'  BY <1>6 DEF Success
<1>7. ASSUME NEW c \in Caller, Failure(c) PROVE FlagsOK'  BY <1>7 DEF Failure
<1>8. CASE CooldownPasses  BY <1>8 DEF CooldownPasses
<1>9. CASE Refill  BY <1>9 DEF Refill
<1>10. CASE UNCHANGED vars  BY <1>10 DEF vars
<1> QED  BY <1>1, <1>2, <1>3, <1>4, <1>5, <1>6, <1>7, <1>8, <1>9, <1>10
         DEF Next, Proceed

Holding == {c \in Caller : pc[c] \in {"token", "sent"}}

\* The slots in use are counted without a bound first: the bound follows
\* from the guard of TakeSlot.
LEMMA HoldingFinite == IsFiniteSet(Holding) /\ Holding \subseteq Caller
<1>1. Holding \subseteq Caller  BY DEF Holding
<1> QED  BY <1>1, ConstantsAssumption, FS_Subset

\* Every step keeps types; the slots need the count of their holders, since
\* release is a subtraction.
LEMMA NextType ==
  ASSUME TypeOK, slots = Cardinality(Holding), [Next]_vars
  PROVE  TypeOK'
<1> USE NextFlags, ConstantsAssumption DEF TypeOK, Goto, breakerVars, governorVars
<1>0. \A c \in Holding : slots >= 1
  <2> TAKE c \in Holding
  <2>1. Cardinality(Holding) # 0  BY HoldingFinite, FS_EmptySet
  <2> QED  BY <2>1
<1>1. ASSUME NEW c \in Caller, Allow(c) PROVE TypeOK'
  BY <1>1 DEF Allow
<1>2. ASSUME NEW c \in Caller, TakeSlot(c) PROVE TypeOK'
  BY <1>2 DEF TakeSlot
<1>3. ASSUME NEW c \in Caller, TakeToken(c) PROVE TypeOK'
  BY <1>3 DEF TakeToken
<1>4. ASSUME NEW c \in Caller, Cancel(c) PROVE TypeOK'
  <2>1. pc[c] = "token" => slots - 1 \in Nat  BY <1>0 DEF Holding
  <2> QED  BY <1>4, <2>1 DEF Cancel
<1>5. ASSUME NEW c \in Caller, TargetAnswers(c) PROVE TypeOK'
  <2>1. slots - 1 \in Nat  BY <1>0, <1>5 DEF Holding, TargetAnswers
  <2> QED  BY <1>5, <2>1 DEF TargetAnswers
<1>6. ASSUME NEW c \in Caller, Success(c) PROVE TypeOK'
  BY <1>6 DEF Success
<1>7. ASSUME NEW c \in Caller, Failure(c) PROVE TypeOK'
  BY <1>7 DEF Failure, Counted
<1>8. CASE CooldownPasses  BY <1>8 DEF CooldownPasses
<1>9. CASE Refill  BY <1>9 DEF Refill
<1>10. CASE UNCHANGED vars  BY <1>10 DEF vars
<1> QED  BY <1>1, <1>2, <1>3, <1>4, <1>5, <1>6, <1>7, <1>8, <1>9, <1>10
         DEF Next, Proceed

\* A call that enters the set of holders adds one slot, a call that leaves
\* it returns one, and no other step touches either.
LEMMA NextSlots ==
  ASSUME TypeOK, SlotsAccounted, [Next]_vars
  PROVE  SlotsAccounted'
<1>1. SlotsAccounted <=> slots = Cardinality(Holding) /\ slots <= Concurrency
  BY DEF SlotsAccounted, Holding
<1>2. SlotsAccounted' <=> slots' = Cardinality(Holding') /\ slots' <= Concurrency
  BY DEF SlotsAccounted, Holding
<1>3. IsFiniteSet(Holding)  BY HoldingFinite
<1>4. ASSUME slots' = slots, Holding' = Holding PROVE SlotsAccounted'
  BY <1>1, <1>2, <1>4
<1>5. ASSUME NEW c \in Holding, Holding' = Holding \ {c}, slots' = slots - 1
      PROVE SlotsAccounted'
  <2>1. Cardinality(Holding') = Cardinality(Holding) - 1
    BY <1>3, <1>5, FS_RemoveElement
  <2> QED  BY <1>1, <1>2, <1>5, <2>1, ConstantsAssumption DEF TypeOK
<1>6. ASSUME NEW c \in Caller, c \notin Holding, Holding' = Holding \cup {c},
             slots < Concurrency, slots' = slots + 1
      PROVE SlotsAccounted'
  <2>1. Cardinality(Holding') = Cardinality(Holding) + 1
    BY <1>3, <1>6, FS_AddElement
  <2> QED  BY <1>1, <1>2, <1>6, <2>1, ConstantsAssumption DEF TypeOK
<1> USE DEF TypeOK, Goto, breakerVars, governorVars
<1>7. ASSUME NEW c \in Caller, Allow(c) PROVE SlotsAccounted'
  <2>1. Holding' = Holding  BY <1>7 DEF Allow, Holding
  <2> QED  BY <1>4, <1>7, <2>1 DEF Allow
<1>8. ASSUME NEW c \in Caller, TakeSlot(c) PROVE SlotsAccounted'
  <2>1. c \notin Holding /\ Holding' = Holding \cup {c}
    BY <1>8 DEF TakeSlot, Holding
  <2> QED  BY <1>6, <1>8, <2>1 DEF TakeSlot
<1>9. ASSUME NEW c \in Caller, TakeToken(c) PROVE SlotsAccounted'
  <2>1. Holding' = Holding  BY <1>9 DEF TakeToken, Holding
  <2> QED  BY <1>4, <1>9, <2>1 DEF TakeToken
<1>10. ASSUME NEW c \in Caller, Cancel(c) PROVE SlotsAccounted'
  <2>1. CASE pc[c] = "token"
    <3>1. c \in Holding /\ Holding' = Holding \ {c}
      BY <1>10, <2>1 DEF Cancel, Holding
    <3> QED  BY <1>5, <1>10, <2>1, <3>1 DEF Cancel
  <2>2. CASE pc[c] = "slot"
    <3>1. Holding' = Holding  BY <1>10, <2>2 DEF Cancel, Holding
    <3> QED  BY <1>4, <1>10, <2>2, <3>1 DEF Cancel
  <2> QED  BY <1>10, <2>1, <2>2 DEF Cancel
<1>11. ASSUME NEW c \in Caller, TargetAnswers(c) PROVE SlotsAccounted'
  <2>1. c \in Holding /\ Holding' = Holding \ {c}
    BY <1>11 DEF TargetAnswers, Holding
  <2> QED  BY <1>5, <1>11, <2>1 DEF TargetAnswers
<1>12. ASSUME NEW c \in Caller, Success(c) PROVE SlotsAccounted'
  <2>1. Holding' = Holding  BY <1>12 DEF Success, Holding
  <2> QED  BY <1>4, <1>12, <2>1 DEF Success
<1>13. ASSUME NEW c \in Caller, Failure(c) PROVE SlotsAccounted'
  <2>1. Holding' = Holding  BY <1>13 DEF Failure, Holding
  <2> QED  BY <1>4, <1>13, <2>1 DEF Failure
<1>14. CASE CooldownPasses  BY <1>4, <1>14 DEF CooldownPasses, Holding
<1>15. CASE Refill  BY <1>4, <1>15 DEF Refill, Holding
<1>16. CASE UNCHANGED vars  BY <1>4, <1>16 DEF vars, Holding
<1> QED  BY <1>7, <1>8, <1>9, <1>10, <1>11, <1>12, <1>13, <1>14, <1>15, <1>16
         DEF Next, Proceed

\* In the beginning nobody holds a slot.
LEMMA InitSlots == Init => SlotsAccounted
<1> SUFFICES ASSUME Init PROVE SlotsAccounted  OBVIOUS
<1>1. {c \in Caller : pc[c] \in {"token", "sent"}} = {}  BY DEF Init
<1> QED  BY <1>1, FS_EmptySet, ConstantsAssumption DEF Init, SlotsAccounted

\* Types and slots together are inductive.
THEOREM SlotsAreReturned == Spec => [](TypeOK /\ SlotsAccounted)
<1>1. Init => TypeOK /\ SlotsAccounted  BY InitType, InitSlots
<1>2. TypeOK /\ SlotsAccounted /\ [Next]_vars => (TypeOK /\ SlotsAccounted)'
  BY NextType, NextSlots DEF SlotsAccounted, Holding
<1> QED  BY <1>1, <1>2, PTL DEF Spec

\* failure() opens the circuit no later than at the limit, and only
\* success(), which clears the count and the trial, closes it.
THEOREM ClosedMeansHealthy == Spec => []ClosedIsHealthy
<1>1. Init => ClosedIsHealthy  BY ConstantsAssumption DEF Init, ClosedIsHealthy
<1>2. ASSUME TypeOK, ClosedIsHealthy, [Next]_vars PROVE ClosedIsHealthy'
  <2> USE <1>2, ConstantsAssumption DEF TypeOK, ClosedIsHealthy, breakerVars
  <2>1. ASSUME NEW c \in Caller, Allow(c) PROVE ClosedIsHealthy'
    BY <2>1 DEF Allow
  <2>2. ASSUME NEW c \in Caller, Proceed(c) \/ Cancel(c) PROVE ClosedIsHealthy'
    BY <2>2 DEF Proceed, TakeSlot, TakeToken, TargetAnswers, Success, Failure,
                Counted, Cancel
  <2>3. CASE CooldownPasses  BY <2>3 DEF CooldownPasses
  <2>4. CASE Refill  BY <2>4 DEF Refill
  <2>5. CASE UNCHANGED vars  BY <2>5 DEF vars
  <2> QED  BY <2>1, <2>2, <2>3, <2>4, <2>5 DEF Next
<1> QED  BY <1>1, <1>2, SlotsAreReturned, PTL DEF Spec
=============================================================================
