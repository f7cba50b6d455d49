--------------------------- MODULE DeliveryProofs ---------------------------
(***************************************************************************)
(* What delivery keeps for any number of workers, events and faults.       *)
(***************************************************************************)
EXTENDS Delivery, FiniteSetTheorems, SequenceTheorems, WellFoundedInduction,
        TLAPS

-----------------------------------------------------------------------------
(* ORDER BY and LIMIT. *)

\* A set of numbers has a least one.
LEMMA LeastNumber ==
  ASSUME NEW T \in SUBSET Nat, T # {}
  PROVE  \E x \in T : \A y \in T : x <= y
<1>1. \E x \in T : \A y \in T : ~(<<y, x>> \in OpToRel(<, Nat))
  BY WFMin, NatLessThanWellFounded
<1>2. PICK x \in T : \A y \in T : ~(<<y, x>> \in OpToRel(<, Nat))
  BY <1>1
<1>3. \A y \in T : ~(y < x)
  BY <1>2 DEF OpToRel
<1> QED BY <1>3

IsAscending(f, S) ==
  /\ f \in [1..Cardinality(S) -> S]
  /\ \A i, j \in 1..Cardinality(S) : i < j => f[i] < f[j]

\* A finite set of numbers can be ordered.
LEMMA AscendingExists ==
  ASSUME NEW S \in SUBSET Nat, IsFiniteSet(S)
  PROVE  \E f : IsAscending(f, S)
<1> DEFINE Bad == {n \in Nat : \E T \in SUBSET Nat :
                     /\ IsFiniteSet(T) /\ Cardinality(T) = n
                     /\ ~\E f : IsAscending(f, T)}
<1>1. Bad = {}
  <2> SUFFICES ASSUME Bad # {} PROVE FALSE
    OBVIOUS
  <2>1. PICK n \in Bad : \A m \in Bad : n <= m
    BY LeastNumber
  <2>2. PICK T \in SUBSET Nat : /\ IsFiniteSet(T) /\ Cardinality(T) = n
                                /\ ~\E f : IsAscending(f, T)
    BY <2>1
  <2>3. CASE T = {}
    <3>1. Cardinality(T) = 0
      BY <2>3, FS_EmptySet
    <3>2. IsAscending([i \in 1..0 |-> i], T)
      BY <2>3, <3>1 DEF IsAscending
    <3> QED BY <2>2, <3>2
  <2>4. CASE T # {}
    <3>1. PICK x \in T : \A y \in T : x <= y
      BY <2>4, LeastNumber
    <3> DEFINE U == T \ {x}
    <3>2. IsFiniteSet(U) /\ Cardinality(U) = n - 1
      BY <2>2, <3>1, FS_RemoveElement
    <3>3. n \in Nat /\ n # 0
      BY <2>1, <2>2, <2>4, FS_EmptySet
    <3>4. n - 1 \in Nat /\ n - 1 \notin Bad
      BY <2>1, <3>3
    <3>5. PICK g : IsAscending(g, U)
      BY <2>2, <3>2, <3>4
    <3> DEFINE f == [i \in 1..n |-> IF i = 1 THEN x ELSE g[i - 1]]
    <3>a. g \in [1..(n - 1) -> U] /\ \A i, j \in 1..(n - 1) : i < j => g[i] < g[j]
      BY <3>2, <3>5 DEF IsAscending
    <3>6. ASSUME NEW i \in 1..n, i # 1
          PROVE  i - 1 \in 1..(n - 1) /\ g[i - 1] \in T /\ g[i - 1] # x
      <4>1. i - 1 \in 1..(n - 1)
        BY <3>3, <3>6
      <4> QED BY <3>a, <4>1
    <3>7. f \in [1..n -> T]
      BY <3>1, <3>6
    <3>8. ASSUME NEW i \in 1..n, NEW j \in 1..n, i < j PROVE f[i] < f[j]
      <4>1. j # 1 /\ g[j - 1] \in T /\ g[j - 1] # x
        BY <3>3, <3>6, <3>8
      <4>2. CASE i = 1
        <5>1. x \in Nat /\ g[j - 1] \in Nat /\ x <= g[j - 1]
          BY <2>2, <3>1, <4>1
        <5> QED BY <4>1, <4>2, <5>1
      <4>3. CASE i # 1
        <5>1. i - 1 < j - 1
          BY <3>3, <3>8
        <5> QED BY <3>a, <3>6, <4>1, <4>3, <5>1
      <4> QED BY <4>2, <4>3
    <3>9. IsAscending(f, T)
      BY <2>2, <3>7, <3>8 DEF IsAscending
    <3> QED BY <2>2, <3>9
  <2> QED BY <2>3, <2>4
<1>2. Cardinality(S) \in Nat
  BY FS_CardinalityType
<1> QED BY <1>1, <1>2

\* Ascending lists every number of the set, the smaller ones first.
LEMMA AscendingLists ==
  ASSUME NEW S \in SUBSET Nat, IsFiniteSet(S)
  PROVE  /\ Cardinality(S) \in Nat
         /\ Ascending(S) \in [1..Cardinality(S) -> S]
         /\ Ascending(S) \in Seq(S) /\ Len(Ascending(S)) = Cardinality(S)
         /\ \A i, j \in 1..Cardinality(S) : i < j => Ascending(S)[i] < Ascending(S)[j]
         /\ \A x \in S : \E i \in 1..Cardinality(S) : Ascending(S)[i] = x
<1> DEFINE n == Cardinality(S)
           f == Ascending(S)
<1>1. n \in Nat
  BY FS_CardinalityType
<1>2. PICK g : IsAscending(g, S)
  BY AscendingExists
<1>3. f \in [1..n -> S] /\ \A i, j \in 1..n : i < j => f[i] < f[j]
  BY <1>2 DEF IsAscending, Ascending
<1>4. f \in Seq(S) /\ Len(f) = n
  BY <1>1, <1>3
<1> HIDE DEF f
<1>5. f \in Injection(1..n, S)
  <2>1. \A i, j \in 1..n : f[i] = f[j] => i = j
    <3> SUFFICES ASSUME NEW i \in 1..n, NEW j \in 1..n, f[i] = f[j] PROVE i = j
      OBVIOUS
    <3>1. f[i] \in Nat
      BY <1>3
    <3>2. ~(i < j) /\ ~(j < i)
      BY <1>3, <3>1
    <3> QED BY <1>1, <3>2
  <2> QED BY <1>3, <2>1 DEF Injection, IsInjective
<1>6. Cardinality(1..n) = Cardinality(S)
  BY <1>1, FS_Interval
<1>7. f \in Surjection(1..n, S)
  BY <1>5, <1>6, FS_Injection
<1> QED BY <1>1, <1>3, <1>4, <1>7 DEF f, Surjection

\* A batch is an initial part of what there is, and not empty.
LEMMA FirstOfLists ==
  ASSUME NEW S \in SUBSET Nat, IsFiniteSet(S)
  PROVE  LET f == FirstOf(S)
         IN  /\ f \in Seq(S) /\ Len(f) \in Nat
             /\ \A i \in 1..Len(f) : f[i] \in S
             /\ \A i \in 1..Len(f), x \in S :
                  x <= f[i] => \E j \in 1..i : f[j] = x
             /\ S # {} => f # <<>>
<1> DEFINE Before(x) == {y \in S : y < x}
           B == {x \in S : Cardinality(Before(x)) < Batch}
           f == Ascending(B)
<1>0. B \in SUBSET Nat /\ IsFiniteSet(B) /\ B \subseteq S
  BY FS_Subset
<1>1. /\ Cardinality(B) \in Nat /\ f \in [1..Cardinality(B) -> B]
      /\ f \in Seq(B) /\ Len(f) = Cardinality(B)
      /\ \A i, j \in 1..Cardinality(B) : i < j => f[i] < f[j]
      /\ \A x \in B : \E i \in 1..Cardinality(B) : f[i] = x
  BY <1>0, AscendingLists
<1>2. f = FirstOf(S)
  BY DEF FirstOf
<1>3. \A x \in S : IsFiniteSet(Before(x)) /\ Cardinality(Before(x)) \in Nat
  BY FS_Subset, FS_CardinalityType
<1>a. \A x \in S : Cardinality(Before(x)) < Batch => x \in B
  OBVIOUS
<1>b. \A x \in B : x \in S /\ x \in Nat /\ Cardinality(Before(x)) < Batch
  OBVIOUS
<1>c. \A x, y \in S : x <= y => Before(x) \subseteq Before(y)
  <2> SUFFICES ASSUME NEW x \in S, NEW y \in S, x <= y, NEW z \in S, z < x
               PROVE  z < y
    OBVIOUS
  <2>1. x \in Nat /\ y \in Nat /\ z \in Nat
    OBVIOUS
  <2> QED BY <2>1
<1> HIDE DEF f, B
<1>4. ASSUME NEW i \in 1..Len(f), NEW x \in S, x <= f[i]
      PROVE  \E j \in 1..i : f[j] = x
  <2>1. f[i] \in S /\ f[i] \in Nat /\ x \in Nat /\ Cardinality(Before(f[i])) < Batch
    BY <1>b, <1>1
  <2>2. Cardinality(Before(x)) <= Cardinality(Before(f[i]))
    <3>1. Before(x) \subseteq Before(f[i])
      BY <1>4, <2>1, <1>c
    <3> QED BY <1>3, <2>1, <3>1, FS_Subset
  <2>3. Cardinality(Before(x)) < Batch
    <3> HIDE DEF Before
    <3> QED BY <1>3, <2>1, <2>2, ConstantsAssumption
  <2>4. x \in B
    BY <2>3, <1>a
  <2>5. PICK j \in 1..Len(f) : f[j] = x
    BY <1>1, <2>4
  <2>6. ~(f[i] < x)
    BY <1>4, <2>1
  <2>7. ~(i < j) /\ Len(f) \in Nat
    BY <1>1, <2>5, <2>6
  <2> QED BY <2>5, <2>7
<1>5. ASSUME S # {} PROVE f # <<>>
  <2>1. PICK x \in S : \A y \in S : x <= y
    BY <1>5, LeastNumber
  <2>2. \A y \in S : ~(y < x)
    <3> SUFFICES ASSUME NEW y \in S PROVE ~(y < x)
      OBVIOUS
    <3>1. x \in Nat /\ y \in Nat /\ x <= y
      BY <2>1
    <3> QED BY <3>1
  <2>3. Before(x) = {}
    BY <2>2
  <2>4. x \in B
    BY <1>a, <2>3, FS_EmptySet, ConstantsAssumption
  <2> QED BY <1>1, <2>4
<1>6. f \in Seq(S) /\ Len(f) \in Nat /\ \A i \in 1..Len(f) : f[i] \in S
  <2>1. f \in [1..Cardinality(B) -> S]
    BY <1>b, <1>1
  <2> QED BY <1>1, <2>1
<1> QED BY <1>2, <1>4, <1>5, <1>6

-----------------------------------------------------------------------------
(* The inbox. *)

\* Types that TypeOK states of values only.
Shape ==
  /\ writing \in [Writer -> SUBSET Nat]
  /\ load \in [Writer -> Seq(Event)]
  /\ batch \in [Worker -> Seq(Nat \ {0})]
  /\ owed \subseteq 1..happened

\* The source's lock: one transaction at a time has rows.
OneWriter ==
  /\ \A v, wr \in Writer : load[v] # <<>> /\ load[wr] # <<>> => v = wr
  /\ \A wr \in Writer : writing[wr] # {} => load[wr] # <<>>

\* ... so rows become visible in the order of their numbers,
NumbersGrow == \A wr \in Writer : \A s \in writing[wr], t \in committed : t < s

\* ... a transaction finds every event of its batch or inserts it,
Covered ==
  \A wr \in Writer : \A e \in ToSet(load[wr]) :
    e \in Stored \/ \E s \in writing[wr] : inbox[s] = e

\* ... and inserts none that is there.
Distinct ==
  /\ OneRowPerEvent
  /\ \A wr \in Writer : \A s \in writing[wr], t \in Visible \cup writing[wr] :
       inbox[s] = inbox[t] => s = t

\* The cursor is at a row, and only rows behind it are deleted.
CursorAtRow ==
  /\ inboxCursor \in committed \cup {0}
  /\ \A s \in pruned : s <= inboxCursor

InboxInv == OneWriter /\ NumbersGrow /\ Covered /\ Distinct /\ CursorAtRow

\* What the inbox variables are.
InboxType ==
  /\ inbox \in Seq(Event) /\ Len(inbox) \in Nat
  /\ committed \subseteq 1..Len(inbox) /\ pruned \subseteq committed
  /\ \A wr \in Writer : writing[wr] \subseteq 1..Len(inbox) \ committed
  /\ writing \in [Writer -> SUBSET Nat] /\ load \in [Writer -> Seq(Event)]

\* The names of transactions are different.
LEMMA WriterNames ==
  /\ Hook \in Writer
  /\ \A w \in Worker : /\ Reconciler(w) \in Writer /\ Subscription(w) \in Writer
                       /\ Reconciler(w) # Hook /\ Subscription(w) # Hook
  /\ \A v, w \in Worker : /\ Reconciler(v) # Subscription(w)
                          /\ Reconciler(v) = Reconciler(w) => v = w
                          /\ Subscription(v) = Subscription(w) => v = w
  BY DEF Hook, Reconciler, Subscription, Writer

\* Rows are added at the end, and nothing that was visible changes.
LEMMA InsertKeeps ==
  ASSUME InboxType, InboxInv, NEW wr \in Writer, NEW events \in Seq(Event),
         Insert(wr, events), inboxCursor' = inboxCursor
  PROVE  /\ InboxType' /\ InboxInv'
         /\ Len(inbox) <= Len(inbox') /\ Stored' = Stored
         /\ \A s \in 1..Len(inbox) : inbox'[s] = inbox[s]
         /\ committed' = committed /\ pruned' = pruned
         /\ load' = [load EXCEPT ![wr] = events]
<1> DEFINE fresh == {e \in ToSet(events) : \A s \in Visible : inbox[s] # e}
           new == Ascending(fresh)
           n == Cardinality(fresh)
<1>1. ToSet(events) \subseteq Event /\ Event \subseteq Nat /\ Event = 1..MaxEvents
  BY ConstantsAssumption DEF ToSet, Event
<1>2. IsFiniteSet(Event)
  BY <1>1, FS_Interval, ConstantsAssumption
<1>3. fresh \subseteq Event /\ fresh \in SUBSET Nat /\ IsFiniteSet(fresh)
  BY <1>1, <1>2, FS_Subset
<1>4. /\ n \in Nat /\ new \in [1..n -> fresh] /\ new \in Seq(fresh) /\ Len(new) = n
      /\ \A i, j \in 1..n : i < j => new[i] < new[j]
      /\ \A x \in fresh : \E i \in 1..n : new[i] = x
  BY <1>3, AscendingLists
<1>5. /\ SourceLock(wr) /\ inbox' = inbox \o new
      /\ writing' = [writing EXCEPT ![wr] = Len(inbox) + 1..Len(inbox')]
      /\ load' = [load EXCEPT ![wr] = events]
      /\ committed' = committed /\ pruned' = pruned
  BY DEF Insert
<1> HIDE DEF new, n
<1>6. new \in Seq(Event)
  <2>1. new \in [1..n -> Event]
    BY <1>3, <1>4
  <2> QED BY <1>4, <2>1
<1>7. /\ inbox' \in Seq(Event) /\ Len(inbox') = Len(inbox) + n
      /\ Len(inbox) \in Nat /\ Len(inbox') \in Nat
      /\ \A s \in 1..Len(inbox) : inbox'[s] = inbox[s]
      /\ \A i \in 1..n : inbox'[Len(inbox) + i] = new[i]
  <2>1. /\ inbox' \in Seq(Event) /\ Len(inbox') = Len(inbox) + n
        /\ \A i \in 1..Len(inbox) + n :
             inbox'[i] = IF i <= Len(inbox) THEN inbox[i] ELSE new[i - Len(inbox)]
    <3>1. inbox \in Seq(Event) /\ Len(new) = n
      BY <1>4 DEF InboxType
    <3>2. /\ inbox \o new \in Seq(Event) /\ Len(inbox \o new) = Len(inbox) + n
          /\ \A i \in 1..Len(inbox) + n : (inbox \o new)[i] =
               IF i <= Len(inbox) THEN inbox[i] ELSE new[i - Len(inbox)]
      BY <1>6, <3>1, ConcatProperties
    <3> QED BY <1>5, <3>2
  <2>2. Len(inbox) \in Nat /\ n \in Nat
    BY <1>4 DEF InboxType
  <2>3. ASSUME NEW i \in 1..n PROVE inbox'[Len(inbox) + i] = new[i]
    <3>1. /\ Len(inbox) + i \in 1..Len(inbox) + n /\ ~(Len(inbox) + i <= Len(inbox))
          /\ (Len(inbox) + i) - Len(inbox) = i
      BY <2>2
    <3> QED BY <2>1, <3>1
  <2> QED BY <2>1, <2>2, <2>3
<1>8. /\ \A v \in Writer : load[v] = <<>> /\ writing[v] = {}
      /\ \A v \in Writer : v # wr => load'[v] = <<>> /\ writing'[v] = {}
      /\ load'[wr] = events /\ writing'[wr] = Len(inbox) + 1..Len(inbox')
  BY <1>5 DEF SourceLock, InboxType, InboxInv, OneWriter
<1>9. \A s \in writing'[wr] : \E i \in 1..n : s = Len(inbox) + i /\ inbox'[s] = new[i]
  <2> SUFFICES ASSUME NEW s \in writing'[wr]
               PROVE  \E i \in 1..n : s = Len(inbox) + i /\ inbox'[s] = new[i]
    OBVIOUS
  <2>1. s - Len(inbox) \in 1..n /\ s = Len(inbox) + (s - Len(inbox))
    BY <1>4, <1>7, <1>8
  <2> QED BY <1>7, <2>1
<1>10. InboxType'
  BY <1>5, <1>7, <1>8 DEF InboxType
<1>11. Stored' = Stored /\ Visible' = Visible
  <2>1. committed' = committed /\ pruned' = pruned /\ committed \subseteq 1..Len(inbox)
    BY <1>5 DEF InboxType
  <2>2. \A s \in committed : inbox'[s] = inbox[s]
    BY <1>7, <2>1
  <2> QED BY <2>1, <2>2 DEF Stored, Visible
<1>12. OneWriter' /\ NumbersGrow'
  <2>1. OneWriter'
    <3>1. ASSUME writing'[wr] # {} PROVE events # <<>>
      <4>1. PICK i \in 1..n : new[i] \in ToSet(events)
        BY <1>4, <1>9, <3>1
      <4> QED BY <4>1 DEF ToSet
    <3> QED BY <1>8, <3>1 DEF OneWriter
  <2>2. \A s \in writing'[wr], t \in committed : t < s
    BY <1>7, <1>8 DEF InboxType
  <2> QED BY <1>5, <1>8, <2>1, <2>2 DEF NumbersGrow
<1>13. Covered'
  <2> SUFFICES ASSUME NEW e \in ToSet(events)
               PROVE  e \in Stored \/ \E s \in writing'[wr] : inbox'[s] = e
    BY <1>8, <1>11 DEF Covered, ToSet
  <2>1. CASE e \in fresh
    <3>1. PICK i \in 1..n : new[i] = e
      BY <1>4, <2>1
    <3>2. Len(inbox) + i \in writing'[wr] /\ inbox'[Len(inbox) + i] = e
      BY <1>4, <1>7, <1>8, <3>1
    <3> QED BY <3>2
  <2>2. CASE e \notin fresh
    BY <2>2 DEF Stored, Visible
  <2> QED BY <2>1, <2>2
<1>14. Distinct'
  <2>1. OneRowPerEvent'
    BY <1>7, <1>11 DEF InboxInv, Distinct, OneRowPerEvent, InboxType, Visible
  <2>2. ASSUME NEW s \in writing'[wr], NEW t \in Visible, inbox'[s] = inbox'[t]
        PROVE  FALSE
    <3>1. inbox'[s] \in fresh
      BY <1>4, <1>9
    <3>2. inbox'[t] = inbox[t]
      BY <1>7 DEF Visible, InboxType
    <3> QED BY <2>2, <3>1, <3>2
  <2>3. ASSUME NEW s \in writing'[wr], NEW t \in writing'[wr], inbox'[s] = inbox'[t]
        PROVE  s = t
    <3>1. PICK i \in 1..n : s = Len(inbox) + i /\ inbox'[s] = new[i]
      BY <1>9
    <3>2. PICK j \in 1..n : t = Len(inbox) + j /\ inbox'[t] = new[j]
      BY <1>9
    <3>3. new[i] \in Nat /\ new[i] = new[j]
      BY <1>3, <1>4, <2>3, <3>1, <3>2
    <3>4. ~(i < j) /\ ~(j < i)
      BY <1>4, <3>3
    <3> QED BY <3>1, <3>2, <3>4, <1>4
  <2>4. \A v \in Writer : \A s \in writing'[v] : v = wr
    BY <1>8
  <2> QED BY <1>11, <2>1, <2>2, <2>3, <2>4 DEF Distinct
<1>15. CursorAtRow'
  BY <1>5 DEF InboxInv, CursorAtRow
<1> QED BY <1>5, <1>7, <1>10, <1>11, <1>12, <1>13, <1>14, <1>15, <1>4 DEF InboxInv

\* The rows of a transaction become visible, behind all that were.
LEMMA CommitKeeps ==
  ASSUME InboxType, InboxInv, NEW wr \in Writer, Commit(wr),
         inboxCursor' = inboxCursor
  PROVE  /\ InboxType' /\ InboxInv'
         /\ inbox' = inbox /\ pruned' = pruned /\ committed \subseteq committed'
         /\ \A s \in committed' : s \in committed \/ \A t \in committed : t < s
         /\ Stored \subseteq Stored' /\ ToSet(load[wr]) \subseteq Stored'
         /\ load' = [load EXCEPT ![wr] = <<>>]
<1>1. /\ load[wr] # <<>> /\ inbox' = inbox /\ pruned' = pruned
      /\ committed' = committed \cup writing[wr]
      /\ writing' = [writing EXCEPT ![wr] = {}]
      /\ load' = [load EXCEPT ![wr] = <<>>]
  BY DEF Commit
<1>2. \A v \in Writer : load'[v] = <<>> /\ writing'[v] = {}
  BY <1>1 DEF InboxType, InboxInv, OneWriter
<1>3. InboxType'
  <2>1. writing' \in [Writer -> SUBSET Nat] /\ load' \in [Writer -> Seq(Event)]
    BY <1>1 DEF InboxType
  <2>2. committed' \subseteq 1..Len(inbox) /\ pruned \subseteq committed'
    BY <1>1 DEF InboxType
  <2> QED BY <1>1, <1>2, <2>1, <2>2 DEF InboxType
<1>4. \A s \in committed' : s \in committed \/ \A t \in committed : t < s
  BY <1>1 DEF InboxInv, NumbersGrow
<1>5. Stored \subseteq Stored' /\ ToSet(load[wr]) \subseteq Stored'
  BY <1>1 DEF Stored, InboxInv, Covered
<1>6. OneWriter' /\ NumbersGrow' /\ Covered'
  BY <1>2 DEF OneWriter, NumbersGrow, Covered, ToSet
<1>7. Distinct'
  <2>1. Visible' \subseteq Visible \cup writing[wr]
    BY <1>1 DEF Visible
  <2>2. \A s, t \in Visible \cup writing[wr] : inbox[s] = inbox[t] => s = t
    BY DEF InboxInv, Distinct, OneRowPerEvent
  <2> QED BY <1>1, <1>2, <2>1, <2>2 DEF Distinct, OneRowPerEvent
<1>8. CursorAtRow'
  BY <1>1 DEF InboxInv, CursorAtRow
<1> QED BY <1>1, <1>3, <1>4, <1>5, <1>6, <1>7, <1>8 DEF InboxInv

\* Rows of a transaction that rolls back never become visible.
LEMMA RollbackKeeps ==
  ASSUME InboxType, InboxInv, NEW wrs, Rollback(wrs), inboxCursor' = inboxCursor
  PROVE  /\ InboxType' /\ InboxInv'
         /\ inbox' = inbox /\ pruned' = pruned /\ committed' = committed
         /\ Stored' = Stored
         /\ \A wr \in Writer : load'[wr] = IF wr \in wrs THEN <<>> ELSE load[wr]
<1>1. /\ inbox' = inbox /\ pruned' = pruned /\ committed' = committed
      /\ \A wr \in Writer :
           /\ load'[wr] = IF wr \in wrs THEN <<>> ELSE load[wr]
           /\ writing'[wr] = IF wr \in wrs THEN {} ELSE writing[wr]
  BY DEF Rollback
<1>2. load' \in [Writer -> Seq(Event)] /\ writing' \in [Writer -> SUBSET Nat]
  BY DEF Rollback, InboxType
<1>3. InboxType'
  BY <1>1, <1>2 DEF InboxType
<1>4. Stored' = Stored /\ Visible' = Visible
  BY <1>1 DEF Stored, Visible
<1>5. OneWriter' /\ NumbersGrow'
  BY <1>1 DEF InboxInv, OneWriter, NumbersGrow
<1>6. Covered'
  BY <1>1, <1>4 DEF InboxInv, Covered, ToSet
<1>7. Distinct' /\ CursorAtRow'
  BY <1>1, <1>4 DEF InboxInv, Distinct, OneRowPerEvent, CursorAtRow
<1> QED BY <1>1, <1>3, <1>4, <1>5, <1>6, <1>7 DEF InboxInv

-----------------------------------------------------------------------------
(* Dispatchers, reconciliations and subscriptions. *)

\* What a dispatcher reads: events of the source, or rows of the inbox.
Position == IF mode = "poll" THEN 1..happened ELSE committed

Started == {p \in Position : runs[EventAt(p)] # "none"}

\* Behind the cursor every run was started (CursorBehindRuns), and a polled
\* trigger has no inbox.
CursorInv == CursorBehindRuns /\ (mode = "poll" => inboxCursor = 0)

\* Everything before an entry of a dispatcher's batch was started, or is in
\* the batch before it, whatever was read, started or committed since.
BatchOf(w) ==
  /\ dpc[w] # "idle" => batch[w] # <<>>
  /\ dpc[w] \in {"start", "advance"} =>
       \A i \in 1..Len(batch[w]) :
         /\ batch[w][i] \in Position
         /\ \A p \in Position : p < batch[w][i] =>
              p \in Started \/ \E j \in 1..(i - 1) : batch[w][j] = p
  /\ dpc[w] = "advance" => batch[w][1] \in Started

BatchInv == \A w \in Worker : BatchOf(w)

\* The source's events up to the last of seq are in seq, or before from.
UpTo(seq, from, limit) ==
  /\ Last(seq) \in 1..limit
  /\ \A e \in 1..Last(seq) : e <= from \/ e \in ToSet(seq)

Reaches(seq, from) == UpTo(seq, from, happened)

\* A reconciliation stores the events it found from the cursor on.
ReconcileOf(w) ==
  /\ dpc[w] \in {"found", "stored"} =>
       mode = "webhook" /\ batch[w] \in Seq(Event) /\ Reaches(batch[w], pollCursor)
  /\ load[Reconciler(w)] # <<>> =>
       dpc[w] = "found" /\ load[Reconciler(w)] = batch[w]
  /\ dpc[w] = "stored" => ToSet(batch[w]) \subseteq Stored

ReconcileInv == \A w \in Worker : ReconcileOf(w)

\* A subscription stores the events from its position on, and everything
\* before that is stored, although another one may have taken over.
StreamOf(w) ==
  /\ 1..spos[w] \subseteq Stored
  /\ load[Subscription(w)] # <<>> =>
       spc[w] = "open" /\ Reaches(load[Subscription(w)], spos[w])

StreamInv == \A w \in Worker : StreamOf(w)

DInv == /\ TypeOK /\ Shape /\ InboxInv /\ CursorInv
        /\ BatchInv /\ ReconcileInv /\ StreamInv /\ NothingForgotten

\* Nothing has happened yet.
LEMMA InitDInv == Init => DInv
<1> SUFFICES ASSUME Init PROVE DInv
  OBVIOUS
<1> USE ConstantsAssumption
<1>0. Event = 1..MaxEvents /\ MaxEvents \in Nat
  BY DEF Event
<1>1. TypeOK
  BY <1>0 DEF Init, TypeOK, ToSet
<1>2. Shape
  BY DEF Init, Shape
<1>3. InboxInv
  BY DEF Init, InboxInv, OneWriter, NumbersGrow, Covered, Distinct, OneRowPerEvent,
         Visible, CursorAtRow, ToSet
<1>4. CursorInv /\ BatchInv
  BY DEF Init, CursorInv, CursorBehindRuns, BatchInv, BatchOf
<1>5. ReconcileInv /\ StreamInv /\ NothingForgotten
  <2>1. \A w \in Worker : load[Reconciler(w)] = <<>> /\ load[Subscription(w)] = <<>>
    BY WriterNames DEF Init
  <2> QED BY <2>1 DEF Init, ReconcileInv, ReconcileOf, StreamInv, StreamOf, NothingForgotten
<1> QED BY <1>1, <1>2, <1>3, <1>4, <1>5 DEF DInv

\* The head of a dispatcher's batch.
LEMMA HeadOfBatch ==
  ASSUME DInv, NEW w \in Worker, dpc[w] \in {"start", "advance"}
  PROVE  /\ batch[w] \in Seq(Nat \ {0}) /\ Len(batch[w]) \in Nat /\ Len(batch[w]) >= 1
         /\ Head(batch[w]) = batch[w][1] /\ batch[w][1] \in Position
         /\ batch[w][1] \in Nat /\ EventAt(batch[w][1]) \in Event
         /\ \A p \in Position : p < batch[w][1] => p \in Started
<1>1. batch[w] \in Seq(Nat \ {0}) /\ batch[w] # <<>>
  BY DEF DInv, Shape, BatchInv, BatchOf
<1>2. /\ Len(batch[w]) \in Nat /\ Len(batch[w]) >= 1 /\ 1 \in 1..Len(batch[w])
      /\ Head(batch[w]) = batch[w][1] /\ batch[w][1] \in Nat
  BY <1>1
<1>3. /\ batch[w][1] \in Position
      /\ \A p \in Position : p < batch[w][1] =>
           p \in Started \/ \E j \in 1..(1 - 1) : batch[w][j] = p
  BY <1>2 DEF DInv, BatchInv, BatchOf
<1>4. EventAt(batch[w][1]) \in Event
  <2>1. CASE mode = "poll"
    BY <1>3, <2>1, ConstantsAssumption DEF EventAt, Position, Event, DInv, TypeOK
  <2>2. CASE mode # "poll"
    <3>1. batch[w][1] \in 1..Len(inbox) /\ inbox \in Seq(Event)
      BY <1>3, <2>2 DEF Position, DInv, TypeOK
    <3> QED BY <2>2, <3>1 DEF EventAt
  <2> QED BY <2>1, <2>2
<1> QED BY <1>1, <1>2, <1>3, <1>4

\* The inbox and the runs only gain.
Gains ==
  /\ mode' = mode /\ happened' \in Nat /\ happened <= happened'
  /\ committed \subseteq committed'
  /\ \A s \in committed : inbox'[s] = inbox[s]
  /\ \A s \in committed' : s \in committed \/ \A t \in committed : t < s
  /\ Stored \subseteq Stored'
  /\ \A e \in Event : runs[e] # "none" => runs'[e] # "none"
  /\ Len(inbox) <= Len(inbox')

\* An event handed to a transaction is one of the source.
LEMMA InsertedEvents ==
  ASSUME DInv
  PROVE  /\ \A e \in Event : <<e>> \in Seq(Event)
         /\ \A w \in Worker : spos[w] < happened =>
              /\ FirstOf(spos[w] + 1..happened) \in Seq(Event)
              /\ Reaches(FirstOf(spos[w] + 1..happened), spos[w])
              /\ FirstOf(spos[w] + 1..happened) # <<>>
         /\ pollCursor < happened =>
              /\ FirstOf(pollCursor + 1..happened) \in Seq(Event)
              /\ FirstOf(pollCursor + 1..happened) \in Seq(Nat \ {0})
              /\ Reaches(FirstOf(pollCursor + 1..happened), pollCursor)
              /\ FirstOf(pollCursor + 1..happened) # <<>>
<1>0. /\ happened \in Nat /\ happened <= MaxEvents /\ MaxEvents \in Nat
      /\ pollCursor \in Nat /\ \A w \in Worker : spos[w] \in Nat
  BY ConstantsAssumption DEF DInv, TypeOK
<1>1. ASSUME NEW from \in Nat, from < happened
      PROVE  LET f == FirstOf(from + 1..happened)
             IN f \in Seq(Event) /\ f \in Seq(Nat \ {0}) /\ Reaches(f, from) /\ f # <<>>
  <2> DEFINE S == from + 1..happened
             f == FirstOf(S)
  <2>1. /\ S \in SUBSET Nat /\ IsFiniteSet(S) /\ S # {} /\ S \subseteq Event
        /\ S \subseteq Nat \ {0} /\ S \subseteq 1..happened
    <3>1. IsFiniteSet(S)
      BY <1>0, FS_Interval
    <3>2. from + 1 \in S
      BY <1>0, <1>1
    <3> QED BY <1>0, <3>1, <3>2 DEF Event
  <2>2. /\ f \in Seq(S) /\ Len(f) \in Nat /\ f # <<>>
        /\ \A i \in 1..Len(f) : f[i] \in S
        /\ \A i \in 1..Len(f), x \in S : x <= f[i] => \E j \in 1..i : f[j] = x
    BY <2>1, FirstOfLists
  <2> HIDE DEF f
  <2>3. f \in Seq(Event) /\ f \in Seq(Nat \ {0})
    BY <2>1, <2>2, SeqMonotonic
  <2>4. Len(f) \in 1..Len(f) /\ Last(f) = f[Len(f)] /\ f[Len(f)] \in S
    BY <2>2 DEF Last
  <2>5. ASSUME NEW e \in 1..Last(f), ~(e <= from) PROVE e \in ToSet(f)
    <3>1. e \in S /\ e <= f[Len(f)]
      BY <1>0, <1>1, <2>4, <2>5
    <3>2. PICK j \in 1..Len(f) : f[j] = e
      BY <2>2, <2>4, <3>1
    <3> QED BY <2>2, <3>2 DEF ToSet
  <2>6. Reaches(f, from)
    BY <2>1, <2>4, <2>5 DEF Reaches, UpTo
  <2> QED BY <2>2, <2>3, <2>6 DEF f
<1> QED BY <1>0, <1>1

\* Steps that insert rows, commit them or roll them back, and the others.
Inserts(wr) ==
  /\ UNCHANGED <<sourceVars, cursorVars, streamVars, runs, dispatchVars, faults>>
  /\ \/ \E e \in owed : wr = Hook /\ Insert(wr, <<e>>)
     \/ \E w \in Worker :
          /\ wr = Subscription(w) /\ spc[w] = "open" /\ spos[w] < happened
          /\ Insert(wr, FirstOf(spos[w] + 1..happened))
     \/ \E w \in Worker :
          /\ wr = Reconciler(w) /\ dpc[w] = "found" /\ Insert(wr, batch[w])

Commits(wr) ==
  /\ Commit(wr) /\ UNCHANGED <<mode, happened, cursorVars, lock, spc, runs>>
  /\ owed' \subseteq owed
  /\ \/ /\ wr = Hook /\ acked' \subseteq acked \cup ToSet(load[wr])
        /\ UNCHANGED <<resume, spos, dispatchVars>>
     \/ \E w \in Worker :
          /\ wr = Subscription(w) /\ resume' = Last(load[wr])
          /\ spos' = [spos EXCEPT ![w] = Last(load[wr])]
          /\ UNCHANGED <<acked, dispatchVars>>
     \/ \E w \in Worker :
          /\ wr = Reconciler(w) /\ Drain(w, "stored", batch[w])
          /\ UNCHANGED <<acked, resume, spos>>

RollsBack ==
  /\ UNCHANGED <<sourceVars, cursorVars, resume, spos, runs>>
  /\ lock' \in Worker \cup {None}
  /\ \/ Rollback({Hook}) /\ UNCHANGED <<spc, dispatchVars>>
     \/ \E w \in Worker :
          /\ Rollback({Subscription(w)}) /\ UNCHANGED dispatchVars
          /\ spc' = [spc EXCEPT ![w] = "standby"]
     \/ \E w \in Worker :
          Rollback({Reconciler(w)}) /\ Drain(w, "idle", <<>>) /\ UNCHANGED spc
     \/ \E w \in Worker :
          /\ Rollback({Reconciler(w), Subscription(w)}) /\ Drain(w, "idle", <<>>)
          /\ spc' = [spc EXCEPT ![w] = "standby"]

Dispatches(w) ==
  /\ UNCHANGED <<sourceVars, inboxVars, streamVars>>
  /\ \/ DrainReads(w) \/ Start(w) \/ Advance(w)
     \/ ReconcileReads(w) \/ ReconcileAdvances(w)
     \/ /\ StartFails(w) \/ AdvanceFails(w)

Elsewhere ==
  /\ UNCHANGED <<inboxVars, cursorVars, resume, dispatchVars, acked>>
  /\ EventHappens \/ (\E e \in Event : ProviderGivesUp(e) \/ RunFails(e))
     \/ \E w \in Worker : TryLock(w) \/ OpenStream(w) \/ LockIsLost(w)

\* The kinds of steps.
LEMMA StepKinds ==
  ASSUME DInv, Next
  PROVE  \/ \E wr \in Writer : Inserts(wr) \/ Commits(wr)
         \/ \E w \in Worker : Dispatches(w)
         \/ RollsBack \/ PruneInbox \/ Elsewhere
<1> USE DEF sourceVars, cursorVars, streamVars, dispatchVars, inboxVars
<1>1. CASE \E e \in Event : HookReceives(e)
  BY <1>1, WriterNames DEF HookReceives, Inserts
<1>2. CASE HookStores \/ HookStoresUnheard
  BY <1>2, WriterNames DEF HookStores, HookStoresUnheard, Commits
<1>3. CASE HookFails
  BY <1>3 DEF HookFails, RollsBack, DInv, TypeOK
<1>4. CASE EventHappens \/ \E e \in Event : ProviderGivesUp(e) \/ RunFails(e)
  BY <1>4 DEF EventHappens, ProviderGivesUp, RunFails, Elsewhere
<1>5. CASE \E w \in Worker : TryLock(w) \/ OpenStream(w) \/ LockIsLost(w)
  BY <1>5 DEF TryLock, OpenStream, LockIsLost, Elsewhere
<1>6. ASSUME NEW w \in Worker, StreamReceives(w) \/ ReconcileInserts(w)
      PROVE  Inserts(Subscription(w)) \/ Inserts(Reconciler(w))
  BY <1>6 DEF StreamReceives, ReconcileInserts, Inserts
<1>7. ASSUME NEW w \in Worker, StreamStores(w)
      PROVE  Commits(Subscription(w))
  BY <1>7 DEF StreamStores, Commits
<1>8. ASSUME NEW w \in Worker, ReconcileStores(w)
      PROVE  Commits(Reconciler(w))
  BY <1>8 DEF ReconcileStores, Commits
<1>9. ASSUME NEW w \in Worker, StreamEnds(w) \/ ReconcileFails(w) \/ Crash(w)
      PROVE  RollsBack
  <2>1. lock' \in Worker \cup {None}
    BY <1>9 DEF StreamEnds, ReconcileFails, Crash, Unlocked, DInv, TypeOK
  <2> QED BY <1>9, <2>1 DEF StreamEnds, ReconcileFails, Crash, RollsBack
<1>10. ASSUME NEW w \in Worker,
              \/ DrainReads(w) \/ Start(w) \/ Advance(w) \/ ReconcileReads(w)
              \/ ReconcileAdvances(w) \/ StartFails(w) \/ AdvanceFails(w)
       PROVE  Dispatches(w)
  BY <1>10 DEF DrainReads, Start, Advance, ReconcileReads, ReconcileAdvances,
               StartFails, AdvanceFails, Dispatches
<1> QED BY <1>1, <1>2, <1>3, <1>4, <1>5, <1>6, <1>7, <1>8, <1>9, <1>10, WriterNames
        DEF Next, Dispatch, Subscribe

\* What DInv knows of the inbox's types.
LEMMA DInvTypes == DInv => InboxType
  BY DEF DInv, TypeOK, Shape, InboxType

\* Every step keeps the inbox, and inbox and runs only gain.
LEMMA NextGains ==
  ASSUME DInv, [Next]_vars
  PROVE  InboxType' /\ InboxInv' /\ Gains
<1> USE DEF sourceVars, cursorVars, streamVars, dispatchVars, inboxVars
<1>0. InboxType /\ InboxInv /\ happened \in Nat /\ runs \in [Event -> {"none", "started", "failed"}]
  BY DInvTypes DEF DInv, TypeOK
<1>1. ASSUME NEW wr \in Writer, Inserts(wr)
      PROVE  InboxType' /\ InboxInv' /\ Gains
  <2>1. PICK events \in Seq(Event) : Insert(wr, events)
    <3>1. \A w \in Worker : dpc[w] = "found" => batch[w] \in Seq(Event)
      BY DEF DInv, ReconcileInv, ReconcileOf
    <3>2. owed \subseteq Event
      BY DEF DInv, TypeOK
    <3> QED BY <1>1, <3>1, <3>2, InsertedEvents DEF Inserts
  <2>2. inboxCursor' = inboxCursor /\ mode' = mode /\ happened' = happened /\ runs' = runs
    BY <1>1 DEF Inserts
  <2>3. /\ InboxType' /\ InboxInv'
        /\ Len(inbox) <= Len(inbox') /\ Stored' = Stored
        /\ \A s \in 1..Len(inbox) : inbox'[s] = inbox[s]
        /\ committed' = committed
    BY <1>0, <2>1, <2>2, InsertKeeps
  <2> QED BY <1>0, <2>2, <2>3 DEF Gains, InboxType
<1>2. ASSUME NEW wr \in Writer, Commits(wr)
      PROVE  InboxType' /\ InboxInv' /\ Gains
  <2>1. Commit(wr) /\ inboxCursor' = inboxCursor /\ mode' = mode /\ happened' = happened /\ runs' = runs
    BY <1>2 DEF Commits
  <2>2. /\ InboxType' /\ InboxInv'
        /\ inbox' = inbox /\ committed \subseteq committed'
        /\ \A s \in committed' : s \in committed \/ \A t \in committed : t < s
        /\ Stored \subseteq Stored'
    BY <1>0, <2>1, CommitKeeps
  <2> QED BY <1>0, <2>1, <2>2 DEF Gains, InboxType
<1>3. CASE RollsBack
  <2>1. /\ inboxCursor' = inboxCursor /\ mode' = mode /\ happened' = happened /\ runs' = runs
        /\ \E wrs : Rollback(wrs)
    BY <1>3 DEF RollsBack
  <2>2. InboxType' /\ InboxInv' /\ inbox' = inbox /\ committed' = committed /\ Stored' = Stored
    BY <1>0, <2>1, RollbackKeeps
  <2> QED BY <1>0, <2>1, <2>2 DEF Gains, InboxType
<1>4. ASSUME UNCHANGED <<inboxVars, inboxCursor>> PROVE InboxType' /\ InboxInv' /\ Stored' = Stored
  BY <1>0, <1>4 DEF InboxType, InboxInv, OneWriter, NumbersGrow, Covered, Distinct,
         OneRowPerEvent, CursorAtRow, Stored, Visible, ToSet
<1>5. CASE Elsewhere \/ UNCHANGED vars
  <2>1. UNCHANGED <<inboxVars, inboxCursor>>
    BY <1>5 DEF Elsewhere, vars
  <2>2. mode' = mode /\ happened' \in Nat /\ happened <= happened'
    BY <1>0, <1>5 DEF Elsewhere, vars, EventHappens, ProviderGivesUp, RunFails,
                      TryLock, OpenStream, LockIsLost
  <2>3. \A e \in Event : runs[e] # "none" => runs'[e] # "none"
    BY <1>0, <1>5 DEF Elsewhere, vars, EventHappens, ProviderGivesUp, RunFails,
                      TryLock, OpenStream, LockIsLost
  <2> QED BY <1>0, <1>4, <2>1, <2>2, <2>3 DEF Gains, InboxType
<1>6. CASE PruneInbox
  <2>1. PICK s \in Nat : s <= inboxCursor /\ pruned' = pruned \cup {s} /\ s \in Visible
    <3>1. Visible # {} /\ Visible \in SUBSET Nat
      BY <1>0, <1>6 DEF PruneInbox, Visible, InboxType
    <3>2. \E x \in Visible : \A y \in Visible : x <= y
      BY <3>1, LeastNumber
    <3>3. Min(Visible) \in Visible
      BY <3>2 DEF Min
    <3> QED BY <1>6, <3>1, <3>3 DEF PruneInbox
  <2>2. UNCHANGED <<mode, happened, runs, inbox, committed, writing, load, inboxCursor>>
    BY <1>6 DEF PruneInbox
  <2>3. InboxType'
    BY <1>0, <2>1, <2>2 DEF InboxType, Visible
  <2>4. Visible' \subseteq Visible /\ Stored' = Stored
    BY <2>1, <2>2 DEF Visible, Stored
  <2>5. OneWriter' /\ NumbersGrow' /\ Covered'
    BY <1>0, <2>2, <2>4 DEF InboxInv, OneWriter, NumbersGrow, Covered
  <2>6. Distinct'
    BY <1>0, <2>2, <2>4 DEF InboxInv, Distinct, OneRowPerEvent
  <2>7. CursorAtRow'
    BY <1>0, <2>1, <2>2 DEF InboxInv, CursorAtRow
  <2> QED BY <1>0, <2>2, <2>3, <2>4, <2>5, <2>6, <2>7 DEF Gains, InboxType, InboxInv
<1>7. ASSUME NEW w \in Worker, Dispatches(w)
      PROVE  InboxType' /\ InboxInv' /\ Gains
  <2>1. UNCHANGED <<inboxVars, mode, happened>>
    BY <1>7 DEF Dispatches
  <2>2. \A e \in Event : runs[e] # "none" => runs'[e] # "none"
    BY <1>0, <1>7 DEF Dispatches, DrainReads, Start, Advance, ReconcileReads, ReconcileAdvances,
               StartFails, AdvanceFails, StartRun
  <2>3. InboxType' /\ Stored' = Stored /\ Visible' = Visible
    BY <1>0, <2>1 DEF InboxType, Stored, Visible
  <2>4. OneWriter' /\ NumbersGrow' /\ Covered' /\ Distinct'
    BY <1>0, <2>1, <2>3 DEF InboxInv, OneWriter, NumbersGrow, Covered, Distinct, OneRowPerEvent
  <2>5. CursorAtRow'
    <3>1. CASE inboxCursor' = inboxCursor
      BY <1>0, <2>1, <3>1 DEF InboxInv, CursorAtRow
    <3>2. CASE inboxCursor' # inboxCursor
      <4>1. dpc[w] = "advance" /\ mode # "poll" /\ inboxCursor' = Forward(inboxCursor, Head(batch[w]))
        BY <1>7, <3>2 DEF Dispatches, DrainReads, Start, Advance, ReconcileReads,
               ReconcileAdvances, StartFails, AdvanceFails
      <4>2. Head(batch[w]) \in committed /\ Head(batch[w]) \in Nat
        BY <4>1, HeadOfBatch DEF Position
      <4>3. inboxCursor \in Nat /\ pruned \subseteq Nat
        BY <1>0 DEF InboxType, DInv, TypeOK
      <4> QED BY <1>0, <2>1, <4>1, <4>2, <4>3 DEF InboxInv, CursorAtRow, Forward
    <3> QED BY <3>1, <3>2
  <2> QED BY <1>0, <2>1, <2>2, <2>3, <2>4, <2>5 DEF Gains, InboxType, InboxInv
<1> QED BY <1>1, <1>2, <1>3, <1>5, <1>6, <1>7, StepKinds

\* What a step does to the cursors.
LEMMA CursorMoves ==
  ASSUME DInv, [Next]_vars
  PROVE  \/ UNCHANGED cursorVars
         \/ \E w \in Worker : UNCHANGED <<mode, happened, inbox, committed, runs>>
                              /\ (Advance(w) \/ ReconcileAdvances(w))
  BY StepKinds
  DEF Inserts, Commits, RollsBack, Dispatches, Elsewhere, PruneInbox, vars,
      cursorVars, DrainReads, Start, StartFails, AdvanceFails, ReconcileReads,
      Advance, ReconcileAdvances, sourceVars, inboxVars

\* What a step does to a worker's batch.
LEMMA BatchMoves ==
  ASSUME DInv, [Next]_vars, NEW w \in Worker
  PROVE  \/ dpc'[w] = dpc[w] /\ batch'[w] = batch[w]
         \/ /\ dpc'[w] = "idle" /\ batch'[w] = <<>>
            /\ \/ load'[Reconciler(w)] = <<>>
               \/ load' = load /\ dpc[w] # "found"
         \/ /\ DrainReads(w) \/ Start(w) \/ Advance(w) \/ ReconcileReads(w)
            /\ load' = load
         \/ /\ Commits(Reconciler(w)) /\ dpc'[w] = "stored" /\ batch'[w] = batch[w]
<1> USE DEF dispatchVars, sourceVars, inboxVars, streamVars
<1>0. dpc \in [Worker -> {"idle", "start", "advance", "found", "stored"}]
      /\ batch \in [Worker -> Seq(Nat \ {0})]
  BY DEF DInv, TypeOK, Shape
<1>1. ASSUME NEW wr \in Writer, Commits(wr)
      PROVE  \/ dpc'[w] = dpc[w] /\ batch'[w] = batch[w]
             \/ Commits(Reconciler(w)) /\ dpc'[w] = "stored" /\ batch'[w] = batch[w]
  BY <1>0, <1>1, WriterNames DEF Commits, Drain
<1>2. ASSUME NEW v \in Worker, Dispatches(v)
      PROVE  \/ dpc'[w] = dpc[w] /\ batch'[w] = batch[w]
             \/ dpc'[w] = "idle" /\ batch'[w] = <<>> /\ load' = load /\ dpc[w] # "found"
             \/ /\ DrainReads(w) \/ Start(w) \/ Advance(w) \/ ReconcileReads(w)
                /\ load' = load
  BY <1>0, <1>2 DEF Dispatches, DrainReads, Start, Advance, ReconcileReads,
         ReconcileAdvances, StartFails, AdvanceFails, Drain
<1>3. CASE RollsBack
  BY <1>0, <1>3, WriterNames DEF RollsBack, Rollback, Drain
<1>4. CASE PruneInbox \/ Elsewhere \/ UNCHANGED vars \/ \E wr \in Writer : Inserts(wr)
  BY <1>4 DEF PruneInbox, Elsewhere, vars, Inserts
<1> QED BY <1>1, <1>2, <1>3, <1>4, StepKinds

\* New positions lie behind all that there were, and the old ones keep their
\* events.
LEMMA PositionsGain ==
  ASSUME DInv, Gains, InboxType'
  PROVE  /\ Position \subseteq Position' /\ Position \subseteq Nat /\ Position' \subseteq Nat
         /\ Started \subseteq Started'
         /\ \A p \in Position' : p \in Position \/ \A q \in Position : q < p
<1>0. /\ happened \in Nat /\ happened <= MaxEvents /\ MaxEvents \in Nat
      /\ inbox \in Seq(Event) /\ committed \subseteq 1..Len(inbox) /\ Event = 1..MaxEvents
      /\ Len(inbox) \in Nat
  BY ConstantsAssumption DEF DInv, TypeOK, Event
<1>1. CASE mode = "poll"
  BY <1>0, <1>1 DEF Position, Started, EventAt, Gains
<1>2. CASE mode # "poll"
  <2>1. \A s \in committed : inbox[s] \in Event /\ s \in Nat
    BY <1>0
  <2>2. committed' \subseteq Nat
    BY DEF InboxType
  <2> QED BY <1>2, <2>1, <2>2 DEF Position, Started, EventAt, Gains
<1> QED BY <1>1, <1>2

\* SetCursor passes the head of a batch, before which everything was started.
LEMMA NextCursor ==
  ASSUME DInv, [Next]_vars
  PROVE  CursorInv'
<1>0. InboxType' /\ InboxInv' /\ Gains
  BY NextGains
<1>1. /\ happened \in Nat /\ happened <= MaxEvents /\ MaxEvents \in Nat
      /\ pollCursor \in 0..happened /\ inboxCursor \in 0..Len(inbox)
      /\ committed \subseteq 1..Len(inbox) /\ Len(inbox) \in Nat /\ Event = 1..MaxEvents
      /\ \A s \in committed : inbox[s] \in Event
  BY ConstantsAssumption DEF DInv, TypeOK, Event
<1>2. CASE UNCHANGED cursorVars
  <2>1. \A s \in committed' : s <= inboxCursor => s \in committed
    <3> SUFFICES ASSUME NEW s \in committed', s \notin committed PROVE ~(s <= inboxCursor)
      OBVIOUS
    <3>1. s \in Nat /\ s # 0 /\ \A t \in committed : t < s
      BY <1>0 DEF Gains, InboxType
    <3>2. inboxCursor \in committed \cup {0} /\ inboxCursor \in Nat
      BY <1>1 DEF DInv, InboxInv, CursorAtRow
    <3> QED BY <3>1, <3>2
  <2> QED BY <1>0, <1>1, <1>2, <2>1 DEF Gains, DInv, CursorInv, CursorBehindRuns, cursorVars
<1>3. ASSUME NEW w \in Worker, UNCHANGED <<mode, happened, inbox, committed, runs>>,
             Advance(w) \/ ReconcileAdvances(w)
      PROVE  CursorInv'
  <2>1. CASE ReconcileAdvances(w)
    <3>1. mode = "webhook" /\ inboxCursor' = inboxCursor
      BY <2>1 DEF ReconcileAdvances, DInv, ReconcileInv, ReconcileOf
    <3> QED BY <1>3, <3>1 DEF DInv, CursorInv, CursorBehindRuns
  <2>2. CASE Advance(w)
    <3>1. dpc[w] = "advance"
      BY <2>2 DEF Advance
    <3>2. /\ batch[w][1] \in Position /\ batch[w][1] \in Nat
          /\ Head(batch[w]) = batch[w][1]
          /\ \A p \in Position : p < batch[w][1] => p \in Started
          /\ batch[w][1] \in Started
      BY <3>1, HeadOfBatch DEF DInv, BatchInv, BatchOf
    <3>3. \A p \in Position : p \in Nat
      BY <1>1 DEF Position
    <3>4. \A p \in Position : p <= batch[w][1] => runs[EventAt(p)] # "none"
      BY <3>2, <3>3 DEF Started
    <3>5. CASE mode = "poll"
      <4>1. pollCursor' = Forward(pollCursor, batch[w][1]) /\ inboxCursor' = inboxCursor
        BY <2>2, <3>2, <3>5 DEF Advance
      <4>2. \A e \in 1..pollCursor' : runs[e] # "none"
        BY <1>1, <3>2, <3>4, <3>5, <4>1
        DEF Forward, Position, EventAt, DInv, CursorInv, CursorBehindRuns
      <4> QED BY <1>3, <3>5, <4>1, <4>2 DEF DInv, CursorInv, CursorBehindRuns
    <3>6. CASE mode # "poll"
      <4>1. inboxCursor' = Forward(inboxCursor, batch[w][1]) /\ pollCursor' = pollCursor
        BY <2>2, <3>2, <3>6 DEF Advance
      <4>2. \A s \in committed : s <= inboxCursor' => runs[inbox[s]] # "none"
        BY <3>4, <3>6, <4>1
        DEF Forward, Position, EventAt, DInv, CursorInv, CursorBehindRuns
      <4> QED BY <1>3, <3>6, <4>1, <4>2 DEF DInv, CursorInv, CursorBehindRuns
    <3> QED BY <3>5, <3>6
  <2> QED BY <1>3, <2>1, <2>2
<1> QED BY <1>2, <1>3, CursorMoves

\* A batch's order: what lies before an entry was started or is listed before.
InOrder(b, P, St) ==
  \A i \in 1..Len(b) :
    /\ b[i] \in P
    /\ \A p \in P : p < b[i] => p \in St \/ \E j \in 1..(i - 1) : b[j] = p

\* It survives new positions, which are greater, and new runs.
LEMMA InOrderGrows ==
  ASSUME NEW P \in SUBSET Nat, NEW P2 \in SUBSET Nat, NEW St, NEW St2, NEW b,
         P \subseteq P2, St \subseteq St2,
         \A p \in P2 : p \in P \/ \A q \in P : q < p,
         InOrder(b, P, St)
  PROVE  InOrder(b, P2, St2)
<1> SUFFICES ASSUME NEW i \in 1..Len(b)
             PROVE  /\ b[i] \in P2
                    /\ \A p \in P2 : p < b[i] =>
                         p \in St2 \/ \E j \in 1..(i - 1) : b[j] = p
  BY DEF InOrder
<1>1. /\ b[i] \in P
      /\ \A p \in P : p < b[i] => p \in St \/ \E j \in 1..(i - 1) : b[j] = p
  BY DEF InOrder
<1>2. ASSUME NEW p \in P2, p < b[i] PROVE p \in P
  <2>1. b[i] \in Nat /\ p \in Nat
    BY <1>1
  <2>2. ~(b[i] < p)
    BY <1>2, <2>1
  <2> QED BY <1>1, <2>2
<1> QED BY <1>1, <1>2

\* ... and the loss of its head, once that was started.
LEMMA InOrderTail ==
  ASSUME NEW P \in SUBSET Nat, NEW St, NEW b \in Seq(Nat \ {0}), b # <<>>, Len(b) # 1,
         b[1] \in St, InOrder(b, P, St)
  PROVE  Tail(b) # <<>> /\ InOrder(Tail(b), P, St)
<1> DEFINE n == Len(b)
           t == Tail(b)
<1>1. n \in Nat /\ n > 1
  <2>1. n \in Nat /\ n # 0 /\ n # 1
    BY EmptySeq
  <2> HIDE DEF n
  <2> QED BY <2>1
<1>2. t \in Seq(Nat \ {0}) /\ Len(t) = n - 1 /\ \A i \in 1..(n - 1) : t[i] = b[i + 1]
  BY HeadTailProperties
<1> HIDE DEF n, t
<1>3. t # <<>>
  BY <1>1, <1>2
<1>4. ASSUME NEW i \in 1..(n - 1)
      PROVE  /\ t[i] \in P
             /\ \A p \in P : p < t[i] => p \in St \/ \E j \in 1..(i - 1) : t[j] = p
  <2>1. i + 1 \in 1..n /\ (i + 1) - 1 = i /\ t[i] = b[i + 1]
    BY <1>1, <1>2
  <2>2. /\ b[i + 1] \in P
        /\ \A p \in P : p < b[i + 1] =>
             p \in St \/ \E j \in 1..((i + 1) - 1) : b[j] = p
    BY <2>1 DEF InOrder, n
  <2>3. ASSUME NEW p \in P, p < b[i + 1], p \notin St
        PROVE  \E j \in 1..(i - 1) : t[j] = p
    <3>1. PICK j \in 1..i : b[j] = p
      BY <2>1, <2>2, <2>3
    <3>2. j # 1
      BY <2>3, <3>1
    <3>3. j - 1 \in 1..(i - 1) /\ j - 1 \in 1..(n - 1) /\ (j - 1) + 1 = j
      BY <1>1, <3>1, <3>2
    <3>4. t[j - 1] = p
      BY <1>2, <3>1, <3>3
    <3> QED BY <3>3, <3>4
  <2> QED BY <2>1, <2>2, <2>3
<1> QED BY <1>2, <1>3, <1>4 DEF InOrder, t

\* A batch is read behind the cursor, and worked off from its head.
LEMMA NextBatch ==
  ASSUME DInv, [Next]_vars
  PROVE  BatchInv'
<1> SUFFICES ASSUME NEW w \in Worker PROVE BatchOf(w)'
  BY DEF BatchInv
<1>1. /\ Position \subseteq Position' /\ Position \subseteq Nat /\ Position' \subseteq Nat
      /\ Started \subseteq Started'
      /\ \A p \in Position' : p \in Position \/ \A q \in Position : q < p
  BY NextGains, PositionsGain
<1>2. BatchOf(w)
  BY DEF DInv, BatchInv
<1>3. CASE dpc'[w] = dpc[w] /\ batch'[w] = batch[w]
  <2>1. ASSUME dpc[w] \in {"start", "advance"} PROVE InOrder(batch[w], Position', Started')
    <3>1. InOrder(batch[w], Position, Started)
      BY <1>2, <2>1 DEF BatchOf, InOrder
    <3> QED BY <1>1, <3>1, InOrderGrows
  <2>2. dpc'[w] = "advance" => batch'[w][1] \in Started'
    BY <1>1, <1>2, <1>3 DEF BatchOf
  <2> QED BY <1>2, <1>3, <2>1, <2>2 DEF BatchOf, InOrder
<1>4. CASE dpc'[w] = "idle"
  BY <1>4 DEF BatchOf
<1>5. CASE DrainReads(w)
  <2> DEFINE S == IF mode = "poll" THEN pollCursor + 1..happened
                  ELSE {s \in Visible : s > inboxCursor}
             f == FirstOf(S)
  <2>1. /\ f # <<>> /\ batch'[w] = f /\ dpc'[w] = "start"
        /\ UNCHANGED <<runs, mode, happened, inbox, committed>>
    BY <1>5 DEF DrainReads, Drain, DInv, TypeOK, Shape, sourceVars, inboxVars
  <2>2. /\ S \in SUBSET Nat /\ IsFiniteSet(S) /\ S \subseteq Position
        /\ \A p \in Position : p \in S \cup Started
    <3>0. /\ happened \in Nat /\ pollCursor \in Nat /\ Len(inbox) \in Nat
          /\ committed \subseteq 1..Len(inbox) /\ inboxCursor \in Nat
      BY DEF DInv, TypeOK
    <3>1. CASE mode = "poll"
      <4>1. \A e \in 1..pollCursor : runs[e] # "none"
        BY <3>1 DEF DInv, CursorInv, CursorBehindRuns
      <4> QED BY <3>0, <3>1, <4>1, FS_Interval DEF Position, Started, EventAt
    <3>2. CASE mode # "poll"
      <4>1. IsFiniteSet(1..Len(inbox)) /\ S \subseteq committed
        BY <3>0, <3>2, FS_Interval DEF Visible
      <4>2. IsFiniteSet(S)
        BY <3>0, <4>1, FS_Subset
      <4>3. \A s \in committed : s \notin S => s <= inboxCursor
        BY <3>0, <3>2 DEF Visible, DInv, InboxInv, CursorAtRow
      <4>4. \A s \in committed : s \notin S => s \in Started
        BY <3>2, <4>3 DEF Position, Started, EventAt, DInv, CursorInv, CursorBehindRuns
      <4>5. Position = committed /\ committed \subseteq Nat
        BY <3>0, <3>2 DEF Position
      <4> HIDE DEF S
      <4> QED BY <4>1, <4>2, <4>4, <4>5
    <3> QED BY <3>1, <3>2
  <2> HIDE DEF S
  <2>3. /\ f \in Seq(S) /\ Len(f) \in Nat
        /\ \A i \in 1..Len(f) : f[i] \in S
        /\ \A i \in 1..Len(f), x \in S : x <= f[i] => \E j \in 1..i : f[j] = x
    BY <2>2, FirstOfLists
  <2> HIDE DEF f
  <2>4. Position' = Position /\ Started' = Started
    BY <2>1 DEF Position, Started, EventAt
  <2>5. ASSUME NEW i \in 1..Len(f), NEW p \in Position, p < f[i], p \notin Started
        PROVE  \E j \in 1..(i - 1) : f[j] = p
    <3>1. p \in S /\ p \in Nat /\ f[i] \in Nat
      BY <2>2, <2>3, <2>5
    <3>2. p <= f[i]
      BY <2>5, <3>1
    <3>3. PICK j \in 1..i : f[j] = p
      BY <2>3, <3>1, <3>2
    <3>4. j # i
      BY <2>5, <3>1, <3>3
    <3> QED BY <2>3, <3>3, <3>4
  <2>6. \A i \in 1..Len(f) : f[i] \in Position
    BY <2>2, <2>3
  <2> QED BY <2>1, <2>4, <2>5, <2>6 DEF BatchOf
<1>6. CASE Start(w)
  <2>1. /\ dpc[w] = "start" /\ dpc'[w] = "advance" /\ batch'[w] = batch[w]
        /\ runs' = [runs EXCEPT ![EventAt(Head(batch[w]))] = "started"]
        /\ UNCHANGED <<mode, happened, inbox, committed>>
    BY <1>6 DEF Start, StartRun, Drain, DInv, TypeOK, Shape, sourceVars, inboxVars
  <2>2. /\ batch[w] # <<>> /\ Head(batch[w]) = batch[w][1] /\ batch[w][1] \in Position
        /\ EventAt(batch[w][1]) \in Event
    BY <2>1, HeadOfBatch, <1>2 DEF BatchOf
  <2>3. Position' = Position
    BY <2>1 DEF Position
  <2>4. batch[w][1] \in Started'
    BY <2>1, <2>2, <2>3 DEF DInv, TypeOK, Started, EventAt
  <2> QED BY <1>1, <1>2, <2>1, <2>2, <2>3, <2>4 DEF BatchOf
<1>7. CASE Advance(w) /\ dpc'[w] # "idle"
  <2>1. /\ dpc[w] = "advance" /\ dpc'[w] = "start" /\ Len(batch[w]) # 1
        /\ batch'[w] = Tail(batch[w])
        /\ UNCHANGED <<runs, mode, happened, inbox, committed>>
    BY <1>7 DEF Advance, Drain, DInv, TypeOK, Shape, sourceVars, inboxVars
  <2>2. Position' = Position /\ Started' = Started
    BY <2>1 DEF Position, Started, EventAt
  <2>3. /\ batch[w] \in Seq(Nat \ {0}) /\ batch[w] # <<>>
        /\ batch[w][1] \in Started /\ InOrder(batch[w], Position, Started)
    BY <1>2, <2>1, HeadOfBatch DEF BatchOf, InOrder
  <2>4. Tail(batch[w]) # <<>> /\ InOrder(Tail(batch[w]), Position, Started)
    BY <1>1, <2>1, <2>3, InOrderTail
  <2> QED BY <2>1, <2>2, <2>4 DEF BatchOf, InOrder
<1>8. CASE ReconcileReads(w)
  <2>1. dpc'[w] = "found" /\ batch'[w] # <<>>
    BY <1>8, InsertedEvents DEF ReconcileReads, Drain, DInv, TypeOK, Shape
  <2> QED BY <2>1 DEF BatchOf
<1>9. CASE dpc'[w] = "stored" /\ batch'[w] = batch[w] /\ Commits(Reconciler(w))
  <2>1. load[Reconciler(w)] # <<>>
    BY <1>9 DEF Commits, Commit
  <2>2. dpc[w] = "found"
    BY <2>1 DEF DInv, ReconcileInv, ReconcileOf
  <2> QED BY <1>2, <1>9, <2>2 DEF BatchOf
<1> QED BY <1>3, <1>4, <1>5, <1>6, <1>7, <1>8, <1>9, BatchMoves

\* What a step does to the transactions of a worker.
LEMMA LoadMoves ==
  ASSUME DInv, [Next]_vars, NEW w \in Worker
  PROVE  /\ \/ load'[Reconciler(w)] \in {load[Reconciler(w)], <<>>}
            \/ /\ dpc[w] = "found" /\ load'[Reconciler(w)] = batch[w]
               /\ UNCHANGED dispatchVars
         /\ \/ load'[Subscription(w)] \in {load[Subscription(w)], <<>>}
            \/ /\ spc[w] = "open" /\ spos[w] < happened
               /\ UNCHANGED <<spc, spos, happened>>
               /\ load'[Subscription(w)] = FirstOf(spos[w] + 1..happened)
<1>0. load \in [Writer -> Seq(Event)] /\ Reconciler(w) \in Writer /\ Subscription(w) \in Writer
  BY WriterNames DEF DInv, Shape
<1>1. ASSUME NEW wr \in Writer, Inserts(wr) PROVE
         /\ \/ load'[Reconciler(w)] \in {load[Reconciler(w)], <<>>}
            \/ /\ dpc[w] = "found" /\ load'[Reconciler(w)] = batch[w]
               /\ UNCHANGED dispatchVars
         /\ \/ load'[Subscription(w)] \in {load[Subscription(w)], <<>>}
            \/ /\ spc[w] = "open" /\ spos[w] < happened
               /\ UNCHANGED <<spc, spos, happened>>
               /\ load'[Subscription(w)] = FirstOf(spos[w] + 1..happened)
  <2>2. \A v \in Writer : v # wr => load'[v] = load[v]
    BY <1>0, <1>1 DEF Inserts, Insert
  <2>3. wr = Reconciler(w) => /\ dpc[w] = "found" /\ load'[wr] = batch[w]
                              /\ UNCHANGED dispatchVars
    BY <1>0, <1>1, WriterNames DEF Inserts, Insert
  <2>4. wr = Subscription(w) => /\ spc[w] = "open" /\ spos[w] < happened
                                /\ UNCHANGED <<spc, spos, happened>>
                                /\ load'[wr] = FirstOf(spos[w] + 1..happened)
    BY <1>0, <1>1, WriterNames DEF Inserts, Insert, streamVars, sourceVars
  <2> QED BY <1>0, <2>2, <2>3, <2>4
<1>2. ASSUME NEW wr \in Writer, Commits(wr) PROVE
         /\ load'[Reconciler(w)] \in {load[Reconciler(w)], <<>>}
         /\ load'[Subscription(w)] \in {load[Subscription(w)], <<>>}
  BY <1>0, <1>2 DEF Commits, Commit
<1>3. CASE RollsBack
  BY <1>0, <1>3 DEF RollsBack, Rollback
<1>4. CASE PruneInbox \/ Elsewhere \/ UNCHANGED vars \/ \E v \in Worker : Dispatches(v)
  BY <1>4 DEF PruneInbox, Elsewhere, vars, Dispatches, inboxVars
<1> QED BY <1>1, <1>2, <1>3, <1>4, StepKinds

\* The polled cursor only moves forward, and by a reconciliation only past
\* what it stored.
LEMMA PollCursorMoves ==
  ASSUME DInv, [Next]_vars
  PROVE  /\ pollCursor' \in Nat /\ pollCursor <= pollCursor' /\ pollCursor' <= happened
         /\ \/ pollCursor' = pollCursor
            \/ mode = "poll"
            \/ \E w \in Worker : /\ dpc[w] = "stored" /\ pollCursor' = Last(batch[w])
<1>1. pollCursor \in Nat /\ pollCursor <= happened /\ happened \in Nat
  BY DEF DInv, TypeOK
<1>2. ASSUME NEW w \in Worker, Advance(w)
      PROVE  \/ pollCursor' = pollCursor
             \/ /\ mode = "poll" /\ Head(batch[w]) \in 1..happened
                /\ pollCursor' = Forward(pollCursor, Head(batch[w]))
  <2>1. CASE mode = "poll"
    <3>1. Head(batch[w]) \in 1..happened
      BY <1>2, <2>1, HeadOfBatch DEF Advance, Position
    <3> QED BY <1>2, <2>1, <3>1 DEF Advance
  <2>2. CASE mode # "poll"
    BY <1>2, <2>2 DEF Advance
  <2> QED BY <2>1, <2>2
<1>3. ASSUME NEW w \in Worker, ReconcileAdvances(w)
      PROVE  /\ dpc[w] = "stored" /\ Last(batch[w]) \in 1..happened
             /\ pollCursor' = Forward(pollCursor, Last(batch[w]))
  BY <1>3 DEF ReconcileAdvances, DInv, ReconcileInv, ReconcileOf, Reaches, UpTo
<1>4. CASE UNCHANGED cursorVars
  BY <1>1, <1>4 DEF cursorVars
<1> QED BY <1>1, <1>2, <1>3, <1>4, CursorMoves DEF Forward

\* A batch reaches as far as it did when positions and events have moved on.
LEMMA UpToGrows ==
  ASSUME NEW s, NEW from \in Nat, NEW to \in Nat, from <= to,
         NEW limit \in Nat, NEW next \in Nat, limit <= next, UpTo(s, from, limit)
  PROVE  UpTo(s, to, next)
<1>1. Last(s) \in 1..limit /\ \A e \in 1..Last(s) : e <= from \/ e \in ToSet(s)
  BY DEF UpTo
<1>2. Last(s) \in 1..next
  BY <1>1
<1>3. ASSUME NEW e \in 1..Last(s) PROVE e <= to \/ e \in ToSet(s)
  <2>1. e \in Nat /\ (e <= from \/ e \in ToSet(s))
    BY <1>1
  <2> QED BY <2>1
<1> QED BY <1>2, <1>3 DEF UpTo

\* What a reconciliation found stays what lies behind the cursor.
LEMMA NextReconcile ==
  ASSUME DInv, [Next]_vars
  PROVE  ReconcileInv'
<1> SUFFICES ASSUME NEW w \in Worker PROVE ReconcileOf(w)'
  BY DEF ReconcileInv
<1>1. ReconcileOf(w) /\ Reconciler(w) \in Writer
  BY WriterNames DEF DInv, ReconcileInv
<1>2. /\ mode' = mode /\ Stored \subseteq Stored' /\ happened \in Nat /\ happened' \in Nat
      /\ happened <= happened' /\ pollCursor \in Nat /\ pollCursor' \in Nat
      /\ pollCursor <= pollCursor'
  <2>1. Gains
    BY NextGains
  <2>2. pollCursor' \in Nat /\ pollCursor <= pollCursor'
    BY PollCursorMoves
  <2>3. happened \in Nat /\ pollCursor \in Nat
    BY DEF DInv, TypeOK
  <2> QED BY <2>1, <2>2, <2>3 DEF Gains
<1>3. ASSUME NEW s, Reaches(s, pollCursor) PROVE UpTo(s, pollCursor', happened')
  BY <1>2, <1>3, UpToGrows DEF Reaches
<1>4. CASE dpc'[w] = dpc[w] /\ batch'[w] = batch[w]
  <2>1. load'[Reconciler(w)] # <<>> => dpc'[w] = "found" /\ load'[Reconciler(w)] = batch'[w]
    BY <1>1, <1>4, LoadMoves DEF ReconcileOf
  <2>2. dpc[w] \in {"found", "stored"} => UpTo(batch[w], pollCursor', happened')
    BY <1>1, <1>3 DEF ReconcileOf
  <2> QED BY <1>1, <1>2, <1>4, <2>1, <2>2 DEF ReconcileOf, Reaches
<1>5. CASE /\ dpc'[w] = "idle" /\ batch'[w] = <<>>
           /\ load'[Reconciler(w)] = <<>> \/ (load' = load /\ dpc[w] # "found")
  BY <1>1, <1>5 DEF ReconcileOf
<1>6. CASE /\ DrainReads(w) \/ Start(w) \/ Advance(w)
           /\ load' = load
  <2>1. dpc[w] \in {"idle", "start", "advance"} /\ dpc'[w] \in {"idle", "start", "advance"}
    BY <1>6 DEF DrainReads, Start, Advance, Drain, DInv, TypeOK
  <2> QED BY <1>1, <1>6, <2>1 DEF ReconcileOf
<1>7. CASE ReconcileReads(w) /\ load' = load
  <2>1. /\ dpc[w] = "idle" /\ dpc'[w] = "found" /\ mode' = "webhook"
        /\ batch'[w] = FirstOf(pollCursor + 1..happened) /\ pollCursor' = pollCursor
        /\ happened' = happened /\ pollCursor < happened
    BY <1>7 DEF ReconcileReads, Drain, DInv, TypeOK, Shape, cursorVars, sourceVars
  <2>2. /\ batch'[w] \in Seq(Event) /\ Reaches(batch'[w], pollCursor)
    BY <2>1, InsertedEvents
  <2> QED BY <1>1, <1>7, <2>1, <2>2 DEF ReconcileOf, Reaches
<1>8. CASE Commits(Reconciler(w)) /\ dpc'[w] = "stored" /\ batch'[w] = batch[w]
  <2>1. Commit(Reconciler(w)) /\ load[Reconciler(w)] # <<>> /\ inboxCursor' = inboxCursor
    BY <1>8 DEF Commits, Commit, cursorVars
  <2>2. dpc[w] = "found" /\ load[Reconciler(w)] = batch[w]
    BY <1>1, <2>1 DEF ReconcileOf
  <2>3. ToSet(load[Reconciler(w)]) \subseteq Stored' /\ load' = [load EXCEPT ![Reconciler(w)] = <<>>]
    BY <1>1, <2>1, CommitKeeps, DInvTypes DEF DInv
  <2>4. load'[Reconciler(w)] = <<>>
    BY <1>1, <2>3 DEF DInv, Shape
  <2>5. /\ mode = "webhook" /\ batch[w] \in Seq(Event) /\ UpTo(batch[w], pollCursor', happened')
    BY <1>1, <1>3, <2>2 DEF ReconcileOf
  <2> QED BY <1>2, <1>8, <2>2, <2>3, <2>4, <2>5 DEF ReconcileOf, Reaches
<1> QED BY <1>4, <1>5, <1>6, <1>7, <1>8, BatchMoves

\* What a step does to a subscription.
LEMMA StreamMoves ==
  ASSUME DInv, [Next]_vars, NEW w \in Worker
  PROVE  \/ spos'[w] = spos[w] /\ spc'[w] = spc[w]
         \/ spos'[w] = spos[w] /\ spc[w] = "standby"
         \/ spos'[w] = spos[w] /\ load'[Subscription(w)] = <<>>
         \/ spos'[w] = resume /\ spc[w] = "locked" /\ load' = load
         \/ Commits(Subscription(w)) /\ spos'[w] = Last(load[Subscription(w)])
<1>0. /\ Subscription(w) \in Writer
      /\ spc \in [Worker -> {"standby", "locked", "open"}] /\ spos \in [Worker -> 0..happened]
  BY WriterNames DEF DInv, TypeOK
<1>1. ASSUME NEW wr \in Writer, Commits(wr)
      PROVE  \/ spos'[w] = spos[w] /\ spc'[w] = spc[w]
             \/ Commits(Subscription(w)) /\ spos'[w] = Last(load[Subscription(w)])
  BY <1>0, <1>1 DEF Commits
<1>2. CASE RollsBack
  BY <1>0, <1>2 DEF RollsBack, Rollback
<1>3. CASE PruneInbox \/ UNCHANGED vars \/ (\E v \in Worker : Dispatches(v))
           \/ \E wr \in Writer : Inserts(wr)
  BY <1>3 DEF PruneInbox, vars, Dispatches, Inserts, streamVars
<1>4. CASE Elsewhere
  BY <1>0, <1>4 DEF Elsewhere, EventHappens, ProviderGivesUp, RunFails, TryLock,
                    OpenStream, LockIsLost, streamVars, inboxVars
<1> QED BY <1>1, <1>2, <1>3, <1>4, StepKinds

\* What a transaction of a subscription commits reaches its last event.
LEMMA StoresUpTo ==
  ASSUME DInv, NEW w \in Worker, Commits(Subscription(w))
  PROVE  /\ Last(load[Subscription(w)]) \in 1..happened
         /\ 1..Last(load[Subscription(w)]) \subseteq Stored'
<1>1. Commit(Subscription(w)) /\ load[Subscription(w)] # <<>> /\ inboxCursor' = inboxCursor
  BY DEF Commits, Commit, cursorVars
<1>2. Stored \subseteq Stored' /\ ToSet(load[Subscription(w)]) \subseteq Stored'
  BY <1>1, CommitKeeps, DInvTypes, WriterNames DEF DInv
<1>3. 1..spos[w] \subseteq Stored /\ Reaches(load[Subscription(w)], spos[w])
  BY <1>1 DEF DInv, StreamInv, StreamOf
<1>4. spos[w] \in Nat /\ happened \in Nat
  BY DEF DInv, TypeOK
<1>5. /\ Last(load[Subscription(w)]) \in 1..happened
      /\ \A e \in 1..Last(load[Subscription(w)]) :
           e <= spos[w] \/ e \in ToSet(load[Subscription(w)])
  BY <1>3 DEF Reaches, UpTo
<1>6. \A e \in 1..Last(load[Subscription(w)]) : e <= spos[w] => e \in 1..spos[w]
  BY <1>4, <1>5
<1> QED BY <1>2, <1>3, <1>5, <1>6

\* A subscription opens at a stored position and moves to the end of what it
\* stored.
LEMMA NextStream ==
  ASSUME DInv, [Next]_vars
  PROVE  StreamInv'
<1> SUFFICES ASSUME NEW w \in Worker PROVE StreamOf(w)'
  BY DEF StreamInv
<1>1. StreamOf(w) /\ Subscription(w) \in Writer
  BY WriterNames DEF DInv, StreamInv
<1>2. /\ Stored \subseteq Stored' /\ happened \in Nat /\ happened' \in Nat
      /\ happened <= happened' /\ spos[w] \in Nat
  BY NextGains DEF Gains, DInv, TypeOK
<1>3. CASE load'[Subscription(w)] \notin {load[Subscription(w)], <<>>}
  <2>1. /\ spc[w] = "open" /\ spos[w] < happened
        /\ UNCHANGED <<spc, spos, happened>>
        /\ load'[Subscription(w)] = FirstOf(spos[w] + 1..happened)
    BY <1>3, LoadMoves
  <2>2. Reaches(FirstOf(spos[w] + 1..happened), spos[w])
    BY <2>1, InsertedEvents
  <2> QED BY <1>1, <1>2, <2>1, <2>2 DEF StreamOf, Reaches
<1>4. CASE load'[Subscription(w)] = <<>>
  <2>1. CASE spos'[w] = spos[w]
    BY <1>1, <1>2, <1>4, <2>1 DEF StreamOf
  <2>2. CASE spos'[w] = resume
    BY <1>2, <1>4, <2>2 DEF StreamOf, DInv, NothingForgotten
  <2>3. CASE Commits(Subscription(w)) /\ spos'[w] = Last(load[Subscription(w)])
    BY <1>4, <2>3, StoresUpTo DEF StreamOf
  <2> QED BY <2>1, <2>2, <2>3, StreamMoves
<1>5. CASE load'[Subscription(w)] = load[Subscription(w)] /\ load[Subscription(w)] # <<>>
  <2>1. spc[w] = "open" /\ UpTo(load[Subscription(w)], spos[w], happened)
    BY <1>1, <1>5 DEF StreamOf, Reaches
  <2>2. ~Commits(Subscription(w))
    BY <1>1, <1>5 DEF Commits, Commit, DInv, Shape
  <2>3. spos'[w] = spos[w] /\ spc'[w] = "open"
    BY <1>5, <2>1, <2>2, StreamMoves
  <2>4. UpTo(load[Subscription(w)], spos[w], happened')
    BY <1>2, <2>1, UpToGrows
  <2> QED BY <1>1, <1>2, <1>5, <2>3, <2>4 DEF StreamOf, Reaches
<1> QED BY <1>3, <1>4, <1>5

\* What the source is told it need not send again was committed.
LEMMA NextForgotten ==
  ASSUME DInv, [Next]_vars
  PROVE  NothingForgotten'
<1>1. Stored \subseteq Stored' /\ mode' = mode
  BY NextGains DEF Gains
<1>2. acked' \subseteq Stored' /\ 1..resume' \subseteq Stored'
  <2>0. acked \subseteq Stored /\ 1..resume \subseteq Stored
    BY DEF DInv, NothingForgotten
  <2>1. CASE acked' = acked /\ resume' = resume
    BY <1>1, <2>0, <2>1
  <2>2. ASSUME NEW wr \in Writer, Commits(wr)
        PROVE  acked' \subseteq Stored' /\ 1..resume' \subseteq Stored'
    <3>1. Commit(wr) /\ inboxCursor' = inboxCursor
      BY <2>2 DEF Commits, cursorVars
    <3>2. ToSet(load[wr]) \subseteq Stored'
      BY <3>1, CommitKeeps, DInvTypes DEF DInv
    <3>3. acked' \subseteq Stored'
      BY <1>1, <2>0, <2>2, <3>2 DEF Commits
    <3>4. resume' = resume \/ \E w \in Worker :
                 wr = Subscription(w) /\ resume' = Last(load[Subscription(w)])
      BY <2>2 DEF Commits
    <3>5. 1..resume' \subseteq Stored'
      BY <1>1, <2>0, <2>2, <3>4, StoresUpTo
    <3> QED BY <3>3, <3>5
  <2>3. CASE ~\E wr \in Writer : Commits(wr)
    <3>1. acked' = acked /\ resume' = resume
      BY <2>3, StepKinds
      DEF Inserts, RollsBack, Dispatches, PruneInbox, Elsewhere, vars, sourceVars, streamVars
    <3> QED BY <2>1, <3>1
  <2> QED BY <2>2, <2>3
<1>3. ASSUME mode = "webhook" PROVE 1..pollCursor' \subseteq Stored'
  <2>1. 1..pollCursor \subseteq Stored /\ pollCursor \in Nat
    BY <1>3 DEF DInv, NothingForgotten, TypeOK
  <2>2. CASE pollCursor' = pollCursor
    BY <1>1, <2>1, <2>2
  <2>3. ASSUME NEW w \in Worker, dpc[w] = "stored", pollCursor' = Last(batch[w])
        PROVE  1..pollCursor' \subseteq Stored'
    <3>1. UpTo(batch[w], pollCursor, happened) /\ ToSet(batch[w]) \subseteq Stored
      BY <2>3 DEF DInv, ReconcileInv, ReconcileOf, Reaches
    <3>2. \A e \in 1..Last(batch[w]) : e <= pollCursor => e \in 1..pollCursor
      BY <2>1, <3>1 DEF UpTo
    <3> QED BY <1>1, <2>1, <2>3, <3>1, <3>2 DEF UpTo
  <2> QED BY <1>3, <2>2, <2>3, PollCursorMoves
<1> QED BY <1>1, <1>2, <1>3 DEF NothingForgotten

\* The values keep their types.
LEMMA NextType ==
  ASSUME DInv, [Next]_vars
  PROVE  TypeOK' /\ Shape'
<1> USE DEF sourceVars, cursorVars, streamVars, dispatchVars, inboxVars
<1>0. TypeOK /\ Shape /\ Event = 1..MaxEvents /\ MaxEvents \in Nat /\ MaxFaults \in Nat
  BY ConstantsAssumption DEF DInv, Event
<1>1. InboxType' /\ InboxInv' /\ Gains
  BY NextGains
<1>2. happened' \in 0..MaxEvents /\ faults' \in 0..MaxFaults /\ mode' \in Mode
  <2>1. happened' \in 0..MaxEvents
    <3>1. CASE EventHappens
      BY <1>0, <3>1 DEF EventHappens, TypeOK
    <3>2. CASE ~EventHappens
      <4>1. happened' = happened
        BY <3>2, StepKinds
        DEF Inserts, Commits, RollsBack, Dispatches, PruneInbox, Elsewhere, vars,
            ProviderGivesUp, RunFails, TryLock, OpenStream, LockIsLost
      <4> QED BY <1>0, <4>1 DEF TypeOK
    <3> QED BY <3>1, <3>2
  <2>2. Fault \/ UNCHANGED faults
    <3>1. ASSUME NEW w \in Worker, Dispatch(w) \/ Subscribe(w) PROVE UNCHANGED faults
      BY <3>1 DEF Dispatch, Subscribe, DrainReads, Start, Advance, ReconcileReads,
           ReconcileInserts, ReconcileStores, ReconcileAdvances, TryLock, OpenStream,
           StreamReceives, StreamStores
    <3>2. ASSUME NEW w \in Worker,
                 \/ StartFails(w) \/ AdvanceFails(w) \/ ReconcileFails(w)
                 \/ StreamEnds(w) \/ LockIsLost(w) \/ Crash(w)
          PROVE  Fault
      BY <3>2 DEF StartFails, AdvanceFails, ReconcileFails, StreamEnds, LockIsLost, Crash
    <3>3. CASE \/ EventHappens \/ PruneInbox \/ HookFails \/ HookStores \/ HookStoresUnheard
               \/ UNCHANGED vars
               \/ \E e \in Event : ProviderGivesUp(e) \/ RunFails(e) \/ HookReceives(e)
      BY <3>3 DEF EventHappens, PruneInbox, HookFails, HookStores, HookStoresUnheard, vars,
                  ProviderGivesUp, RunFails, HookReceives
    <3> QED BY <3>1, <3>2, <3>3 DEF Next
  <2>3. faults' \in 0..MaxFaults
    BY <1>0, <2>2 DEF TypeOK, Fault
  <2> QED BY <1>0, <1>1, <2>1, <2>3 DEF Gains, TypeOK
<1>3. owed' \subseteq 1..happened' /\ owed' \subseteq Event /\ acked' \subseteq Event
  <2>1. owed' \subseteq 1..happened'
    <3>1. CASE EventHappens
      BY <1>0, <3>1 DEF EventHappens, Shape, TypeOK
    <3>2. CASE ~EventHappens
      <4>1. owed' \subseteq owed
        BY <3>2, StepKinds
        DEF Inserts, Commits, RollsBack, Dispatches, PruneInbox, Elsewhere, vars,
            ProviderGivesUp, RunFails, TryLock, OpenStream, LockIsLost
      <4> QED BY <1>0, <1>1, <4>1 DEF Shape, Gains, TypeOK
    <3> QED BY <3>1, <3>2
  <2>2. acked' \subseteq Stored' /\ Stored' \subseteq Event
    BY <1>1, NextForgotten DEF NothingForgotten, Stored, InboxType
  <2> QED BY <1>0, <1>2, <2>1, <2>2
<1>4. pollCursor' \in 0..happened' /\ inboxCursor' \in 0..Len(inbox')
  <2>1. pollCursor' \in 0..happened'
    BY <1>0, <1>1, PollCursorMoves DEF Gains, TypeOK
  <2>2. inboxCursor' \in committed' \cup {0} /\ committed' \subseteq 1..Len(inbox')
    BY <1>1 DEF InboxInv, CursorAtRow, InboxType
  <2> QED BY <1>1, <2>1, <2>2 DEF InboxType
<1>5. resume' \in 0..happened' /\ spos' \in [Worker -> 0..happened']
  <2>0. /\ happened \in Nat /\ happened' \in Nat /\ happened <= happened'
        /\ resume \in 0..happened /\ spos \in [Worker -> 0..happened]
        /\ 0..happened \subseteq 0..happened'
    BY <1>0, <1>1 DEF TypeOK, Gains
  <2>1. ASSUME NEW w \in Worker, Commits(Subscription(w))
        PROVE  Last(load[Subscription(w)]) \in 0..happened
    BY <2>0, <2>1, StoresUpTo
  <2>2. resume' \in 0..happened
    <3>1. CASE resume' = resume
      BY <2>0, <3>1
    <3>2. CASE resume' # resume
      <4>1. PICK w \in Worker : /\ Commits(Subscription(w))
                                /\ resume' = Last(load[Subscription(w)])
        BY <3>2, StepKinds
        DEF Inserts, Commits, RollsBack, Dispatches, PruneInbox, Elsewhere, vars
      <4> QED BY <2>1, <4>1
    <3> QED BY <3>1, <3>2
  <2>3. spos' \in [Worker -> 0..happened]
    <3>1. CASE UNCHANGED spos
      BY <2>0, <3>1
    <3>2. CASE \E w \in Worker : spos' = [spos EXCEPT ![w] = resume]
      BY <2>0, <3>2
    <3>3. ASSUME NEW w \in Worker, Commits(Subscription(w)),
                 spos' = [spos EXCEPT ![w] = Last(load[Subscription(w)])]
          PROVE  spos' \in [Worker -> 0..happened]
      BY <2>0, <2>1, <3>3
    <3> QED BY <3>1, <3>2, <3>3, StepKinds
        DEF Inserts, Commits, RollsBack, Dispatches, PruneInbox, Elsewhere, vars,
            EventHappens, ProviderGivesUp, RunFails, TryLock, OpenStream, LockIsLost
  <2>4. [Worker -> 0..happened] \subseteq [Worker -> 0..happened']
    BY <2>0
  <2> QED BY <2>0, <2>2, <2>3, <2>4
<1>6. /\ lock' \in Worker \cup {None} /\ spc' \in [Worker -> {"standby", "locked", "open"}]
  <2>1. lock \in Worker \cup {None} /\ spc \in [Worker -> {"standby", "locked", "open"}]
    BY <1>0 DEF TypeOK
  <2> QED BY <2>1, StepKinds
        DEF Inserts, Commits, RollsBack, Dispatches, PruneInbox, Elsewhere, vars,
            EventHappens, ProviderGivesUp, RunFails, TryLock, OpenStream, LockIsLost
<1>7. runs' \in [Event -> {"none", "started", "failed"}]
  <2>1. runs \in [Event -> {"none", "started", "failed"}]
    BY <1>0 DEF TypeOK
  <2> QED BY <2>1, StepKinds
        DEF Inserts, Commits, RollsBack, Dispatches, PruneInbox, Elsewhere, vars,
            EventHappens, ProviderGivesUp, RunFails, TryLock, OpenStream, LockIsLost,
            DrainReads, Start, StartFails, StartRun, Advance, AdvanceFails,
            ReconcileReads, ReconcileAdvances
<1>8. /\ dpc' \in [Worker -> {"idle", "start", "advance", "found", "stored"}]
      /\ batch' \in [Worker -> Seq(Nat \ {0})]
  <2>1. /\ dpc \in [Worker -> {"idle", "start", "advance", "found", "stored"}]
        /\ batch \in [Worker -> Seq(Nat \ {0})]
    BY <1>0 DEF TypeOK, Shape
  <2>2. ASSUME NEW w \in Worker,
               NEW p \in {"idle", "start", "advance", "found", "stored"},
               NEW rest \in Seq(Nat \ {0}), Drain(w, p, rest)
        PROVE  /\ dpc' \in [Worker -> {"idle", "start", "advance", "found", "stored"}]
               /\ batch' \in [Worker -> Seq(Nat \ {0})]
    BY <2>1, <2>2 DEF Drain
  <2>3. UNCHANGED dispatchVars \/ \E w \in Worker, rest \in Seq(Nat \ {0}),
           p \in {"idle", "start", "advance", "found", "stored"} : Drain(w, p, rest)
    <3>1. <<>> \in Seq(Nat \ {0}) /\ \A w \in Worker : batch[w] \in Seq(Nat \ {0})
      BY <2>1
    <3>2. ASSUME NEW w \in Worker, Advance(w) PROVE Tail(batch[w]) \in Seq(Nat \ {0})
      <4>1. batch[w] \in Seq(Nat \ {0}) /\ batch[w] # <<>>
        BY <2>1, <3>2 DEF Advance, DInv, BatchInv, BatchOf
      <4> QED BY <4>1, HeadTailProperties
    <3>3. ASSUME NEW w \in Worker, DrainReads(w)
          PROVE  \E rest \in Seq(Nat \ {0}) : Drain(w, "start", rest)
      <4> DEFINE S == IF mode = "poll" THEN pollCursor + 1..happened
                      ELSE {s \in Visible : s > inboxCursor}
      <4>1. S \in SUBSET (Nat \ {0}) /\ IsFiniteSet(S)
        <5>1. /\ pollCursor \in Nat /\ happened \in Nat /\ Len(inbox) \in Nat
              /\ committed \subseteq 1..Len(inbox)
          BY <1>0 DEF TypeOK
        <5>2. IsFiniteSet(pollCursor + 1..happened) /\ IsFiniteSet(1..Len(inbox))
          BY <5>1, FS_Interval
        <5>3. {s \in Visible : s > inboxCursor} \subseteq 1..Len(inbox)
          BY <5>1 DEF Visible
        <5>4. IsFiniteSet({s \in Visible : s > inboxCursor})
          BY <5>2, <5>3, FS_Subset
        <5> QED BY <5>1, <5>2, <5>3, <5>4
      <4>2. S \in SUBSET Nat
        BY <4>1
      <4>3. Drain(w, "start", FirstOf(S))
        BY <3>3 DEF DrainReads
      <4> HIDE DEF S
      <4>4. FirstOf(S) \in Seq(S)
        BY <4>1, <4>2, FirstOfLists
      <4>5. FirstOf(S) \in Seq(Nat \ {0})
        BY <4>1, <4>4, SeqMonotonic
      <4> QED BY <4>3, <4>5
    <3>4. ASSUME NEW w \in Worker, ReconcileReads(w)
          PROVE  \E rest \in Seq(Nat \ {0}) : Drain(w, "found", rest)
      BY <3>4, InsertedEvents DEF ReconcileReads
    <3>5. ASSUME NEW w \in Worker, Dispatches(w)
          PROVE  \E rest \in Seq(Nat \ {0}),
                    p \in {"idle", "start", "advance", "found", "stored"} : Drain(w, p, rest)
      <4>1. CASE Advance(w)
        BY <3>2, <4>1 DEF Advance
      <4>2. CASE Start(w) \/ StartFails(w) \/ AdvanceFails(w) \/ ReconcileAdvances(w)
        BY <3>1, <4>2 DEF Start, StartFails, AdvanceFails, ReconcileAdvances
      <4> QED BY <3>3, <3>4, <3>5, <4>1, <4>2 DEF Dispatches
    <3>6. CASE RollsBack
      BY <3>1, <3>6 DEF RollsBack
    <3>7. CASE \E wr \in Writer : Commits(wr)
      BY <3>1, <3>7 DEF Commits
    <3>8. CASE PruneInbox \/ Elsewhere \/ UNCHANGED vars \/ \E wr \in Writer : Inserts(wr)
      BY <3>8 DEF PruneInbox, Elsewhere, vars, Inserts
    <3> QED BY <3>5, <3>6, <3>7, <3>8, StepKinds
  <2> QED BY <2>1, <2>2, <2>3 DEF dispatchVars
<1>9. \A wr \in Writer : ToSet(load'[wr]) \subseteq Event
  <2> SUFFICES ASSUME NEW wr \in Writer PROVE ToSet(load'[wr]) \subseteq Event
    OBVIOUS
  <2>1. load'[wr] \in Seq(Event)
    BY <1>1 DEF InboxType
  <2> QED BY <2>1 DEF ToSet
<1>10. TypeOK'
  BY <1>1, <1>2, <1>3, <1>4, <1>5, <1>6, <1>7, <1>8, <1>9 DEF TypeOK, InboxType
<1> QED BY <1>1, <1>3, <1>8, <1>10 DEF Shape, InboxType

-----------------------------------------------------------------------------
(* The theorems. *)

\* The invariant holds in every state.
LEMMA DInvHolds == Spec => []DInv
<1>1. ASSUME DInv, [Next]_vars PROVE DInv'
  BY <1>1, NextGains, NextCursor, NextBatch, NextReconcile, NextStream, NextForgotten,
     NextType
  DEF DInv
<1> QED BY <1>1, InitDInv, PTL DEF Spec

\* Dispatcher.Poll's promise: however many workers drain the same trigger,
\* fail in between and start over, a cursor passes an event or an inbox row
\* only when its run was started, rows that commit late included.
THEOREM CursorsPassStartedRuns == Spec => []CursorBehindRuns
<1>1. DInv => CursorBehindRuns
  BY DEF DInv, CursorInv
<1> QED BY <1>1, DInvHolds, PTL

\* Deliver and DeliverStream's promise: what was acknowledged, reconciled or
\* streamed past is in the inbox, and no event is in it twice, for any number
\* of handlers, reconciliations and subscriptions, locks lost or not.
THEOREM InboxStaysSound == Spec => []InboxSound
<1>1. DInv => InboxSound
  BY DEF DInv, InboxSound, InboxInv, Distinct
<1> QED BY <1>1, DInvHolds, PTL
=============================================================================
