-------------------------- MODULE SmartAccountProofs --------------------------
(***************************************************************************)
(* The smart account, for every market, strategy, deposit and amount the   *)
(* third parties hand back.                                                *)
(***************************************************************************)
EXTENDS SmartAccount, FiniteSetTheorems, TLAPS

-----------------------------------------------------------------------------
(***************************************************************************)
(* Lists and percentages: facts about the operators of Allocation.         *)
(***************************************************************************)
\* Arithmetic that the steps below instantiate.
LEMMA UpToFour ==
    ASSUME NEW k \in Nat, NEW n \in Nat, n <= 5, k <= n - 1
    PROVE  k = 0 \/ k = 1 \/ k = 2 \/ k = 3 \/ k = 4
OBVIOUS

LEMMA Successors ==
    ASSUME NEW k \in Nat, k <= 4
    PROVE  k + 1 \in Nat /\ k + 1 <= 5 /\ k + 1 \in 1..5 /\ k + 1 + 1 = k + 2
OBVIOUS

LEMMA OneToFive ==
    ASSUME NEW k \in Nat, k # 0, k <= 5
    PROVE  k \in 1..5
OBVIOUS

LEMMA Grows ==
    \A a, x \in Nat : a + x \in Nat /\ a <= a + x /\ a <= a
OBVIOUS

LEMMA Climbs == \A a, b, c \in Nat : a <= b /\ b <= c => a <= c
OBVIOUS

\* Percentages are naturals, and so is the slot of a position beyond the list.
LEMMA SlotType ==
    ASSUME NEW list \in Seq(Strategy), NEW i \in Nat
    PROVE  Slot(list, i) \in 0..(U64 - 1) /\ Slot(list, i) \in Nat
<1>1. 0 \in 0..(U64 - 1)
  BY U64Assumption
<1>2. CASE i \in DOMAIN list
  <2>1. list[i] \in Strategy
    BY <1>2
  <2>. QED BY <2>1, <1>2, U64Assumption DEF Slot, Strategy
<1>3. CASE i \notin DOMAIN list
  BY <1>1, <1>3 DEF Slot
<1>. QED BY <1>2, <1>3

\* The partial sums, written out.
LEMMA PartialSums ==
    ASSUME NEW list \in Seq(Strategy)
    PROVE  /\ Slot(list, 1) \in Nat /\ Slot(list, 2) \in Nat /\ Slot(list, 3) \in Nat
           /\ Slot(list, 4) \in Nat /\ Slot(list, 5) \in Nat
           /\ PercentageBefore(list, 1) = 0
           /\ PercentageBefore(list, 2) = Slot(list, 1)
           /\ PercentageBefore(list, 3) = Slot(list, 1) + Slot(list, 2)
           /\ PercentageBefore(list, 4) = Slot(list, 1) + Slot(list, 2) + Slot(list, 3)
           /\ PercentageBefore(list, 5) =
                 Slot(list, 1) + Slot(list, 2) + Slot(list, 3) + Slot(list, 4)
           /\ PercentageBefore(list, 6) =
                 Slot(list, 1) + Slot(list, 2) + Slot(list, 3) + Slot(list, 4) + Slot(list, 5)
           /\ TotalPercentage(list) = PercentageBefore(list, 6)
<1>1. /\ Slot(list, 1) \in Nat /\ Slot(list, 2) \in Nat /\ Slot(list, 3) \in Nat
      /\ Slot(list, 4) \in Nat /\ Slot(list, 5) \in Nat
  BY SlotType
<1>2. PercentageBefore(list, 1) = 0
  BY DEF PercentageBefore
<1>3. PercentageBefore(list, 2) = Slot(list, 1)
  BY <1>1 DEF PercentageBefore
<1>4. PercentageBefore(list, 3) = Slot(list, 1) + Slot(list, 2)
  BY <1>1 DEF PercentageBefore
<1>5. PercentageBefore(list, 4) = Slot(list, 1) + Slot(list, 2) + Slot(list, 3)
  BY <1>1 DEF PercentageBefore
<1>6. PercentageBefore(list, 5) =
         Slot(list, 1) + Slot(list, 2) + Slot(list, 3) + Slot(list, 4)
  BY <1>1 DEF PercentageBefore
<1>7. PercentageBefore(list, 6) =
         Slot(list, 1) + Slot(list, 2) + Slot(list, 3) + Slot(list, 4) + Slot(list, 5)
  BY <1>1 DEF PercentageBefore
<1>8. TotalPercentage(list) = PercentageBefore(list, 6)
  BY DEF TotalPercentage, MAX_STRATEGIES_NO
<1>. QED BY <1>1, <1>2, <1>3, <1>4, <1>5, <1>6, <1>7, <1>8

\* The partial sums, one from the other.
LEMMA RunningSums ==
    ASSUME NEW list \in Seq(Strategy)
    PROVE  /\ PercentageBefore(list, 1) = 0
           /\ PercentageBefore(list, 2) = PercentageBefore(list, 1) + Slot(list, 1)
           /\ PercentageBefore(list, 3) = PercentageBefore(list, 2) + Slot(list, 2)
           /\ PercentageBefore(list, 4) = PercentageBefore(list, 3) + Slot(list, 3)
           /\ PercentageBefore(list, 5) = PercentageBefore(list, 4) + Slot(list, 4)
           /\ PercentageBefore(list, 6) = PercentageBefore(list, 5) + Slot(list, 5)
<1>1. Slot(list, 1) = 0 + Slot(list, 1)
  BY PartialSums
<1>. QED BY <1>1, PartialSums

\* A partial sum is a natural number and grows by one slot at a time.
LEMMA PercentageBeforeStep ==
    ASSUME NEW list \in Seq(Strategy), NEW i \in 1..MAX_STRATEGIES_NO
    PROVE  /\ PercentageBefore(list, i) \in Nat
           /\ PercentageBefore(list, i + 1) = PercentageBefore(list, i) + Slot(list, i)
           /\ PercentageBefore(list, i + 1) \in Nat
           /\ PercentageBefore(list, i + 1) <= TotalPercentage(list)
<1>1. /\ Slot(list, 1) \in Nat /\ Slot(list, 2) \in Nat /\ Slot(list, 3) \in Nat
      /\ Slot(list, 4) \in Nat /\ Slot(list, 5) \in Nat
      /\ TotalPercentage(list) = PercentageBefore(list, 6)
  BY PartialSums
<1>2. PercentageBefore(list, 1) = 0 /\ PercentageBefore(list, 1) \in Nat
  BY RunningSums
<1>3. /\ PercentageBefore(list, 2) = PercentageBefore(list, 1) + Slot(list, 1)
      /\ PercentageBefore(list, 2) \in Nat
  BY <1>1, <1>2, RunningSums
<1>4. /\ PercentageBefore(list, 3) = PercentageBefore(list, 2) + Slot(list, 2)
      /\ PercentageBefore(list, 3) \in Nat
  BY <1>1, <1>3, RunningSums, Grows
<1>5. /\ PercentageBefore(list, 4) = PercentageBefore(list, 3) + Slot(list, 3)
      /\ PercentageBefore(list, 4) \in Nat
  BY <1>1, <1>4, RunningSums, Grows
<1>6. /\ PercentageBefore(list, 5) = PercentageBefore(list, 4) + Slot(list, 4)
      /\ PercentageBefore(list, 5) \in Nat
  BY <1>1, <1>5, RunningSums, Grows
<1>7. /\ PercentageBefore(list, 6) = PercentageBefore(list, 5) + Slot(list, 5)
      /\ PercentageBefore(list, 6) \in Nat
  BY <1>1, <1>6, RunningSums, Grows
<1>8. /\ PercentageBefore(list, 6) <= PercentageBefore(list, 6)
      /\ PercentageBefore(list, 5) <= PercentageBefore(list, 6)
  BY <1>1, <1>6, <1>7, Grows
<1>9. PercentageBefore(list, 4) <= PercentageBefore(list, 6)
  <2>1. PercentageBefore(list, 4) <= PercentageBefore(list, 5)
    BY <1>1, <1>5, <1>6, Grows
  <2>. QED BY <1>5, <1>6, <1>7, <1>8, <2>1, Climbs
<1>16. PercentageBefore(list, 3) <= PercentageBefore(list, 6)
  <2>1. PercentageBefore(list, 3) <= PercentageBefore(list, 4)
    BY <1>1, <1>4, <1>5, Grows
  <2>. QED BY <1>4, <1>5, <1>7, <1>9, <2>1, Climbs
<1>17. PercentageBefore(list, 2) <= PercentageBefore(list, 6)
  <2>1. PercentageBefore(list, 2) <= PercentageBefore(list, 3)
    BY <1>1, <1>3, <1>4, Grows
  <2>. QED BY <1>3, <1>4, <1>7, <1>16, <2>1, Climbs
<1>10. i = 1 \/ i = 2 \/ i = 3 \/ i = 4 \/ i = 5
  BY DEF MAX_STRATEGIES_NO
<1>11. CASE i = 1
  <2>1. i + 1 = 2
    BY <1>11
  <2>. QED BY <1>11, <2>1, <1>1, <1>2, <1>3, <1>17
<1>12. CASE i = 2
  <2>1. i + 1 = 3
    BY <1>12
  <2>. QED BY <1>12, <2>1, <1>1, <1>3, <1>4, <1>16
<1>13. CASE i = 3
  <2>1. i + 1 = 4
    BY <1>13
  <2>. QED BY <1>13, <2>1, <1>1, <1>4, <1>5, <1>9
<1>14. CASE i = 4
  <2>1. i + 1 = 5
    BY <1>14
  <2>. QED BY <1>14, <2>1, <1>1, <1>5, <1>6, <1>8
<1>15. CASE i = 5
  <2>1. i + 1 = 6
    BY <1>15
  <2>. QED BY <1>15, <2>1, <1>1, <1>6, <1>7, <1>8
<1>. QED BY <1>10, <1>11, <1>12, <1>13, <1>14, <1>15

\* Past the end of a list its partial sum is its total.
LEMMA PercentageBeforeEnd ==
    ASSUME NEW list \in Seq(Strategy), Len(list) \in 0..MAX_STRATEGIES_NO
    PROVE  PercentageBefore(list, Len(list) + 1) = TotalPercentage(list)
<1>1. \A j \in 1..5 : j > Len(list) => Slot(list, j) = 0
  BY DEF Slot
<1>2. \/ Len(list) = 0 \/ Len(list) = 1 \/ Len(list) = 2
      \/ Len(list) = 3 \/ Len(list) = 4 \/ Len(list) = 5
  BY DEF MAX_STRATEGIES_NO
<1>3. CASE Len(list) = 0
  <2>1. /\ Slot(list, 1) = 0 /\ Slot(list, 2) = 0 /\ Slot(list, 3) = 0
        /\ Slot(list, 4) = 0 /\ Slot(list, 5) = 0
    BY <1>1, <1>3
  <2>2. TotalPercentage(list) = 0 + 0 + 0 + 0 + 0
    BY <2>1, PartialSums
  <2>3. Len(list) + 1 = 1
    BY <1>3
  <2>. QED BY <2>2, <2>3, PartialSums
<1>4. CASE Len(list) = 1
  BY <1>1, <1>4, PartialSums
<1>5. CASE Len(list) = 2
  BY <1>1, <1>5, PartialSums
<1>6. CASE Len(list) = 3
  BY <1>1, <1>6, PartialSums
<1>7. CASE Len(list) = 4
  BY <1>1, <1>7, PartialSums
<1>8. CASE Len(list) = 5
  BY <1>8, PartialSums
<1>. QED BY <1>2, <1>3, <1>4, <1>5, <1>6, <1>7, <1>8

-----------------------------------------------------------------------------
(***************************************************************************)
(* Kept, one push of the loop at a time: Stored(list, s, n) says that s is *)
(* what is stored once n positions of the list are behind.                 *)
(***************************************************************************)
Stored(list, s, n) ==
    /\ s \in Seq(Strategy)
    /\ Len(s) <= n
    /\ \A i \in DOMAIN s : s[i].percentage > 0
    /\ TotalPercentage(s) = PercentageBefore(list, n + 1)

Push(list, s, n) == s \o (IF Slot(list, n) = 0 THEN <<>> ELSE <<list[n]>>)

LEMMA PushStores ==
    ASSUME NEW list \in Seq(Strategy), NEW s, NEW n \in 1..MAX_STRATEGIES_NO,
           Stored(list, s, n - 1)
    PROVE  Stored(list, Push(list, s, n), n)
<1>1. /\ PercentageBefore(list, n + 1) = PercentageBefore(list, n) + Slot(list, n)
      /\ PercentageBefore(list, n) \in Nat
  BY PercentageBeforeStep
<1>2. /\ n \in Nat
      /\ n <= 5
      /\ n - 1 + 1 = n
  BY DEF MAX_STRATEGIES_NO
<1>5. /\ s \in Seq(Strategy)
       /\ Len(s) \in Nat
       /\ Len(s) <= n - 1
       /\ \A i \in DOMAIN s : s[i].percentage > 0
       /\ TotalPercentage(s) = PercentageBefore(list, n)
  BY <1>2 DEF Stored
<1>3. CASE Slot(list, n) = 0
  <2>1. Push(list, s, n) = s
    BY <1>5, <1>3 DEF Push
  <2>. QED BY <1>1, <1>2, <1>5, <1>3, <2>1 DEF Stored
<1>4. CASE Slot(list, n) # 0
  <2>1. /\ n \in DOMAIN list
        /\ list[n] \in Strategy
        /\ Slot(list, n) = list[n].percentage
        /\ list[n].percentage \in Nat
    BY <1>4, SlotType DEF Slot, MAX_STRATEGIES_NO
  <2>. DEFINE t == s \o <<list[n]>>
  <2>2. Push(list, s, n) = t
    BY <1>4 DEF Push
  <2>3. /\ t \in Seq(Strategy)
        /\ Len(t) = Len(s) + 1
        /\ t[Len(s) + 1] = list[n]
        /\ \A i \in DOMAIN s : t[i] = s[i]
    BY <2>1, <1>5
  <2>4. Len(s) = 0 \/ Len(s) = 1 \/ Len(s) = 2 \/ Len(s) = 3 \/ Len(s) = 4
    BY <1>2, <1>5, UpToFour
  <2>. HIDE DEF t
  <2>10. /\ Len(s) + 1 \in Nat
         /\ Len(s) + 1 <= 5
         /\ Len(s) + 1 \in 1..5
         /\ Len(s) + 1 + 1 = Len(s) + 2
    <3>1. Len(s) <= 4
      BY <2>4, <1>5
    <3>. QED BY <3>1, <1>5, Successors
  <2>5. \A j \in 1..5 : j # Len(s) + 1 => Slot(t, j) = Slot(s, j)
    <3>. SUFFICES ASSUME NEW j \in 1..5, j # Len(s) + 1 PROVE Slot(t, j) = Slot(s, j)
      OBVIOUS
    <3>1. CASE j <= Len(s)
      BY <3>1, <2>3, <1>5 DEF Slot
    <3>2. CASE j > Len(s)
      BY <3>2, <2>3, <1>5 DEF Slot
    <3>. QED BY <3>1, <3>2, <1>5
  <2>6. Slot(s, Len(s) + 1) = 0 /\ Slot(t, Len(s) + 1) = Slot(list, n)
    BY <2>1, <2>3, <1>5 DEF Slot
  <2>7. TotalPercentage(t) = TotalPercentage(s) + Slot(list, n)
    <3>1. TotalPercentage(s) = PercentageBefore(s, Len(s) + 1)
      BY <2>4, <1>5, PercentageBeforeEnd DEF MAX_STRATEGIES_NO
    <3>2. TotalPercentage(t) = PercentageBefore(t, Len(s) + 2)
      <4>1. Len(t) \in 0..MAX_STRATEGIES_NO /\ Len(t) + 1 = Len(s) + 2
        BY <2>3, <2>10 DEF MAX_STRATEGIES_NO
      <4>2. PercentageBefore(t, Len(t) + 1) = TotalPercentage(t)
        BY <2>3, <4>1, PercentageBeforeEnd
      <4>. QED BY <4>1, <4>2
    <3>3. PercentageBefore(t, Len(s) + 2) = PercentageBefore(t, Len(s) + 1) + Slot(t, Len(s) + 1)
      <4>1. Len(s) + 1 \in 1..MAX_STRATEGIES_NO /\ Len(s) + 1 + 1 = Len(s) + 2
        BY <2>10 DEF MAX_STRATEGIES_NO
      <4>. QED BY <2>3, <4>1, PercentageBeforeStep
    <3>4. PercentageBefore(t, Len(s) + 1) = PercentageBefore(s, Len(s) + 1)
      <4>1. CASE Len(s) = 0
        <5>1. PercentageBefore(t, 1) = 0
          BY <2>3, PartialSums
        <5>2. PercentageBefore(s, 1) = 0
          BY <1>5, PartialSums
        <5>3. Len(s) + 1 = 1
          BY <4>1
        <5>. QED BY <5>1, <5>2, <5>3
      <4>2. CASE Len(s) = 1
        <5>1. PercentageBefore(t, 2) = Slot(t, 1)
          BY <2>3, PartialSums
        <5>2. PercentageBefore(s, 2) = Slot(s, 1)
          BY <1>5, PartialSums
        <5>3. Len(s) + 1 = 2
          BY <4>2
        <5>4. Slot(t, 1) = Slot(s, 1)
          BY <4>2, <2>5
        <5>. QED BY <5>1, <5>2, <5>3, <5>4
      <4>3. CASE Len(s) = 2
        <5>1. PercentageBefore(t, 3) = Slot(t, 1) + Slot(t, 2)
          BY <2>3, PartialSums
        <5>2. PercentageBefore(s, 3) = Slot(s, 1) + Slot(s, 2)
          BY <1>5, PartialSums
        <5>3. Len(s) + 1 = 3
          BY <4>3
        <5>4. /\ Slot(t, 1) = Slot(s, 1)
              /\ Slot(t, 2) = Slot(s, 2)
          BY <4>3, <2>5
        <5>. QED BY <5>1, <5>2, <5>3, <5>4
      <4>4. CASE Len(s) = 3
        <5>1. PercentageBefore(t, 4) = Slot(t, 1) + Slot(t, 2) + Slot(t, 3)
          BY <2>3, PartialSums
        <5>2. PercentageBefore(s, 4) = Slot(s, 1) + Slot(s, 2) + Slot(s, 3)
          BY <1>5, PartialSums
        <5>3. Len(s) + 1 = 4
          BY <4>4
        <5>4. /\ Slot(t, 1) = Slot(s, 1)
              /\ Slot(t, 2) = Slot(s, 2)
              /\ Slot(t, 3) = Slot(s, 3)
          BY <4>4, <2>5
        <5>. QED BY <5>1, <5>2, <5>3, <5>4
      <4>5. CASE Len(s) = 4
        <5>1. PercentageBefore(t, 5) = Slot(t, 1) + Slot(t, 2) + Slot(t, 3) + Slot(t, 4)
          BY <2>3, PartialSums
        <5>2. PercentageBefore(s, 5) = Slot(s, 1) + Slot(s, 2) + Slot(s, 3) + Slot(s, 4)
          BY <1>5, PartialSums
        <5>3. Len(s) + 1 = 5
          BY <4>5
        <5>4. /\ Slot(t, 1) = Slot(s, 1)
              /\ Slot(t, 2) = Slot(s, 2)
              /\ Slot(t, 3) = Slot(s, 3)
              /\ Slot(t, 4) = Slot(s, 4)
          BY <4>5, <2>5
        <5>. QED BY <5>1, <5>2, <5>3, <5>4
      <4>. QED BY <2>4, <4>1, <4>2, <4>3, <4>4, <4>5
    <3>. QED BY <2>6, <3>1, <3>2, <3>3, <3>4
  <2>8. \A i \in DOMAIN t : t[i].percentage > 0
    BY <1>4, <2>1, <2>3, <1>5
  <2>9. Len(t) <= n
    BY <1>2, <1>5, <2>3
  <2>. QED BY <1>1, <1>5, <2>2, <2>3, <2>7, <2>8, <2>9 DEF Stored
<1>. QED BY <1>3, <1>4

\* The list stored by setStrategiesPerEpoch has no void entry, at most as many
\* entries as were submitted, and the same true total.
THEOREM KeptKeepsTotal ==
    ASSUME NEW list \in Seq(Strategy), Len(list) <= MAX_STRATEGIES_NO
    PROVE  /\ Kept(list) \in Seq(Strategy)
           /\ Len(Kept(list)) <= MAX_STRATEGIES_NO
           /\ \A i \in DOMAIN Kept(list) : Kept(list)[i].percentage > 0
           /\ TotalPercentage(Kept(list)) = TotalPercentage(list)
<1>. DEFINE s1 == Push(list, <<>>, 1)
            s2 == Push(list, s1, 2)
            s3 == Push(list, s2, 3)
            s4 == Push(list, s3, 4)
            s5 == Push(list, s4, 5)
<1>1. Stored(list, <<>>, 0)
  <2>1. TotalPercentage(<<>>) = 0
    BY DEF TotalPercentage, PercentageBefore, Slot
  <2>2. PercentageBefore(list, 1) = 0
    BY PartialSums
  <2>. QED BY <2>1, <2>2 DEF Stored
<1>2. Stored(list, s1, 1)
  BY <1>1, PushStores DEF MAX_STRATEGIES_NO
<1>. HIDE DEF s1
<1>3. Stored(list, s2, 2)
  BY <1>2, PushStores DEF MAX_STRATEGIES_NO
<1>. HIDE DEF s2
<1>4. Stored(list, s3, 3)
  BY <1>3, PushStores DEF MAX_STRATEGIES_NO
<1>. HIDE DEF s3
<1>5. Stored(list, s4, 4)
  BY <1>4, PushStores DEF MAX_STRATEGIES_NO
<1>. HIDE DEF s4
<1>6. Stored(list, s5, 5)
  BY <1>5, PushStores DEF MAX_STRATEGIES_NO
<1>7. Kept(list) = s5
  <2>. DEFINE keep(i) == IF Slot(list, i) = 0 THEN <<>> ELSE <<list[i]>>
  <2>1. \A i \in 1..5 : keep(i) \in Seq(Strategy)
    BY DEF Slot
  <2>2. Kept(list) = keep(1) \o keep(2) \o keep(3) \o keep(4) \o keep(5)
    BY DEF Kept
  <2>3. <<>> \o keep(1) = keep(1)
    BY <2>1
  <2>. QED BY <2>2, <2>3 DEF s1, s2, s3, s4, Push
<1>. QED BY <1>6, <1>7 DEF Stored, TotalPercentage, MAX_STRATEGIES_NO

-----------------------------------------------------------------------------
(***************************************************************************)
(* Amounts.                                                                *)
(***************************************************************************)
LEMMA Division ==
    \A x \in Nat : /\ x \div 10000 \in Nat
                   /\ 10000 * (x \div 10000) <= x
                   /\ x <= 10000 * (x \div 10000) + 9999
OBVIOUS

LEMMA Halving ==
    \A x \in Nat : /\ x \div 2 \in Nat
                   /\ 2 * (x \div 2) <= x
                   /\ x <= 2 * (x \div 2) + 1
OBVIOUS

LEMMA Products ==
    \A t, p, q \in Nat : /\ t * p \in Nat
                         /\ t * (p + q) = t * p + t * q
                         /\ p <= q => t * p <= t * q
                         /\ t * 0 = 0
OBVIOUS

Halves(entry) == IF Paired(entry) THEN 1 ELSE 0

\* The share of an entry is never exceeded, and missed by less than one unit for
\* the division and at most one more for the halving.
LEMMA AmountBounds ==
    ASSUME NEW t \in Nat, NEW entry \in Strategy
    PROVE  /\ TransferAmount(t, entry) \in Nat
           /\ EntryAmount(t, entry) \in Nat
           /\ MAX_PERCENTAGE * EntryAmount(t, entry) <= t * entry.percentage
           /\ t * entry.percentage <= MAX_PERCENTAGE * EntryAmount(t, entry)
                                        + (MAX_PERCENTAGE - 1) + MAX_PERCENTAGE * Halves(entry)
           /\ t * entry.percentage \in Nat
           /\ entry.percentage \in Nat
           /\ Halves(entry) \in Nat
<1>1. entry.percentage \in Nat
  BY U64Assumption DEF Strategy
<1>2. PICK share \in Nat : share = t * entry.percentage
  BY <1>1, Products
<1>3. PICK inv \in Nat : /\ inv = share \div 10000
                         /\ 10000 * inv <= share
                         /\ share <= 10000 * inv + 9999
  BY Division
<1>4. InvestmentAmount(t, entry.percentage) = inv
  BY <1>2, <1>3 DEF InvestmentAmount, MAX_PERCENTAGE
<1>5. CASE Paired(entry)
  <2>1. PICK half \in Nat : half = inv \div 2 /\ 2 * half <= inv /\ inv <= 2 * half + 1
    BY Halving
  <2>2. /\ TransferAmount(t, entry) = half
        /\ EntryAmount(t, entry) = 2 * half
        /\ Halves(entry) = 1
    BY <1>4, <1>5, <2>1 DEF TransferAmount, HalfInvestment, EntryAmount, Halves
  <2>3. 2 * half \in Nat /\ 10000 * (2 * half) <= share
    BY <1>3, <2>1
  <2>4. share <= 10000 * (2 * half) + 9999 + 10000
    BY <1>3, <2>1
  <2>. QED BY <1>1, <1>2, <2>2, <2>3, <2>4 DEF MAX_PERCENTAGE
<1>6. CASE ~Paired(entry)
  <2>1. TransferAmount(t, entry) = inv /\ EntryAmount(t, entry) = inv /\ Halves(entry) = 0
    BY <1>4, <1>6 DEF TransferAmount, EntryAmount, Halves
  <2>. QED BY <1>1, <1>2, <1>3, <2>1 DEF MAX_PERCENTAGE
<1>. QED BY <1>5, <1>6

LEMMA PairedCount ==
    ASSUME NEW list, NEW n \in Nat
    PROVE  /\ PairedUpTo(list, n) \in Nat
           /\ PairedUpTo(list, n + 1) =
                 PairedUpTo(list, n) + Halves(list[n + 1])
           /\ PairedUpTo(list, 0) = 0
<1>. DEFINE S == {i \in 1..n : Paired(list[i])}
            T == {i \in 1..(n + 1) : Paired(list[i])}
<1>1. IsFiniteSet(1..n)
  BY FS_Interval
<1>2. IsFiniteSet(S)
  BY <1>1, FS_Subset
<1>3. Cardinality(S) \in Nat
  BY <1>2, FS_CardinalityType
<1>4. {i \in 1..0 : Paired(list[i])} = {}
  OBVIOUS
<1>5. PairedUpTo(list, 0) = 0
  BY <1>4, FS_EmptySet DEF PairedUpTo
<1>6. CASE Paired(list[n + 1])
  <2>1. T = S \cup {n + 1} /\ n + 1 \notin S
    BY <1>6
  <2>2. Cardinality(T) = Cardinality(S) + 1
    BY <1>2, <2>1, FS_AddElement
  <2>. QED BY <1>3, <1>5, <1>6, <2>2 DEF PairedUpTo, Halves
<1>7. CASE ~Paired(list[n + 1])
  <2>1. T = S
    BY <1>7
  <2>. QED BY <1>3, <1>5, <1>7, <2>1 DEF PairedUpTo, Halves
<1>. QED BY <1>6, <1>7

LEMMA SumOfBounds ==
    ASSUME NEW m \in Nat, NEW l \in Nat, NEW before \in Nat, NEW share \in Nat,
           NEW sent \in Nat, NEW due \in Nat, NEW k \in Nat, NEW pairs \in Nat, NEW extra \in Nat,
           m * due <= share, share <= m * due + l + m * extra,
           m * sent <= before, before <= m * sent + l * k + m * pairs
    PROVE  /\ m * (sent + due) <= before + share
           /\ before + share <= m * (sent + due) + l * (k + 1) + m * (pairs + extra)
<1>1. m * (sent + due) = m * sent + m * due /\ m * sent \in Nat /\ m * due \in Nat
  OBVIOUS
<1>2. l * (k + 1) = l * k + l /\ l * k \in Nat
  OBVIOUS
<1>3. m * (pairs + extra) = m * pairs + m * extra /\ m * pairs \in Nat /\ m * extra \in Nat
  OBVIOUS
<1>. QED BY <1>1, <1>2, <1>3

\* The bounds of budget and loss move on by one entry.
LEMMA NextEntryBounds ==
    ASSUME NEW plan \in Seq(Strategy), Len(plan) <= MAX_STRATEGIES_NO,
           NEW k \in Nat, k + 1 <= Len(plan), NEW t \in Nat, NEW sent \in Nat,
           NEW entry \in Strategy, entry = plan[k + 1],
           MAX_PERCENTAGE * sent <= t * PercentageBefore(plan, k + 1),
           t * PercentageBefore(plan, k + 1)
              <= MAX_PERCENTAGE * sent + (MAX_PERCENTAGE - 1) * k
                    + MAX_PERCENTAGE * PairedUpTo(plan, k)
    PROVE  /\ MAX_PERCENTAGE * (sent + EntryAmount(t, entry))
                 <= t * PercentageBefore(plan, k + 1 + 1)
           /\ t * PercentageBefore(plan, k + 1 + 1)
                 <= MAX_PERCENTAGE * (sent + EntryAmount(t, entry))
                        + (MAX_PERCENTAGE - 1) * (k + 1)
                        + MAX_PERCENTAGE * PairedUpTo(plan, k + 1)
<1>1. k + 1 \in DOMAIN plan /\ k + 1 \in 1..MAX_STRATEGIES_NO
  <2>1. Len(plan) \in Nat /\ Len(plan) <= 5 /\ DOMAIN plan = 1..Len(plan)
    BY DEF MAX_STRATEGIES_NO
  <2>2. k + 1 \in Nat /\ k + 1 >= 1 /\ k + 1 <= Len(plan)
    OBVIOUS
  <2>3. k + 1 <= 5
    BY <2>1, <2>2
  <2>. QED BY <2>1, <2>2, <2>3 DEF MAX_STRATEGIES_NO
<1>2. Slot(plan, k + 1) = entry.percentage
  BY <1>1 DEF Slot
<1>3. /\ PercentageBefore(plan, k + 1) \in Nat
      /\ PercentageBefore(plan, k + 1 + 1) = PercentageBefore(plan, k + 1) + entry.percentage
  BY <1>1, <1>2, PercentageBeforeStep
<1>4. PICK due \in Nat, share \in Nat, extra \in Nat :
        /\ due = EntryAmount(t, entry)
        /\ share = t * entry.percentage
        /\ extra = Halves(entry)
        /\ MAX_PERCENTAGE * due <= share
        /\ share <= MAX_PERCENTAGE * due + (MAX_PERCENTAGE - 1) + MAX_PERCENTAGE * extra
  <2>1. Halves(entry) \in Nat
    BY DEF Halves
  <2>2. /\ EntryAmount(t, entry) \in Nat /\ t * entry.percentage \in Nat
        /\ MAX_PERCENTAGE * EntryAmount(t, entry) <= t * entry.percentage
        /\ t * entry.percentage <= MAX_PERCENTAGE * EntryAmount(t, entry)
                                     + (MAX_PERCENTAGE - 1) + MAX_PERCENTAGE * Halves(entry)
    BY AmountBounds
  <2>. QED BY <2>1, <2>2, Zenon
<1>5. PICK before \in Nat : before = t * PercentageBefore(plan, k + 1)
  BY <1>3, Products
<1>6. t * PercentageBefore(plan, k + 1 + 1) = before + share
  <2>1. entry.percentage \in Nat
    BY AmountBounds
  <2>2. t * (PercentageBefore(plan, k + 1) + entry.percentage)
           = t * PercentageBefore(plan, k + 1) + t * entry.percentage
    BY <1>3, <2>1, Products
  <2>. QED BY <1>3, <1>4, <1>5, <2>2
<1>7. PICK pairs \in Nat : /\ pairs = PairedUpTo(plan, k)
                           /\ PairedUpTo(plan, k + 1) = pairs + extra
  BY <1>4, PairedCount
<1>8. /\ MAX_PERCENTAGE * sent <= before
      /\ before <= MAX_PERCENTAGE * sent + (MAX_PERCENTAGE - 1) * k + MAX_PERCENTAGE * pairs
  BY <1>5, <1>7
<1>9. MAX_PERCENTAGE \in Nat /\ MAX_PERCENTAGE - 1 \in Nat
  BY DEF MAX_PERCENTAGE
<1>10. /\ MAX_PERCENTAGE * (sent + due) <= before + share
       /\ before + share <= MAX_PERCENTAGE * (sent + due) + (MAX_PERCENTAGE - 1) * (k + 1)
                               + MAX_PERCENTAGE * (pairs + extra)
  BY <1>4, <1>8, <1>9, SumOfBounds
<1>. QED BY <1>4, <1>6, <1>7, <1>10

-----------------------------------------------------------------------------
(***************************************************************************)
(* Wallets and records.                                                    *)
(***************************************************************************)
Wallets == [TokenIds -> Nat]

LEMMA PaymentOf ==
    \A token \in TokenIds, amount \in Nat :
        \E payment \in Payment : /\ payment = [token |-> token, amount |-> amount]
                                 /\ payment.token = token /\ payment.amount = amount
<1>. TAKE token \in TokenIds, amount \in Nat
<1>1. [token |-> token, amount |-> amount] \in Payment
  BY DEF Payment
<1>. WITNESS [token |-> token, amount |-> amount] \in Payment
<1>. QED OBVIOUS

\* Sending "half" out of a wallet that is credited afterwards.
LEMMA StillCovered ==
    \A before, debited, after, base, payment, sent, half \in Nat :
        /\ debited = before - half
        /\ after >= debited
        /\ before + sent >= base + payment
        => after + (sent + half) >= base + payment
OBVIOUS

LEMMA CreditWallet ==
    ASSUME NEW wallet \in Wallets, NEW payment \in Payment
    PROVE  /\ Credit(wallet, payment) \in Wallets
           /\ \A token \in TokenIds : Credit(wallet, payment)[token] >= wallet[token]
           /\ Credit(wallet, payment)[payment.token] >= payment.amount
BY DEF Wallets, Payment, Credit

LEMMA DebitWallet ==
    ASSUME NEW wallet \in Wallets, NEW payment \in Payment, Covered(wallet, payment)
    PROVE  /\ Debit(wallet, payment) \in Wallets
           /\ Debit(wallet, payment)[payment.token] = wallet[payment.token] - payment.amount
           /\ \A token \in TokenIds \ {payment.token} :
                 Debit(wallet, payment)[token] = wallet[token]
BY DEF Wallets, Payment, Debit, Covered

LEMMA AdvanceFields ==
    ASSUME NEW c \in Call
    PROVE  LET d == Advance(c)
           IN  /\ d \in Call
               /\ d.account = c.account /\ d.risk = c.risk /\ d.plan = c.plan
               /\ d.payment = c.payment /\ d.received = c.received /\ d.sent = c.sent
               /\ d.esdt = c.esdt /\ d.egld = c.egld
               /\ c.step = Len(c.plan) => d.pc = "return" /\ d.step = c.step
               /\ c.step # Len(c.plan) => d.pc = "swap" /\ d.step = c.step + 1
<1>. DEFINE saved == [c EXCEPT !.portfolio = SaveUserPosition(@, c.received)]
<1>1. saved = c
  BY DEF Call, SaveUserPosition
<1>. HIDE DEF saved
<1>2. CASE c.step = Len(c.plan)
  <2>1. Advance(c) = [c EXCEPT !.pc = "return"]
    BY <1>1, <1>2 DEF Advance, saved
  <2>. QED BY <1>2, <2>1 DEF Call
<1>3. CASE c.step # Len(c.plan)
  <2>1. Advance(c) = [c EXCEPT !.pc = "swap", !.step = @ + 1]
    BY <1>1, <1>3 DEF Advance, saved
  <2>2. c.step + 1 \in Nat
    BY DEF Call
  <2>. QED BY <1>3, <2>1, <2>2 DEF Call
<1>. QED BY <1>2, <1>3

LEMMA RunningCall ==
    ASSUME SmartAccountTypeOK, call.pc # "idle"
    PROVE  call \in Call /\ call # NoCall
BY DEF SmartAccountTypeOK, NoCall

LEMMA TransferType ==
    ASSUME NEW ledger \in [Holders -> Nat], NEW from \in Holders, NEW to \in Holders,
           NEW amount \in Nat, ledger[from] >= amount
    PROVE  Transfer(ledger, from, to, amount) \in [Holders -> Nat]
<1>. DEFINE debited == [ledger EXCEPT ![from] = @ - amount]
<1>1. debited \in [Holders -> Nat]
  <2>1. ledger[from] - amount \in Nat
    OBVIOUS
  <2>. QED BY <2>1
<1>2. Transfer(ledger, from, to, amount) = [debited EXCEPT ![to] = @ + amount]
  BY DEF Transfer
<1>. HIDE DEF debited
<1>. QED BY <1>1, <1>2

-----------------------------------------------------------------------------
(***************************************************************************)
(* The invariant, step by step. "c" is the call as the last external call  *)
(* of an entry leaves it.                                                  *)
(***************************************************************************)
Untouched == UNCHANGED <<storageVars, ledgerVars, farmStakingAddressForToken>>

\* Storage and ledgers keep their types while only the journal moves.
LEMMA JournalType ==
    ASSUME SmartAccountTypeOK, Untouched, call' \in Call
    PROVE  SmartAccountTypeOK'
BY DEF SmartAccountTypeOK, Untouched, storageVars, ledgerVars

LEMMA PlanLength ==
    \A n \in 1..MAX_STRATEGIES_NO :
        n \in Nat /\ n <= MAX_STRATEGIES_NO /\ n # 0 /\ 1 \in 1..n
BY DEF MAX_STRATEGIES_NO

\* What the invariant says of a call that runs.
LEMMA CallFacts ==
    ASSUME SmartAccountInv, call.pc # "idle"
    PROVE  /\ call \in Call /\ call # NoCall
           /\ Complete(call.plan) /\ call.plan \in Seq(Strategy) /\ call.plan # <<>>
           /\ Len(call.plan) \in Nat /\ Len(call.plan) <= MAX_STRATEGIES_NO
           /\ call.step \in 1..Len(call.plan) /\ call.step \in Nat
           /\ CurrentStep \in Strategy
           /\ call.account \in Accounts /\ call.payment \in Nat /\ call.sent \in Nat
           /\ call.received \in Payment /\ call.esdt \in Wallets
           /\ esdt[call.account] \in Wallets
<1>1. call \in Call /\ call # NoCall
  BY RunningCall DEF SmartAccountInv
<1>2. Complete(call.plan) /\ call.step \in 1..Len(call.plan)
  BY <1>1 DEF SmartAccountInv, ArgumentsChecked
<1>3. call.plan \in Seq(Strategy) /\ Len(call.plan) \in 1..MAX_STRATEGIES_NO
  BY <1>2 DEF Complete
<1>4. Len(call.plan) \in Nat /\ Len(call.plan) <= MAX_STRATEGIES_NO /\ call.plan # <<>>
  <2>1. Len(call.plan) \in Nat /\ Len(call.plan) <= MAX_STRATEGIES_NO /\ Len(call.plan) # 0
    BY <1>3, PlanLength
  <2>2. Len(<<>>) = 0
    OBVIOUS
  <2>. QED BY <2>1, <2>2
<1>5. call.account \in Accounts /\ call.payment \in Nat /\ call.sent \in Nat
      /\ call.received \in Payment /\ call.esdt \in Wallets /\ call.step \in Nat
  BY <1>1 DEF Call, Wallets
<1>6. esdt[call.account] \in Wallets
  BY <1>5 DEF SmartAccountInv, SmartAccountTypeOK, Wallets
<1>7. CurrentStep \in Strategy
  BY <1>2, <1>3 DEF CurrentStep
<1>. QED BY <1>1, <1>2, <1>3, <1>4, <1>5, <1>6, <1>7

LEMMA AdvanceKeeps ==
    ASSUME SmartAccountInv, Walking, Untouched, NEW c \in Call,
           c.account = call.account, c.risk = call.risk, c.plan = call.plan,
           c.payment = call.payment, c.step = call.step, c.sent = call.sent + Due,
           c.esdt[WEGLD] + c.sent >= esdt[c.account][WEGLD] + c.payment,
           call' = Advance(c)
    PROVE  SmartAccountInv'
<1>1. /\ call' \in Call
      /\ call'.account = c.account /\ call'.risk = c.risk /\ call'.plan = c.plan
      /\ call'.payment = c.payment /\ call'.sent = c.sent /\ call'.esdt = c.esdt
      /\ c.step = Len(c.plan) => call'.pc = "return" /\ call'.step = c.step
      /\ c.step # Len(c.plan) => call'.pc = "swap" /\ call'.step = c.step + 1
  BY AdvanceFields
<1>2. SmartAccountTypeOK'
  BY <1>1, JournalType DEF SmartAccountInv
<1>3. /\ Complete(c.plan) /\ c.step \in 1..Len(c.plan)
      /\ c.plan \in Seq(Strategy) /\ Len(c.plan) \in Nat
      /\ Len(c.plan) <= MAX_STRATEGIES_NO
  BY CallFacts DEF Walking
<1>4. c.risk \in RiskLevels
  BY CallFacts DEF SmartAccountInv, ArgumentsChecked, Walking
<1>5. c.payment \in Nat /\ c.sent \in Nat /\ c.step \in Nat
  BY DEF Call
<1>6. /\ MAX_PERCENTAGE * c.sent <= c.payment * PercentageBefore(c.plan, c.step + 1)
      /\ c.payment * PercentageBefore(c.plan, c.step + 1)
            <= MAX_PERCENTAGE * c.sent + (MAX_PERCENTAGE - 1) * c.step
                  + MAX_PERCENTAGE * PairedUpTo(c.plan, c.step)
  BY DEF SmartAccountInv, BudgetKept, LossBounded
<1>7. DepositInWallet'
  BY <1>1 DEF DepositInWallet, Untouched, ledgerVars
<1>8. CASE c.step = Len(c.plan)
  <2>1. call'.pc = "return" /\ call'.step = c.step
    BY <1>1, <1>8
  <2>2. ArgumentsChecked'
    BY <1>1, <1>3, <1>4, <1>8, <2>1 DEF ArgumentsChecked
  <2>3. Due' = 0 /\ c.sent + 0 = c.sent
    BY <1>5, <2>1 DEF Due
  <2>4. BudgetKept' /\ LossBounded'
    BY <1>1, <1>6, <2>1, <2>3 DEF BudgetKept, LossBounded
  <2>5. OutputInHand'
    BY <2>1 DEF OutputInHand
  <2>. QED BY <1>2, <1>7, <2>2, <2>4, <2>5 DEF SmartAccountInv
<1>9. CASE c.step # Len(c.plan)
  <2>1. call'.pc = "swap" /\ call'.step = c.step + 1
    BY <1>1, <1>9
  <2>2. c.step + 1 \in 1..Len(c.plan) /\ c.step + 1 <= Len(c.plan)
    BY <1>3, <1>5, <1>9
  <2>3. ArgumentsChecked'
    BY <1>1, <1>3, <1>4, <2>1, <2>2 DEF ArgumentsChecked, Walking
  <2>4. PICK entry \in Strategy : entry = c.plan[c.step + 1]
    BY <1>3, <2>2
  <2>5. Due' = EntryAmount(c.payment, entry)
    BY <1>1, <2>1, <2>4 DEF Due, CurrentStep
  <2>6. /\ MAX_PERCENTAGE * (c.sent + EntryAmount(c.payment, entry))
             <= c.payment * PercentageBefore(c.plan, c.step + 1 + 1)
        /\ c.payment * PercentageBefore(c.plan, c.step + 1 + 1)
             <= MAX_PERCENTAGE * (c.sent + EntryAmount(c.payment, entry))
                    + (MAX_PERCENTAGE - 1) * (c.step + 1)
                    + MAX_PERCENTAGE * PairedUpTo(c.plan, c.step + 1)
    BY <1>3, <1>5, <1>6, <2>2, <2>4, NextEntryBounds
  <2>7. BudgetKept' /\ LossBounded'
    BY <1>1, <2>1, <2>5, <2>6 DEF BudgetKept, LossBounded
  <2>8. OutputInHand'
    BY <2>1 DEF OutputInHand
  <2>. QED BY <1>2, <1>7, <2>3, <2>7, <2>8 DEF SmartAccountInv
<1>. QED BY <1>8, <1>9

\* A call inside an entry moves no budget: what it sent is no longer due.
LEMMA WithinEntry ==
    ASSUME SmartAccountInv, Walking, Untouched, call' \in Call,
           call'.account = call.account, call'.risk = call.risk, call'.plan = call.plan,
           call'.payment = call.payment, call'.step = call.step,
           call'.pc \in {"stake", "liquidity", "farm"},
           call'.sent + Due' = call.sent + Due,
           call'.esdt[WEGLD] + call'.sent >= esdt[call.account][WEGLD] + call.payment,
           OutputInHand'
    PROVE  SmartAccountInv'
<1>1. SmartAccountTypeOK'
  BY JournalType DEF SmartAccountInv
<1>2. ArgumentsChecked'
  <2>1. Complete(call.plan) /\ call.step \in 1..Len(call.plan)
    BY CallFacts DEF Walking
  <2>2. call.risk \in RiskLevels
    BY CallFacts DEF SmartAccountInv, ArgumentsChecked, Walking
  <2>. QED BY <2>1, <2>2 DEF ArgumentsChecked
<1>3. BudgetKept' /\ LossBounded'
  BY DEF SmartAccountInv, BudgetKept, LossBounded
<1>4. DepositInWallet'
  BY DEF DepositInWallet, Untouched, ledgerVars
<1>. QED BY <1>1, <1>2, <1>3, <1>4 DEF SmartAccountInv

LEMMA InitInv ==
    ASSUME SmartAccountInit
    PROVE  SmartAccountInv
<1>1. call = NoCall /\ call.pc = "idle"
  BY DEF SmartAccountInit, NoCall
<1>2. SmartAccountTypeOK
  <2>1. egld \in [Holders -> Nat]
    BY LedgerAssumption DEF SmartAccountInit
  <2>2. farmStakingAddressForToken \in [TokenIds -> SmartContracts \cup {NoAddress}]
    BY MarketAssumption DEF SmartAccountInit
  <2>3. userStrategy \in [Accounts -> Seq(Strategy)] /\ userPortfolio \in [Accounts -> Seq(Payment)]
    BY DEF SmartAccountInit
  <2>4. userRiskTolerance \in [Accounts -> RiskLevels]
    BY DEF SmartAccountInit, RiskLevels, MAX_RISK_TOLERANCE
  <2>5. esdt \in [Accounts -> [TokenIds -> Nat]]
    BY DEF SmartAccountInit
  <2>. QED BY <1>1, <2>1, <2>2, <2>3, <2>4, <2>5 DEF SmartAccountTypeOK
<1>3. ~Walking
  BY <1>1 DEF Walking
<1>. QED BY <1>1, <1>2, <1>3
         DEF SmartAccountInv, ArgumentsChecked, BudgetKept, LossBounded, DepositInWallet,
             OutputInHand

LEMMA SetupStep ==
    ASSUME SmartAccountInv,
           NEW caller, NEW account \in Accounts, NEW risk \in Nat, NEW plan, Complete(plan),
           NEW payment \in Nat, NEW ledger \in [Holders -> Nat],
           SetupSmartAccount(caller, account, risk, plan, payment, ledger)
    PROVE  SmartAccountInv'
<1>1. /\ userPortfolio[account] \in Seq(Payment)
      /\ esdt[account] \in [TokenIds -> Nat]
  BY DEF SmartAccountInv, SmartAccountTypeOK
<1>2. Untouched
  BY DEF SetupSmartAccount, Untouched
<1>3. [token |-> WEGLD, amount |-> 0] \in Payment
  BY MarketAssumption DEF Payment
<1>4. plan \in Seq(Strategy) /\ 1 \in 1..Len(plan)
  <2>1. plan \in Seq(Strategy) /\ Len(plan) \in 1..MAX_STRATEGIES_NO
    BY DEF Complete
  <2>. QED BY <2>1, PlanLength
<1>5. call' \in Call
  BY <1>1, <1>3, <1>4 DEF SetupSmartAccount, Call
<1>6. call'.pc = "wrap" /\ call'.plan = plan /\ call'.step = 1 /\ call'.sent = 0
      /\ call'.account = account /\ call'.esdt = esdt[account]
  BY DEF SetupSmartAccount
<1>7. SmartAccountTypeOK'
  BY <1>2, <1>5, JournalType DEF SmartAccountInv
<1>8. ~Walking'
  BY <1>6 DEF Walking
<1>9. ArgumentsChecked'
  BY <1>2, <1>4, <1>6, <1>8 DEF ArgumentsChecked, Untouched, ledgerVars
<1>. QED BY <1>6, <1>7, <1>8, <1>9
         DEF SmartAccountInv, BudgetKept, LossBounded, DepositInWallet, OutputInHand

LEMMA WrapStep ==
    ASSUME SmartAccountInv, CallWrapEgld
    PROVE  SmartAccountInv'
<1>1. call.pc = "wrap" /\ call.payment > 0 /\ call.egld[call.account] >= call.payment
      /\ call.risk <= MAX_RISK_TOLERANCE /\ Untouched
  BY DEF CallWrapEgld, Untouched
<1>2. /\ call \in Call /\ call # NoCall /\ Complete(call.plan)
      /\ call.plan \in Seq(Strategy) /\ Len(call.plan) \in Nat
      /\ Len(call.plan) <= MAX_STRATEGIES_NO /\ call.step \in 1..Len(call.plan)
      /\ call.account \in Accounts /\ call.payment \in Nat /\ call.esdt \in Wallets
      /\ esdt[call.account] \in Wallets /\ CurrentStep \in Strategy
  BY <1>1, CallFacts
<1>3. call.sent = 0 /\ call.step = 1 /\ call.esdt = esdt[call.account]
  BY <1>1, <1>2 DEF SmartAccountInv, ArgumentsChecked
<1>. DEFINE wrapped == [token |-> WEGLD, amount |-> call.payment]
<1>4. wrapped \in Payment /\ wrapped.token = WEGLD /\ wrapped.amount = call.payment
  BY <1>2, MarketAssumption DEF Payment
<1>5. PICK wallet \in Wallets : /\ wallet = Credit(call.esdt, wrapped)
                                /\ wallet[WEGLD] = esdt[call.account][WEGLD] + call.payment
  <2>1. Credit(call.esdt, wrapped) \in Wallets
    BY <1>2, <1>4, CreditWallet
  <2>2. Credit(call.esdt, wrapped)[WEGLD] = esdt[call.account][WEGLD] + call.payment
    BY <1>2, <1>3, <1>4, MarketAssumption DEF Credit, Wallets
  <2>. QED BY <2>1, <2>2
<1>6. PICK ledger \in [Holders -> Nat] :
        ledger = Transfer(call.egld, call.account, Wrapper, call.payment)
  <2>1. call.egld \in [Holders -> Nat] /\ call.account \in Holders /\ Wrapper \in Holders
    BY <1>2 DEF Call, Holders
  <2>. QED BY <1>1, <1>2, <2>1, TransferType
<1>7. call' = [call EXCEPT !.pc = "swap", !.received = wrapped, !.egld = ledger, !.esdt = wallet]
  BY <1>5, <1>6 DEF CallWrapEgld
<1>. HIDE DEF wrapped
<1>8. call' \in Call /\ call'.pc = "swap" /\ call'.plan = call.plan /\ call'.step = 1
      /\ call'.sent = 0 /\ call'.account = call.account /\ call'.esdt = wallet
      /\ call'.payment = call.payment /\ call'.risk = call.risk
  BY <1>2, <1>3, <1>4, <1>7 DEF Call, Wallets
<1>9. SmartAccountTypeOK'
  BY <1>1, <1>8, JournalType DEF SmartAccountInv
<1>10. call.risk \in RiskLevels
  BY <1>1, <1>2 DEF Call, RiskLevels, MAX_RISK_TOLERANCE
<1>11. ArgumentsChecked'
  BY <1>2, <1>3, <1>8, <1>10 DEF ArgumentsChecked
<1>12. PICK entry \in Strategy : entry = call.plan[0 + 1] /\ entry = call.plan[1]
  BY <1>2, <1>3 DEF CurrentStep
<1>13. Due' = EntryAmount(call.payment, entry)
  BY <1>8, <1>12 DEF Due, CurrentStep
<1>14. /\ MAX_PERCENTAGE * (0 + EntryAmount(call.payment, entry))
             <= call.payment * PercentageBefore(call.plan, 0 + 1 + 1)
       /\ call.payment * PercentageBefore(call.plan, 0 + 1 + 1)
             <= MAX_PERCENTAGE * (0 + EntryAmount(call.payment, entry))
                    + (MAX_PERCENTAGE - 1) * (0 + 1)
                    + MAX_PERCENTAGE * PairedUpTo(call.plan, 0 + 1)
  <2>1. PercentageBefore(call.plan, 0 + 1) = 0
    BY DEF PercentageBefore
  <2>2. PairedUpTo(call.plan, 0) = 0
    BY PairedCount
  <2>3. 0 + 1 <= Len(call.plan)
    BY <1>2, <1>3
  <2>4. MAX_PERCENTAGE * 0 = 0 /\ call.payment * 0 = 0 /\ (MAX_PERCENTAGE - 1) * 0 = 0
    BY <1>2 DEF MAX_PERCENTAGE
  <2>5. /\ MAX_PERCENTAGE * 0 <= call.payment * PercentageBefore(call.plan, 0 + 1)
        /\ call.payment * PercentageBefore(call.plan, 0 + 1)
              <= MAX_PERCENTAGE * 0 + (MAX_PERCENTAGE - 1) * 0
                    + MAX_PERCENTAGE * PairedUpTo(call.plan, 0)
    BY <2>1, <2>2, <2>4
  <2>. QED BY <1>2, <1>12, <2>3, <2>5, NextEntryBounds
<1>15. BudgetKept' /\ LossBounded'
  <2>1. 0 + 1 = 1 /\ 0 + 1 + 1 = 1 + 1
    OBVIOUS
  <2>. QED BY <1>8, <1>13, <1>14, <2>1 DEF BudgetKept, LossBounded
<1>16. DepositInWallet'
  BY <1>1, <1>2, <1>5, <1>8, MarketAssumption
     DEF DepositInWallet, Untouched, ledgerVars, Wallets
<1>17. OutputInHand'
  BY <1>8 DEF OutputInHand
<1>. QED BY <1>9, <1>11, <1>15, <1>16, <1>17 DEF SmartAccountInv

LEMMA SwapStep ==
    ASSUME SmartAccountInv, CallPairSwap
    PROVE  SmartAccountInv'
<1>1. call.pc = "swap" /\ Walking /\ Untouched
  BY DEF CallPairSwap, Walking, Untouched
<1>2. /\ call \in Call /\ CurrentStep \in Strategy /\ call.plan \in Seq(Strategy)
      /\ call.payment \in Nat /\ call.sent \in Nat /\ call.esdt \in Wallets
      /\ esdt[call.account] \in Wallets
  BY <1>1, CallFacts
<1>3. PICK entry \in Strategy : entry = CurrentStep
  BY <1>2
<1>4. PICK half \in Nat : half = TransferAmount(call.payment, entry)
  BY <1>2, AmountBounds
<1>5. Due = EntryAmount(call.payment, entry)
  BY <1>1, <1>3 DEF Due
<1>6. PICK input \in Payment : /\ input = [token |-> WEGLD, amount |-> half]
                               /\ input.token = WEGLD /\ input.amount = half
  BY MarketAssumption, PaymentOf
<1>7. PICK amount \in Yields :
        /\ PairOf(entry) \in Pairs
        /\ {FirstToken[PairOf(entry)], SecondToken[PairOf(entry)]}
              = {WEGLD, entry.output_token_id}
        /\ Covered(call.esdt, input)
        /\ LET output  == [token |-> entry.output_token_id, amount |-> amount]
               swapped == [call EXCEPT !.received = output,
                                       !.sent = @ + input.amount,
                                       !.esdt = Credit(Debit(@, input), output)]
           IN  \/ /\ entry.position_type = "ESDT"
                  /\ call' = Advance(swapped)
               \/ /\ entry.position_type = "Staking"
                  /\ call' = [swapped EXCEPT !.pc = "stake"]
               \/ /\ Paired(entry)
                  /\ call' = [swapped EXCEPT !.pc = "liquidity"]
  BY <1>3, <1>4, <1>6 DEF CallPairSwap
<1>8. PICK output \in Payment :
        /\ output = [token |-> entry.output_token_id, amount |-> amount]
        /\ output.token = entry.output_token_id /\ output.amount = amount /\ amount > 0
  <2>1. amount \in Nat /\ amount > 0
    BY LedgerAssumption
  <2>2. entry.output_token_id \in TokenIds
    BY DEF Strategy
  <2>. QED BY <2>1, <2>2, PaymentOf
<1>9. output.token # WEGLD
  <2>1. FirstToken[PairOf(entry)] # SecondToken[PairOf(entry)]
    BY <1>7, MarketAssumption
  <2>2. {FirstToken[PairOf(entry)], SecondToken[PairOf(entry)]} = {WEGLD, output.token}
    BY <1>7, <1>8
  <2>. QED BY <2>1, <2>2
<1>10. PICK debited \in Wallets : /\ debited = Debit(call.esdt, input)
                                  /\ debited[WEGLD] = call.esdt[WEGLD] - half
  BY <1>2, <1>6, <1>7, DebitWallet
<1>11. PICK wallet \in Wallets : /\ wallet = Credit(debited, output)
                                 /\ wallet[WEGLD] >= debited[WEGLD]
                                 /\ wallet[output.token] >= output.amount
  BY CreditWallet, MarketAssumption
<1>12. wallet[WEGLD] + (call.sent + half) >= esdt[call.account][WEGLD] + call.payment
  <2>1. call.esdt[WEGLD] + call.sent >= esdt[call.account][WEGLD] + call.payment
    BY <1>1 DEF SmartAccountInv, DepositInWallet
  <2>2. /\ wallet[WEGLD] \in Nat /\ debited[WEGLD] \in Nat /\ call.esdt[WEGLD] \in Nat
        /\ esdt[call.account][WEGLD] \in Nat
    BY <1>2, MarketAssumption DEF Wallets
  <2>3. debited[WEGLD] = call.esdt[WEGLD] - half /\ wallet[WEGLD] >= debited[WEGLD]
    BY <1>10, <1>11
  <2>4. half \in Nat /\ call.sent \in Nat /\ call.payment \in Nat
    BY <1>2
  <2>. QED BY <2>1, <2>2, <2>3, <2>4, StillCovered
<1>13. PICK sent \in Nat : sent = call.sent + half
  BY <1>2
<1>14. PICK swapped : swapped = [call EXCEPT !.received = output, !.sent = sent, !.esdt = wallet]
  OBVIOUS
<1>15. \/ entry.position_type = "ESDT" /\ call' = Advance(swapped)
       \/ entry.position_type = "Staking" /\ call' = [swapped EXCEPT !.pc = "stake"]
       \/ Paired(entry) /\ call' = [swapped EXCEPT !.pc = "liquidity"]
  BY <1>6, <1>7, <1>8, <1>10, <1>11, <1>13, <1>14
<1>16. /\ swapped \in Call /\ swapped.account = call.account /\ swapped.risk = call.risk
       /\ swapped.plan = call.plan /\ swapped.payment = call.payment
       /\ swapped.step = call.step /\ swapped.received = output
       /\ swapped.sent = sent /\ swapped.esdt = wallet
  BY <1>2, <1>14 DEF Call, Wallets
<1>17. CASE entry.position_type = "ESDT" /\ call' = Advance(swapped)
  <2>1. Due = half
    BY <1>4, <1>5, <1>17 DEF EntryAmount, Paired
  <2>. QED BY <1>1, <1>12, <1>13, <1>16, <1>17, <2>1, AdvanceKeeps
<1>18. ASSUME NEW pc \in {"stake", "liquidity"}, call' = [swapped EXCEPT !.pc = pc]
       PROVE  /\ call' \in Call /\ call'.pc = pc
              /\ call'.account = call.account /\ call'.risk = call.risk
              /\ call'.plan = call.plan /\ call'.payment = call.payment
              /\ call'.step = call.step /\ call'.received = output
              /\ call'.sent = sent /\ call'.esdt = wallet /\ CurrentStep' = entry
  BY <1>3, <1>16, <1>18 DEF Call, CurrentStep
<1>19. CASE entry.position_type = "Staking" /\ call' = [swapped EXCEPT !.pc = "stake"]
  <2>1. Due = half /\ sent + 0 = call.sent + half
    BY <1>4, <1>5, <1>13, <1>19 DEF EntryAmount, Paired
  <2>2. Due' = 0 /\ OutputInHand'
    BY <1>9, <1>18, <1>19 DEF Due, OutputInHand
  <2>. QED BY <1>1, <1>12, <1>13, <1>18, <1>19, <2>1, <2>2, WithinEntry
<1>20. CASE Paired(entry) /\ call' = [swapped EXCEPT !.pc = "liquidity"]
  <2>1. Due = 2 * half /\ Due' = half
    BY <1>4, <1>5, <1>18, <1>20 DEF EntryAmount, Due
  <2>2. sent + half = call.sent + 2 * half
    BY <1>2, <1>13
  <2>3. half > 0
    BY <1>6, <1>7 DEF Covered
  <2>4. Covered(wallet, output)
    BY <1>8, <1>11 DEF Covered
  <2>5. OutputInHand'
    BY <1>4, <1>7, <1>8, <1>9, <1>18, <1>20, <2>3, <2>4 DEF OutputInHand, PairOf
  <2>. QED BY <1>1, <1>12, <1>13, <1>18, <1>20, <2>1, <2>2, <2>5, WithinEntry
<1>. QED BY <1>15, <1>17, <1>19, <1>20

\* Entering a farm or staking contract: the WEGLD is untouched, nothing is due.
LEMMA EnterKeeps ==
    ASSUME SmartAccountInv, call.pc \in {"stake", "farm"},
           NEW contract \in Farms \cup StakingContracts, Enter(contract)
    PROVE  SmartAccountInv'
<1>1. Walking /\ Untouched
  BY DEF Enter, Walking, Untouched
<1>2. /\ call \in Call /\ call.received \in Payment
      /\ call.payment \in Nat /\ call.sent \in Nat /\ call.esdt \in Wallets
      /\ esdt[call.account] \in Wallets
  BY <1>1, CallFacts DEF Walking
<1>3. call.received.token # WEGLD
  BY DEF SmartAccountInv, OutputInHand
<1>4. PICK amount \in Yields, reward \in Rewards :
        LET receipt == [token |-> ReceiptToken[contract], amount |-> amount]
            rewards == [token |-> RewardToken[contract], amount |-> reward]
        IN  call' = Advance([call EXCEPT
                       !.received = receipt,
                       !.esdt = Credit(Credit(Debit(@, call.received), receipt), rewards)])
  BY DEF Enter
<1>5. amount \in Nat /\ reward \in Nat
  BY LedgerAssumption
<1>6. ReceiptToken[contract] \in TokenIds /\ RewardToken[contract] \in TokenIds
  BY MarketAssumption
<1>7. PICK receipt \in Payment :
        receipt = [token |-> ReceiptToken[contract], amount |-> amount]
  BY <1>5, <1>6, PaymentOf
<1>8. PICK rewards \in Payment :
        rewards = [token |-> RewardToken[contract], amount |-> reward]
  BY <1>5, <1>6, PaymentOf
<1>9. PICK debited \in Wallets : /\ debited = Debit(call.esdt, call.received)
                                 /\ debited[WEGLD] = call.esdt[WEGLD]
  BY <1>2, <1>3, DebitWallet, MarketAssumption DEF Enter
<1>10. PICK credited \in Wallets : /\ credited = Credit(debited, receipt)
                                   /\ credited[WEGLD] >= debited[WEGLD]
  BY CreditWallet, MarketAssumption
<1>11. PICK wallet \in Wallets : /\ wallet = Credit(credited, rewards)
                                 /\ wallet[WEGLD] >= credited[WEGLD]
  BY CreditWallet, MarketAssumption
<1>12. PICK c : c = [call EXCEPT !.received = receipt, !.esdt = wallet]
  OBVIOUS
<1>13. call' = Advance(c)
  BY <1>4, <1>7, <1>8, <1>9, <1>10, <1>11, <1>12
<1>14. /\ c \in Call /\ c.account = call.account /\ c.risk = call.risk
       /\ c.plan = call.plan /\ c.payment = call.payment /\ c.step = call.step
       /\ c.sent = call.sent /\ c.esdt = wallet
  BY <1>2, <1>12 DEF Call, Wallets
<1>15. Due = 0 /\ c.sent = call.sent + Due
  BY <1>2, <1>14 DEF Due
<1>16. c.esdt[WEGLD] + c.sent >= esdt[c.account][WEGLD] + c.payment
  <2>1. call.esdt[WEGLD] + call.sent >= esdt[call.account][WEGLD] + call.payment
    BY <1>1 DEF SmartAccountInv, DepositInWallet
  <2>2. /\ wallet[WEGLD] \in Nat /\ credited[WEGLD] \in Nat /\ debited[WEGLD] \in Nat
        /\ call.esdt[WEGLD] \in Nat /\ esdt[call.account][WEGLD] \in Nat
    BY <1>2, MarketAssumption DEF Wallets
  <2>3. wallet[WEGLD] >= call.esdt[WEGLD]
    BY <1>9, <1>10, <1>11, <2>2
  <2>. QED BY <1>2, <1>14, <2>1, <2>2, <2>3
<1>. QED BY <1>1, <1>13, <1>14, <1>15, <1>16, AdvanceKeeps

LEMMA StakeStep ==
    ASSUME SmartAccountInv, CallFarmStakingStake
    PROVE  SmartAccountInv'
<1>1. PICK staking \in StakingContracts : call.pc = "stake" /\ Enter(staking)
  BY DEF CallFarmStakingStake
<1>. QED BY <1>1, EnterKeeps

LEMMA FarmStep ==
    ASSUME SmartAccountInv, CallEnterFarm
    PROVE  SmartAccountInv'
<1>1. call.pc = "farm" /\ Enter(CurrentStep.contract_address)
  BY DEF CallEnterFarm
<1>2. CurrentStep \in Strategy
  BY <1>1, CallFacts
<1>3. PairOf(CurrentStep) \in Pairs /\ CurrentStep.position_type = "Farm"
  BY <1>1 DEF SmartAccountInv, OutputInHand
<1>4. CurrentStep.contract_address \in Farms
  BY <1>2, <1>3, LedgerAssumption DEF PairOf, Farms, Strategy
<1>. QED BY <1>1, <1>4, EnterKeeps

LEMMA LiquidityStep ==
    ASSUME SmartAccountInv, CallPairAddLiquidity
    PROVE  SmartAccountInv'
<1>1. call.pc = "liquidity" /\ Walking /\ Untouched
  BY DEF CallPairAddLiquidity, Walking, Untouched
<1>2. /\ call \in Call /\ CurrentStep \in Strategy /\ call.received \in Payment
      /\ call.payment \in Nat /\ call.sent \in Nat /\ call.esdt \in Wallets
      /\ esdt[call.account] \in Wallets
  BY <1>1, CallFacts
<1>3. PICK entry \in Strategy : entry = CurrentStep
  BY <1>2
<1>4. PICK half \in Nat : half = TransferAmount(call.payment, entry)
  BY <1>2, AmountBounds
<1>5. Due = half
  BY <1>1, <1>3, <1>4 DEF Due
<1>6. PICK pair \in Pairs : /\ pair = PairOf(entry)
                            /\ {FirstToken[pair], SecondToken[pair]} = {WEGLD, call.received.token}
                            /\ call.received.token # WEGLD
  BY <1>1, <1>3 DEF SmartAccountInv, OutputInHand
<1>7. PICK payments : /\ payments = LiquidityPayments(pair, half, call.received)
                      /\ InPairOrder(pair, payments)
                      /\ Covered(call.esdt, payments[1])
                      /\ Covered(call.esdt, payments[2])
  BY <1>3, <1>4, <1>6 DEF CallPairAddLiquidity
<1>8. PICK first \in Payment, second \in Payment :
        /\ payments[1] = first /\ payments[2] = second
        /\ first.token # second.token
        /\ \/ first.token = WEGLD /\ first.amount = half
           \/ second.token = WEGLD /\ second.amount = half
  <2>1. PICK half_payment \in Payment : /\ half_payment = [token |-> WEGLD, amount |-> half]
                                /\ half_payment.token = WEGLD /\ half_payment.amount = half
    BY MarketAssumption, PaymentOf
  <2>2. CASE FirstToken[pair] = WEGLD
    <3>1. payments[1] = half_payment /\ payments[2] = call.received
      BY <1>7, <2>1, <2>2 DEF LiquidityPayments
    <3>. QED BY <1>2, <1>6, <2>1, <3>1
  <2>3. CASE FirstToken[pair] # WEGLD
    <3>1. SecondToken[pair] = WEGLD
      BY <1>6, <2>3
    <3>2. payments[2] = half_payment /\ payments[1] = call.received
      BY <1>7, <2>1, <2>3, <3>1 DEF LiquidityPayments
    <3>. QED BY <1>2, <1>6, <2>1, <3>2
  <2>. QED BY <2>2, <2>3
<1>9. PICK side \in {1, 2}, minted \in Yields : \E used \in 1..payments[side].amount :
        call' = LiquidityAdded(entry, payments, half, side, used, minted)
  BY <1>3, <1>4, <1>6, <1>7 DEF CallPairAddLiquidity
<1>10. PICK debit1 \in Wallets : /\ debit1 = Debit(call.esdt, first)
                                 /\ debit1[first.token] = call.esdt[first.token] - first.amount
                                 /\ \A token \in TokenIds \ {first.token} :
                                       debit1[token] = call.esdt[token]
  BY <1>2, <1>7, <1>8, DebitWallet
<1>11. Covered(debit1, second)
  BY <1>2, <1>7, <1>8, <1>10 DEF Covered, Payment
<1>12. PICK debit2 \in Wallets : /\ debit2 = Debit(debit1, second)
                                 /\ debit2[second.token] = debit1[second.token] - second.amount
                                 /\ \A token \in TokenIds \ {second.token} :
                                       debit2[token] = debit1[token]
  BY <1>11, DebitWallet
<1>13. debit2[WEGLD] = call.esdt[WEGLD] - half
  BY <1>8, <1>10, <1>12, MarketAssumption
<1>14. PICK rest \in Payment, lp \in Payment :
        LET done == [call EXCEPT !.received = lp,
                                 !.sent = @ + half,
                                 !.esdt = Credit(Credit(debit2, rest), lp)]
        IN  /\ lp.token # WEGLD
            /\ call' = IF entry.position_type = "Farm"
                       THEN [done EXCEPT !.pc = "farm"]
                       ELSE Advance(done)
  <2>1. PICK used \in 1..payments[side].amount :
          call' = LiquidityAdded(entry, payments, half, side, used, minted)
    BY <1>9
  <2>2. PICK payment \in Payment : payment = payments[side]
    BY <1>8
  <2>3. PICK rest \in Payment : rest = [payments[side] EXCEPT !.amount = @ - used]
    <3>1. used \in 1..payment.amount /\ payment.amount \in Nat
      BY <2>1, <2>2 DEF Payment
    <3>2. payment.amount - used \in Nat
      BY <3>1
    <3>. QED BY <2>2, <3>2 DEF Payment
  <2>4. minted \in Nat /\ ReceiptToken[pair] \in TokenIds /\ ReceiptToken[pair] # WEGLD
    BY LedgerAssumption, MarketAssumption
  <2>5. PICK lp \in Payment : /\ lp = [token |-> ReceiptToken[pair], amount |-> minted]
                              /\ lp.token # WEGLD
    BY <2>4, PaymentOf
  <2>6. Debit(Debit(call.esdt, payments[1]), payments[2]) = debit2
    BY <1>8, <1>10, <1>12
  <2>. QED BY <1>6, <2>1, <2>3, <2>5, <2>6 DEF LiquidityAdded
<1>15. PICK credited \in Wallets : /\ credited = Credit(debit2, rest)
                                   /\ credited[WEGLD] >= debit2[WEGLD]
  BY CreditWallet, MarketAssumption
<1>16. PICK wallet \in Wallets : /\ wallet = Credit(credited, lp)
                                 /\ wallet[WEGLD] >= credited[WEGLD]
  BY CreditWallet, MarketAssumption
<1>17. PICK sent \in Nat : sent = call.sent + half
  BY <1>2
<1>18. wallet[WEGLD] + (call.sent + half) >= esdt[call.account][WEGLD] + call.payment
  <2>1. call.esdt[WEGLD] + call.sent >= esdt[call.account][WEGLD] + call.payment
    BY <1>1 DEF SmartAccountInv, DepositInWallet
  <2>2. /\ wallet[WEGLD] \in Nat /\ credited[WEGLD] \in Nat /\ debit2[WEGLD] \in Nat
        /\ call.esdt[WEGLD] \in Nat /\ esdt[call.account][WEGLD] \in Nat
    BY <1>2, MarketAssumption DEF Wallets
  <2>3. wallet[WEGLD] >= debit2[WEGLD]
    BY <1>15, <1>16, <2>2
  <2>. QED BY <1>2, <1>13, <2>1, <2>2, <2>3, StillCovered
<1>19. PICK done : done = [call EXCEPT !.received = lp, !.sent = sent, !.esdt = wallet]
  OBVIOUS
<1>20. call' = IF entry.position_type = "Farm" THEN [done EXCEPT !.pc = "farm"] ELSE Advance(done)
  BY <1>14, <1>15, <1>16, <1>17, <1>19
<1>21. /\ done \in Call /\ done.account = call.account /\ done.risk = call.risk
       /\ done.plan = call.plan /\ done.payment = call.payment /\ done.step = call.step
       /\ done.received = lp /\ done.sent = sent /\ done.esdt = wallet
  BY <1>2, <1>19 DEF Call, Wallets
<1>22. CASE entry.position_type = "Farm"
  <2>1. call' = [done EXCEPT !.pc = "farm"]
    BY <1>20, <1>22
  <2>2. /\ call' \in Call /\ call'.pc = "farm" /\ call'.account = call.account
        /\ call'.risk = call.risk /\ call'.plan = call.plan /\ call'.payment = call.payment
        /\ call'.step = call.step /\ call'.received = lp /\ call'.sent = sent
        /\ call'.esdt = wallet /\ CurrentStep' = entry
    BY <1>3, <1>21, <2>1 DEF Call, CurrentStep
  <2>3. Due' = 0 /\ sent + 0 = call.sent + Due
    BY <1>5, <1>17, <2>2 DEF Due
  <2>4. OutputInHand'
    BY <1>6, <1>14, <1>22, <2>2 DEF OutputInHand, PairOf
  <2>. QED BY <1>1, <1>17, <1>18, <2>2, <2>3, <2>4, WithinEntry
<1>23. CASE entry.position_type # "Farm"
  <2>1. call' = Advance(done)
    BY <1>20, <1>23
  <2>. QED BY <1>1, <1>5, <1>17, <1>18, <1>21, <2>1, AdvanceKeeps
<1>. QED BY <1>22, <1>23

\* Without a call in flight only the types are left to show.
LEMMA IdleInv ==
    ASSUME SmartAccountTypeOK, call = NoCall
    PROVE  SmartAccountInv
<1>1. call.pc = "idle"
  BY DEF NoCall
<1>2. ~Walking
  BY <1>1 DEF Walking
<1>. QED BY <1>1, <1>2
         DEF SmartAccountInv, ArgumentsChecked, BudgetKept, LossBounded, DepositInWallet,
             OutputInHand

LEMMA ReturnStep ==
    ASSUME SmartAccountInv, Return
    PROVE  SmartAccountInv'
<1>1. call.pc = "return" /\ call' = NoCall
  BY DEF Return
<1>2. call \in Call /\ call # NoCall
  BY <1>1, RunningCall DEF SmartAccountInv
<1>3. call.risk \in RiskLevels
  BY <1>1, <1>2 DEF SmartAccountInv, ArgumentsChecked, Walking
<1>4. /\ call.account \in Accounts /\ call.plan \in Seq(Strategy)
      /\ call.portfolio \in Seq(Payment) /\ call.egld \in [Holders -> Nat]
      /\ call.esdt \in [TokenIds -> Nat]
  BY <1>2 DEF Call
<1>5. SmartAccountTypeOK'
  BY <1>1, <1>3, <1>4 DEF Return, SmartAccountInv, SmartAccountTypeOK
<1>6. SmartAccountTypeOK' /\ (call = NoCall)' => SmartAccountInv'
  BY IdleInv, PTL
<1>. QED BY <1>1, <1>5, <1>6

LEMMA FailStep ==
    ASSUME SmartAccountInv, Fail
    PROVE  SmartAccountInv'
<1>1. SmartAccountTypeOK' /\ call' = NoCall
  BY DEF Fail, SmartAccountInv, SmartAccountTypeOK, storageVars, ledgerVars
<1>2. SmartAccountTypeOK' /\ (call = NoCall)' => SmartAccountInv'
  BY IdleInv, PTL
<1>. QED BY <1>1, <1>2

\* Each call of the transaction in flight, whoever else is in the system.
LEMMA CallStepInv ==
    ASSUME SmartAccountInv, CallStep
    PROVE  SmartAccountInv'
BY WrapStep, SwapStep, StakeStep, LiquidityStep, FarmStep, ReturnStep, FailStep
   DEF CallStep, Proceed

LEMMA StutterInv ==
    ASSUME SmartAccountInv, UNCHANGED accountVars
    PROVE  SmartAccountInv'
<1>1. /\ UNCHANGED <<userRiskTolerance, userStrategy, userPortfolio>>
      /\ UNCHANGED <<egld, esdt, farmStakingAddressForToken, call>>
  BY DEF accountVars, storageVars, ledgerVars
<1>2. SmartAccountTypeOK'
  BY <1>1 DEF SmartAccountInv, SmartAccountTypeOK
<1>3. ArgumentsChecked' /\ DepositInWallet' /\ OutputInHand'
  BY <1>1 DEF SmartAccountInv, ArgumentsChecked, DepositInWallet, OutputInHand, Walking,
              CurrentStep
<1>4. BudgetKept' /\ LossBounded'
  BY <1>1 DEF SmartAccountInv, BudgetKept, LossBounded, Walking, Due, CurrentStep
<1>. QED BY <1>2, <1>3, <1>4 DEF SmartAccountInv

LEMMA ChangeStakingStep ==
    ASSUME SmartAccountInv, ChangeStaking
    PROVE  SmartAccountInv'
<1>1. farmStakingAddressForToken' \in [TokenIds -> SmartContracts \cup {NoAddress}]
  BY MarketAssumption DEF ChangeStaking
<1>2. SmartAccountTypeOK' /\ call' = NoCall
  BY <1>1 DEF ChangeStaking, SmartAccountInv, SmartAccountTypeOK, storageVars, ledgerVars
<1>3. SmartAccountTypeOK' /\ (call = NoCall)' => SmartAccountInv'
  BY IdleInv, PTL
<1>. QED BY <1>2, <1>3

LEMMA NextInv ==
    ASSUME SmartAccountInv, [SmartAccountNext]_accountVars
    PROVE  SmartAccountInv'
<1>1. ASSUME NEW caller \in {Deployer} \cup Parties, NEW account \in Accounts,
             NEW risk \in RiskLevels, NEW plan \in Plans, NEW payment \in Deposits,
             egld[caller] >= payment,
             SetupSmartAccount(caller, account, risk, plan, payment,
                               Transfer(egld, caller, account, payment))
      PROVE  SmartAccountInv'
  <2>1. risk \in Nat /\ payment \in Nat /\ Complete(plan)
    BY LedgerAssumption, PlansAssumption DEF RiskLevels, MAX_RISK_TOLERANCE
  <2>2. PICK ledger \in [Holders -> Nat] : ledger = Transfer(egld, caller, account, payment)
    <3>1. egld \in [Holders -> Nat] /\ caller \in Holders /\ account \in Holders
      BY DEF SmartAccountInv, SmartAccountTypeOK, Holders
    <3>. QED BY <1>1, <2>1, <3>1, TransferType
  <2>. QED BY <1>1, <2>1, <2>2, SetupStep
<1>2. CASE CallStep
  BY <1>2, CallStepInv
<1>3. CASE UNCHANGED accountVars
  BY <1>3, StutterInv
<1>4. CASE ChangeStaking
  BY <1>4, ChangeStakingStep
<1>. QED BY <1>1, <1>2, <1>3, <1>4 DEF SmartAccountNext

\* The invariant of the walk: within its share of the deposit after every entry,
\* behind it by no more than the roundings.
THEOREM InvariantHolds == SmartAccountSpec => []SmartAccountInv
<1>1. SmartAccountInit => SmartAccountInv
  BY InitInv
<1>2. SmartAccountInv /\ [SmartAccountNext]_accountVars => SmartAccountInv'
  BY NextInv
<1>. QED BY <1>1, <1>2, PTL DEF SmartAccountSpec

\* Storage, ledgers and the call in flight keep their types; no transfer takes a
\* balance below zero.
THEOREM SmartAccountTypeCorrect == SmartAccountSpec => []SmartAccountTypeOK
<1>1. SmartAccountInv => SmartAccountTypeOK
  BY DEF SmartAccountInv
<1>. QED BY <1>1, InvariantHolds, PTL

-----------------------------------------------------------------------------
(***************************************************************************)
(* What the invariant gives.                                               *)
(***************************************************************************)
LEMMA Cancel ==
    ASSUME NEW m \in Nat, m > 0, NEW a \in Nat, NEW t \in Nat, m * a <= t * m
    PROVE  a <= t
<1>. SUFFICES ASSUME a >= t + 1 PROVE FALSE
  OBVIOUS
<1>1. m * a >= m * (t + 1)
  OBVIOUS
<1>2. m * (t + 1) = t * m + m
  OBVIOUS
<1>. QED BY <1>1, <1>2

\* Nothing more is sent than was deposited.
LEMMA WithinDeposit ==
    ASSUME SmartAccountInv, Walking
    PROVE  Due \in Nat /\ call.sent + Due <= call.payment
<1>1. /\ Complete(call.plan) /\ call.plan \in Seq(Strategy)
      /\ call.step \in 1..Len(call.plan) /\ call.step \in Nat /\ Len(call.plan) \in Nat
      /\ Len(call.plan) <= MAX_STRATEGIES_NO /\ CurrentStep \in Strategy
      /\ call.payment \in Nat /\ call.sent \in Nat
  BY CallFacts DEF Walking
<1>2. Due \in Nat
  BY <1>1, AmountBounds DEF Due
<1>3. call.step \in 1..MAX_STRATEGIES_NO
  BY <1>1 DEF MAX_STRATEGIES_NO
<1>4. PICK below \in Nat : /\ below = PercentageBefore(call.plan, call.step + 1)
                           /\ below <= MAX_PERCENTAGE
  BY <1>1, <1>3, PercentageBeforeStep DEF Complete
<1>5. MAX_PERCENTAGE * (call.sent + Due) <= call.payment * below
  BY <1>4 DEF SmartAccountInv, BudgetKept
<1>6. MAX_PERCENTAGE \in Nat /\ MAX_PERCENTAGE > 0
  BY DEF MAX_PERCENTAGE
<1>7. call.payment * below <= call.payment * MAX_PERCENTAGE
  BY <1>1, <1>4, <1>6, Products
<1>8. PICK spent \in Nat : spent = call.sent + Due
  BY <1>1, <1>2
<1>9. /\ MAX_PERCENTAGE * spent \in Nat /\ call.payment * below \in Nat
      /\ call.payment * MAX_PERCENTAGE \in Nat
  BY <1>1, <1>4, <1>6, <1>8, Products
<1>10. MAX_PERCENTAGE * spent <= call.payment * MAX_PERCENTAGE
  BY <1>5, <1>7, <1>8, <1>9
<1>. QED BY <1>1, <1>2, <1>6, <1>8, <1>10, Cancel

LEMMA CoversTransfers ==
    ASSUME SmartAccountInv
    PROVE  DepositCoversTransfers
<1>. SUFFICES ASSUME call.pc \in {"swap", "liquidity"}
              PROVE  call.esdt[WEGLD] >= esdt[call.account][WEGLD] + Due
  BY DEF DepositCoversTransfers
<1>1. Walking
  BY DEF Walking
<1>2. call.sent \in Nat /\ call.payment \in Nat /\ call.esdt \in Wallets
      /\ esdt[call.account] \in Wallets
  BY <1>1, CallFacts
<1>3. call.esdt[WEGLD] \in Nat /\ esdt[call.account][WEGLD] \in Nat
  BY <1>2, MarketAssumption DEF Wallets
<1>4. call.esdt[WEGLD] + call.sent >= esdt[call.account][WEGLD] + call.payment
  BY <1>1 DEF SmartAccountInv, DepositInWallet
<1>. QED BY <1>1, <1>2, <1>3, <1>4, WithinDeposit

\* No transfer is ever paid from what earlier deposits left behind.
THEOREM DepositsCover == SmartAccountSpec => []DepositCoversTransfers
<1>. QED BY InvariantHolds, CoversTransfers, PTL

LEMMA Roundings ==
    ASSUME NEW m \in Nat, m > 0, NEW n \in Nat, n > 0,
           NEW t \in Nat, NEW sent \in Nat, NEW pairs \in Nat,
           t * m <= m * sent + (m - 1) * n + m * pairs
    PROVE  t + 1 <= sent + n + pairs
<1>. SUFFICES ASSUME t >= sent + n + pairs PROVE FALSE
  OBVIOUS
<1>1. PICK all \in Nat : all = sent + n + pairs
  OBVIOUS
<1>2. m * all <= m * t /\ m * t = t * m
  BY <1>1
<1>3. m * all = m * sent + m * n + m * pairs
  BY <1>1
<1>4. (m - 1) * n = m * n - n
  OBVIOUS
<1>. QED BY <1>2, <1>3, <1>4

LEMMA DustBound ==
    ASSUME SmartAccountInv
    PROVE  DustIsBounded
<1>. SUFFICES ASSUME call.pc = "return"
              PROVE  call.payment + 1 <= call.sent + Len(call.plan)
                                            + PairedUpTo(call.plan, Len(call.plan))
  BY DEF DustIsBounded
<1>1. Walking /\ call # NoCall
  BY CallFacts DEF Walking
<1>2. /\ Complete(call.plan) /\ call.plan \in Seq(Strategy) /\ Len(call.plan) \in Nat
      /\ call.payment \in Nat /\ call.sent \in Nat
  BY CallFacts
<1>3. call.step = Len(call.plan) /\ Due = 0
  BY <1>1 DEF SmartAccountInv, ArgumentsChecked, Due
<1>4. /\ PercentageBefore(call.plan, Len(call.plan) + 1) = MAX_PERCENTAGE
      /\ Len(call.plan) > 0
  <2>1. Len(call.plan) \in 1..MAX_STRATEGIES_NO
    BY <1>2 DEF Complete
  <2>2. Len(call.plan) \in 0..MAX_STRATEGIES_NO /\ Len(call.plan) > 0
    BY <1>2, <2>1, PlanLength
  <2>. QED BY <1>2, <2>2, PercentageBeforeEnd DEF Complete
<1>5. PICK pairs \in Nat : pairs = PairedUpTo(call.plan, Len(call.plan))
  BY <1>2, PairedCount
<1>6. call.sent + Due = call.sent
  BY <1>2, <1>3
<1>7. call.payment * MAX_PERCENTAGE
         <= MAX_PERCENTAGE * call.sent + (MAX_PERCENTAGE - 1) * Len(call.plan)
               + MAX_PERCENTAGE * pairs
  BY <1>1, <1>3, <1>4, <1>5, <1>6 DEF SmartAccountInv, LossBounded
<1>8. MAX_PERCENTAGE \in Nat /\ MAX_PERCENTAGE > 0
  BY DEF MAX_PERCENTAGE
<1>. QED BY <1>2, <1>4, <1>5, <1>7, <1>8, Roundings

\* What a completed investment leaves idle is bounded by the number of roundings.
THEOREM DustStaysBounded == SmartAccountSpec => []DustIsBounded
<1>. QED BY InvariantHolds, DustBound, PTL

LEMMA Acceptance ==
    ASSUME SmartAccountInv
    PROVE  LiquidityIsAccepted
<1>. DEFINE pair     == PairOf(CurrentStep)
            half     == TransferAmount(call.payment, CurrentStep)
            payments == LiquidityPayments(pair, half, call.received)
<1>. SUFFICES ASSUME call.pc = "liquidity"
              PROVE  /\ InPairOrder(pair, payments)
                     /\ Covered(call.esdt, payments[1])
                     /\ Covered(call.esdt, payments[2])
  BY DEF LiquidityIsAccepted
<1>1. /\ pair \in Pairs
      /\ {FirstToken[pair], SecondToken[pair]} = {WEGLD, call.received.token}
      /\ FirstToken[pair] # SecondToken[pair]
      /\ call.received.token # WEGLD
      /\ Covered(call.esdt, call.received)
      /\ half > 0
  BY MarketAssumption DEF SmartAccountInv, OutputInHand
<1>2. /\ call.esdt \in Wallets /\ esdt[call.account] \in Wallets
      /\ CurrentStep \in Strategy /\ call.payment \in Nat
  BY CallFacts
<1>3. half \in Nat
  BY <1>2, AmountBounds
<1>4. Due = half
  BY DEF Due
<1>5. call.esdt[WEGLD] >= half
  <2>1. call.esdt[WEGLD] >= esdt[call.account][WEGLD] + Due
    BY CoversTransfers DEF DepositCoversTransfers
  <2>2. call.esdt[WEGLD] \in Nat /\ esdt[call.account][WEGLD] \in Nat
    BY <1>2, MarketAssumption DEF Wallets
  <2>. QED BY <1>3, <1>4, <2>1, <2>2
<1>. HIDE DEF pair, half
<1>6. CASE FirstToken[pair] = WEGLD
  <2>1. SecondToken[pair] = call.received.token
    BY <1>1, <1>6
  <2>2. payments[1] = [token |-> WEGLD, amount |-> half] /\ payments[2] = call.received
    BY <1>6 DEF LiquidityPayments
  <2>. QED BY <1>1, <1>5, <1>6, <2>1, <2>2 DEF InPairOrder, Covered
<1>7. CASE FirstToken[pair] # WEGLD
  <2>1. SecondToken[pair] = WEGLD /\ FirstToken[pair] = call.received.token
    BY <1>1, <1>7
  <2>2. payments[2] = [token |-> WEGLD, amount |-> half] /\ payments[1] = call.received
    BY <1>7, <2>1 DEF LiquidityPayments
  <2>. QED BY <1>1, <1>5, <2>1, <2>2 DEF InPairOrder, Covered
<1>. QED BY <1>6, <1>7

\* The account never causes the refusal of liquidity: order, amounts and balance
\* are right for every pair.
THEOREM LiquidityAccepted == SmartAccountSpec => []LiquidityIsAccepted
<1>. QED BY InvariantHolds, Acceptance, PTL

-----------------------------------------------------------------------------
(***************************************************************************)
(* Positions. What an entry has in hand is not yet one, and the entries    *)
(* behind it have theirs.                                                  *)
(***************************************************************************)
OpenedIn(plan, n, token) == Cardinality({i \in 1..n : PositionToken(plan[i]) = token})

FinishedEntries == IF call.pc = "return" THEN call.step ELSE call.step - 1

HeldInHand(token) ==
    IF call.pc \in {"stake", "liquidity", "farm"} /\ call.received.token = token
    THEN call.received.amount ELSE 0

PositionsInWallet ==
    /\ call.pc = "stake" => CurrentStep.position_type = "Staking"
    /\ Walking => \A token \in TokenIds \ {WEGLD} :
          call.esdt[token] >= esdt[call.account][token]
              + OpenedIn(call.plan, FinishedEntries, token) + HeldInHand(token)

LEMMA OpenedCount ==
    ASSUME NEW plan, NEW token, NEW n \in Nat
    PROVE  /\ OpenedIn(plan, n, token) \in Nat
           /\ OpenedIn(plan, n + 1, token) = OpenedIn(plan, n, token)
                 + (IF PositionToken(plan[n + 1]) = token THEN 1 ELSE 0)
           /\ OpenedIn(plan, 0, token) = 0
<1>. DEFINE S == {i \in 1..n : PositionToken(plan[i]) = token}
            T == {i \in 1..(n + 1) : PositionToken(plan[i]) = token}
<1>1. IsFiniteSet(1..n)
  BY FS_Interval
<1>2. IsFiniteSet(S)
  BY <1>1, FS_Subset
<1>3. Cardinality(S) \in Nat
  BY <1>2, FS_CardinalityType
<1>4. {i \in 1..0 : PositionToken(plan[i]) = token} = {}
  OBVIOUS
<1>5. OpenedIn(plan, 0, token) = 0
  BY <1>4, FS_EmptySet DEF OpenedIn
<1>6. CASE PositionToken(plan[n + 1]) = token
  <2>1. T = S \cup {n + 1} /\ n + 1 \notin S
    BY <1>6
  <2>2. Cardinality(T) = Cardinality(S) + 1
    BY <1>2, <2>1, FS_AddElement
  <2>. QED BY <1>3, <1>5, <1>6, <2>2 DEF OpenedIn
<1>7. CASE PositionToken(plan[n + 1]) # token
  <2>1. T = S
    BY <1>7
  <2>. QED BY <1>3, <1>5, <1>7, <2>1 DEF OpenedIn
<1>. QED BY <1>6, <1>7

LEMMA CreditEach ==
    ASSUME NEW wallet \in Wallets, NEW payment \in Payment, NEW token \in TokenIds
    PROVE  Credit(wallet, payment)[token] =
              wallet[token] + (IF token = payment.token THEN payment.amount ELSE 0)
BY DEF Wallets, Payment, Credit

LEMMA DebitEach ==
    ASSUME NEW wallet \in Wallets, NEW payment \in Payment, NEW token \in TokenIds
    PROVE  Debit(wallet, payment)[token] =
              wallet[token] - (IF token = payment.token THEN payment.amount ELSE 0)
BY DEF Wallets, Payment, Debit

LEMMA PositionTokens ==
    ASSUME NEW entry
    PROVE  /\ entry.position_type = "ESDT" => PositionToken(entry) = entry.output_token_id
           /\ entry.position_type = "Staking" =>
                 PositionToken(entry)
                    = ReceiptToken[farmStakingAddressForToken[entry.output_token_id]]
           /\ Paired(entry) => PositionToken(entry) = ReceiptToken[entry.contract_address]
BY DEF PositionToken, Paired

\* A position's token does not change while the call is in flight.
LEMMA SamePositions ==
    ASSUME Untouched, call'.plan = call.plan, NEW n, FinishedEntries' = n,
           NEW token
    PROVE  OpenedIn(call.plan, FinishedEntries, token)' = OpenedIn(call.plan, n, token)
<1>1. farmStakingAddressForToken' = farmStakingAddressForToken
  BY DEF Untouched
<1>. QED BY <1>1 DEF OpenedIn, PositionToken

\* The last call of an entry leaves its position behind.
LEMMA PositionOpened ==
    ASSUME SmartAccountInv, Walking, call.pc # "return", Untouched, NEW c \in Call,
           c.account = call.account, c.plan = call.plan, c.step = call.step,
           \A token \in TokenIds \ {WEGLD} :
              c.esdt[token] >= esdt[call.account][token]
                  + OpenedIn(call.plan, call.step - 1, token)
                  + (IF PositionToken(CurrentStep) = token THEN 1 ELSE 0),
           call' = Advance(c)
    PROVE  PositionsInWallet'
<1>1. /\ call'.account = call.account /\ call'.plan = call.plan /\ call'.esdt = c.esdt
      /\ \/ call'.pc = "return" /\ call'.step = call.step
         \/ call'.pc = "swap" /\ call'.step = call.step + 1
  BY AdvanceFields
<1>2. call.step \in Nat /\ call.step >= 1 /\ call.step - 1 \in Nat
  <2>1. call.step \in 1..Len(call.plan) /\ call.step \in Nat
    BY CallFacts DEF Walking
  <2>. QED BY <2>1
<1>3. FinishedEntries' = call.step
  BY <1>1, <1>2 DEF FinishedEntries
<1>4. ASSUME NEW token \in TokenIds \ {WEGLD}
      PROVE  call'.esdt[token] >= esdt'[call'.account][token]
                + OpenedIn(call.plan, FinishedEntries, token)' + HeldInHand(token)'
  <2>1. OpenedIn(call.plan, FinishedEntries, token)' = OpenedIn(call.plan, call.step, token)
    BY <1>1, <1>3, SamePositions
  <2>2. \A n \in Nat : OpenedIn(call.plan, n + 1, token) = OpenedIn(call.plan, n, token)
                 + (IF PositionToken(call.plan[n + 1]) = token THEN 1 ELSE 0)
    BY OpenedCount
  <2>3. OpenedIn(call.plan, call.step, token) = OpenedIn(call.plan, call.step - 1, token)
                 + (IF PositionToken(CurrentStep) = token THEN 1 ELSE 0)
    <3>1. call.step - 1 + 1 = call.step
      BY <1>2
    <3>. QED BY <1>2, <2>2, <3>1 DEF CurrentStep
  <2>4. HeldInHand(token)' = 0 /\ esdt' = esdt
    BY <1>1 DEF HeldInHand, Untouched, ledgerVars
  <2>5. /\ OpenedIn(call.plan, call.step - 1, token) \in Nat
        /\ c.esdt[token] \in Nat /\ esdt[call.account][token] \in Nat
    BY <1>2, OpenedCount, CallFacts DEF Call, Walking, Wallets
  <2>. QED BY <1>1, <2>1, <2>3, <2>4, <2>5
<1>. QED BY <1>1, <1>4 DEF PositionsInWallet

\* Within an entry what was in hand is spent for what is.
LEMMA PositionInHand ==
    ASSUME SmartAccountInv, Walking, call.pc # "return", Untouched,
           call'.account = call.account, call'.plan = call.plan, call'.step = call.step,
           call'.pc \in {"stake", "liquidity", "farm"},
           call'.pc = "stake" => CurrentStep.position_type = "Staking",
           \A token \in TokenIds \ {WEGLD} :
              call'.esdt[token] >= esdt[call.account][token]
                  + OpenedIn(call.plan, call.step - 1, token)
                  + (IF call'.received.token = token THEN call'.received.amount ELSE 0)
    PROVE  PositionsInWallet'
<1>1. FinishedEntries' = call.step - 1 /\ CurrentStep' = CurrentStep
  BY DEF FinishedEntries, CurrentStep
<1>2. ASSUME NEW token \in TokenIds \ {WEGLD}
      PROVE  call'.esdt[token] >= esdt'[call'.account][token]
                + OpenedIn(call.plan, FinishedEntries, token)' + HeldInHand(token)'
  <2>1. OpenedIn(call.plan, FinishedEntries, token)' = OpenedIn(call.plan, call.step - 1, token)
    BY <1>1, SamePositions
  <2>2. HeldInHand(token)' = (IF call'.received.token = token THEN call'.received.amount ELSE 0)
        /\ esdt' = esdt
    BY DEF HeldInHand, Untouched, ledgerVars
  <2>. QED BY <2>1, <2>2
<1>. QED BY <1>1, <1>2 DEF PositionsInWallet

\* What the wallet holds of a token before a call of an entry.
LEMMA BeforeTheCall ==
    ASSUME SmartAccountInv, PositionsInWallet, Walking, call.pc # "return",
           NEW token \in TokenIds \ {WEGLD}
    PROVE  /\ call.esdt[token] >= esdt[call.account][token]
                 + OpenedIn(call.plan, call.step - 1, token) + HeldInHand(token)
           /\ call.esdt[token] \in Nat /\ esdt[call.account][token] \in Nat
           /\ OpenedIn(call.plan, call.step - 1, token) \in Nat /\ HeldInHand(token) \in Nat
<1>1. /\ call.step \in 1..Len(call.plan) /\ call.step \in Nat /\ call.received \in Payment
      /\ call.esdt \in Wallets /\ esdt[call.account] \in Wallets
  BY CallFacts DEF Walking
<1>2. call.step - 1 \in Nat
  BY <1>1
<1>3. FinishedEntries = call.step - 1
  BY DEF FinishedEntries
<1>. QED BY <1>1, <1>2, <1>3, OpenedCount
     DEF PositionsInWallet, HeldInHand, Wallets, Payment

LEMMA WrapPositions ==
    ASSUME SmartAccountInv, CallWrapEgld
    PROVE  PositionsInWallet'
<1>1. /\ call.pc = "wrap" /\ Untouched /\ call \in Call /\ call.payment \in Nat
      /\ call.esdt = esdt[call.account] /\ call.step = 1 /\ call.esdt \in Wallets
  BY CallFacts DEF CallWrapEgld, Untouched, SmartAccountInv, ArgumentsChecked
<1>2. PICK wrapped \in Payment : /\ wrapped = [token |-> WEGLD, amount |-> call.payment]
                                 /\ wrapped.token = WEGLD
  BY <1>1, MarketAssumption, PaymentOf
<1>3. /\ call'.pc = "swap" /\ call'.step = 1 /\ call'.plan = call.plan
      /\ call'.account = call.account /\ call'.esdt = Credit(call.esdt, wrapped)
  BY <1>1, <1>2 DEF CallWrapEgld, Call
<1>4. FinishedEntries' = 0
  BY <1>3 DEF FinishedEntries
<1>5. ASSUME NEW token \in TokenIds \ {WEGLD}
      PROVE  call'.esdt[token] >= esdt'[call'.account][token]
                + OpenedIn(call.plan, FinishedEntries, token)' + HeldInHand(token)'
  <2>1. OpenedIn(call.plan, FinishedEntries, token)' = OpenedIn(call.plan, 0, token)
    BY <1>1, <1>3, <1>4, SamePositions
  <2>2. OpenedIn(call.plan, 0, token) = 0
    BY OpenedCount
  <2>3. HeldInHand(token)' = 0 /\ esdt' = esdt
    BY <1>1, <1>3 DEF HeldInHand, Untouched, ledgerVars
  <2>4. call'.esdt[token] = esdt[call.account][token] + 0
        /\ esdt[call.account][token] \in Nat
    BY <1>1, <1>2, <1>3, CreditEach DEF Wallets
  <2>. QED BY <1>3, <2>1, <2>2, <2>3, <2>4
<1>. QED BY <1>3, <1>5 DEF PositionsInWallet

LEMMA SwapPositions ==
    ASSUME SmartAccountInv, PositionsInWallet, CallPairSwap
    PROVE  PositionsInWallet'
<1>1. call.pc = "swap" /\ Walking /\ Untouched
  BY DEF CallPairSwap, Walking, Untouched
<1>2. /\ call \in Call /\ CurrentStep \in Strategy /\ call.payment \in Nat
      /\ call.sent \in Nat /\ call.esdt \in Wallets
  BY <1>1, CallFacts
<1>3. PICK entry \in Strategy : entry = CurrentStep
  BY <1>2
<1>4. PICK half \in Nat : half = TransferAmount(call.payment, entry)
  BY <1>2, AmountBounds
<1>5. PICK input \in Payment : /\ input = [token |-> WEGLD, amount |-> half]
                               /\ input.token = WEGLD /\ input.amount = half
  BY MarketAssumption, PaymentOf
<1>6. PICK amount \in Yields :
        /\ Covered(call.esdt, input)
        /\ LET output  == [token |-> entry.output_token_id, amount |-> amount]
               swapped == [call EXCEPT !.received = output,
                                       !.sent = @ + input.amount,
                                       !.esdt = Credit(Debit(@, input), output)]
           IN  \/ /\ entry.position_type = "ESDT"
                  /\ call' = Advance(swapped)
               \/ /\ entry.position_type = "Staking"
                  /\ call' = [swapped EXCEPT !.pc = "stake"]
               \/ /\ Paired(entry)
                  /\ call' = [swapped EXCEPT !.pc = "liquidity"]
  BY <1>3, <1>4, <1>5 DEF CallPairSwap
<1>7. PICK output \in Payment :
        /\ output = [token |-> entry.output_token_id, amount |-> amount]
        /\ output.token = entry.output_token_id /\ output.amount = amount /\ amount >= 1
        /\ amount \in Nat
  <2>1. amount \in Nat /\ amount >= 1 /\ entry.output_token_id \in TokenIds
    BY LedgerAssumption DEF Strategy
  <2>. QED BY <2>1, PaymentOf
<1>8. PICK debited \in Wallets : /\ debited = Debit(call.esdt, input)
                                 /\ \A token \in TokenIds \ {WEGLD} :
                                       debited[token] = call.esdt[token]
  BY <1>2, <1>5, <1>6, DebitWallet
<1>9. PICK wallet \in Wallets : /\ wallet = Credit(debited, output)
                                /\ \A token \in TokenIds : wallet[token] = debited[token]
                                      + (IF token = output.token THEN output.amount ELSE 0)
  BY CreditWallet, CreditEach
<1>10. PICK sent \in Nat : sent = call.sent + half
  BY <1>2
<1>11. PICK swapped : swapped = [call EXCEPT !.received = output, !.sent = sent, !.esdt = wallet]
  OBVIOUS
<1>12. \/ entry.position_type = "ESDT" /\ call' = Advance(swapped)
       \/ entry.position_type = "Staking" /\ call' = [swapped EXCEPT !.pc = "stake"]
       \/ Paired(entry) /\ call' = [swapped EXCEPT !.pc = "liquidity"]
  BY <1>5, <1>6, <1>7, <1>8, <1>9, <1>10, <1>11
<1>13. /\ swapped \in Call /\ swapped.account = call.account /\ swapped.plan = call.plan
       /\ swapped.step = call.step /\ swapped.received = output /\ swapped.esdt = wallet
  BY <1>2, <1>11 DEF Call, Wallets
<1>14. ASSUME NEW token \in TokenIds \ {WEGLD}
       PROVE  wallet[token] >= esdt[call.account][token]
                  + OpenedIn(call.plan, call.step - 1, token)
                  + (IF output.token = token THEN output.amount ELSE 0)
  BY <1>1, <1>7, <1>8, <1>9, BeforeTheCall
<1>15. CASE entry.position_type = "ESDT" /\ call' = Advance(swapped)
  <2>1. PositionToken(CurrentStep) = output.token
    BY <1>3, <1>7, <1>15, PositionTokens
  <2>2. ASSUME NEW token \in TokenIds \ {WEGLD}
        PROVE  swapped.esdt[token] >= esdt[call.account][token]
                  + OpenedIn(call.plan, call.step - 1, token)
                  + (IF PositionToken(CurrentStep) = token THEN 1 ELSE 0)
    <3>1. wallet[token] \in Nat
      BY DEF Wallets
    <3>. QED BY <1>1, <1>7, <1>13, <1>14, <2>1, <3>1, BeforeTheCall
  <2>. QED BY <1>1, <1>13, <1>15, <2>2, PositionOpened
<1>16. ASSUME NEW pc \in {"stake", "liquidity"}, call' = [swapped EXCEPT !.pc = pc],
              pc = "stake" => entry.position_type = "Staking"
       PROVE  PositionsInWallet'
  <2>1. /\ call'.pc = pc /\ call'.account = call.account /\ call'.plan = call.plan
        /\ call'.step = call.step /\ call'.received = output /\ call'.esdt = wallet
    BY <1>13, <1>16 DEF Call
  <2>. QED BY <1>1, <1>3, <1>14, <1>16, <2>1, PositionInHand
<1>. QED BY <1>12, <1>15, <1>16 DEF Paired

\* A farm or staking contract turns what was received into the entry's position.
LEMMA EnterPositions ==
    ASSUME SmartAccountInv, PositionsInWallet, call.pc \in {"stake", "farm"},
           NEW contract \in Farms \cup StakingContracts, Enter(contract),
           PositionToken(CurrentStep) = ReceiptToken[contract]
    PROVE  PositionsInWallet'
<1>1. Walking /\ Untouched
  BY DEF Enter, Walking, Untouched
<1>2. call \in Call /\ call.received \in Payment /\ call.esdt \in Wallets
  BY <1>1, CallFacts DEF Walking
<1>3. PICK amount \in Yields, reward \in Rewards :
        LET receipt == [token |-> ReceiptToken[contract], amount |-> amount]
            rewards == [token |-> RewardToken[contract], amount |-> reward]
        IN  call' = Advance([call EXCEPT
                       !.received = receipt,
                       !.esdt = Credit(Credit(Debit(@, call.received), receipt), rewards)])
  BY DEF Enter
<1>4. amount \in Nat /\ amount >= 1 /\ reward \in Nat
  BY LedgerAssumption
<1>5. ReceiptToken[contract] \in TokenIds /\ RewardToken[contract] \in TokenIds
  BY MarketAssumption
<1>6. PICK receipt \in Payment :
        /\ receipt = [token |-> ReceiptToken[contract], amount |-> amount]
        /\ receipt.token = ReceiptToken[contract] /\ receipt.amount = amount
  BY <1>4, <1>5, PaymentOf
<1>7. PICK rewards \in Payment :
        rewards = [token |-> RewardToken[contract], amount |-> reward]
  BY <1>4, <1>5, PaymentOf
<1>8. PICK debited \in Wallets :
        /\ debited = Debit(call.esdt, call.received)
        /\ \A token \in TokenIds : debited[token] = call.esdt[token]
              - (IF token = call.received.token THEN call.received.amount ELSE 0)
  BY <1>2, DebitWallet, DebitEach DEF Enter
<1>9. PICK credited \in Wallets :
        /\ credited = Credit(debited, receipt)
        /\ \A token \in TokenIds : credited[token] = debited[token]
              + (IF token = receipt.token THEN receipt.amount ELSE 0)
  BY CreditWallet, CreditEach
<1>10. PICK wallet \in Wallets : /\ wallet = Credit(credited, rewards)
                                 /\ \A token \in TokenIds : wallet[token] >= credited[token]
  BY CreditWallet
<1>11. PICK c : c = [call EXCEPT !.received = receipt, !.esdt = wallet]
  OBVIOUS
<1>12. call' = Advance(c)
  BY <1>3, <1>6, <1>7, <1>8, <1>9, <1>10, <1>11
<1>13. /\ c \in Call /\ c.account = call.account /\ c.plan = call.plan /\ c.step = call.step
       /\ c.esdt = wallet
  BY <1>2, <1>11 DEF Call, Wallets
<1>14. ASSUME NEW token \in TokenIds \ {WEGLD}
       PROVE  c.esdt[token] >= esdt[call.account][token]
                  + OpenedIn(call.plan, call.step - 1, token)
                  + (IF PositionToken(CurrentStep) = token THEN 1 ELSE 0)
  <2>1. /\ wallet[token] \in Nat /\ credited[token] \in Nat /\ debited[token] \in Nat
        /\ wallet[token] >= credited[token]
        /\ credited[token] = debited[token]
              + (IF token = ReceiptToken[contract] THEN amount ELSE 0)
    BY <1>6, <1>9, <1>10 DEF Wallets
  <2>2. debited[token] = call.esdt[token] - HeldInHand(token)
    BY <1>8 DEF HeldInHand
  <2>3. debited[token] >= esdt[call.account][token]
                              + OpenedIn(call.plan, call.step - 1, token)
    BY <1>1, <2>2, BeforeTheCall
  <2>. QED BY <1>1, <1>4, <1>13, <2>1, <2>3, BeforeTheCall
<1>. QED BY <1>1, <1>12, <1>13, <1>14, PositionOpened

LEMMA StakePositions ==
    ASSUME SmartAccountInv, PositionsInWallet, CallFarmStakingStake
    PROVE  PositionsInWallet'
<1>1. PICK staking \in StakingContracts :
         /\ call.pc = "stake" /\ Enter(staking)
         /\ staking = farmStakingAddressForToken[CurrentStep.output_token_id]
  BY DEF CallFarmStakingStake
<1>2. PositionToken(CurrentStep) = ReceiptToken[staking]
  BY <1>1, PositionTokens DEF PositionsInWallet
<1>. QED BY <1>1, <1>2, EnterPositions

LEMMA FarmPositions ==
    ASSUME SmartAccountInv, PositionsInWallet, CallEnterFarm
    PROVE  PositionsInWallet'
<1>1. call.pc = "farm" /\ Enter(CurrentStep.contract_address)
  BY DEF CallEnterFarm
<1>2. CurrentStep \in Strategy
  BY <1>1, CallFacts
<1>3. PairOf(CurrentStep) \in Pairs /\ CurrentStep.position_type = "Farm"
  BY <1>1 DEF SmartAccountInv, OutputInHand
<1>4. CurrentStep.contract_address \in Farms
  BY <1>2, <1>3, LedgerAssumption DEF PairOf, Farms, Strategy
<1>5. PositionToken(CurrentStep) = ReceiptToken[CurrentStep.contract_address]
  BY <1>3, PositionTokens DEF Paired
<1>. QED BY <1>1, <1>4, <1>5, EnterPositions

\* The account pays the pair WEGLD and what it has in hand, no more.
LEMMA PaidToPair ==
    ASSUME SmartAccountInv, PositionsInWallet, CallPairAddLiquidity
    PROVE  \E debited \in Wallets, rest \in Payment, lp \in Payment :
             /\ \A token \in TokenIds \ {WEGLD} :
                   debited[token] = call.esdt[token] - HeldInHand(token)
             /\ lp.token = ReceiptToken[PairOf(CurrentStep)] /\ lp.amount >= 1
             /\ \E done \in Call :
                   /\ done.account = call.account /\ done.plan = call.plan
                   /\ done.step = call.step /\ done.received = lp
                   /\ done.esdt = Credit(Credit(debited, rest), lp)
                   /\ call' = IF CurrentStep.position_type = "Farm"
                              THEN [done EXCEPT !.pc = "farm"]
                              ELSE Advance(done)
<1>1. call.pc = "liquidity" /\ Walking
  BY DEF CallPairAddLiquidity, Walking
<1>2. /\ call \in Call /\ CurrentStep \in Strategy /\ call.received \in Payment
      /\ call.payment \in Nat /\ call.sent \in Nat /\ call.esdt \in Wallets
  BY <1>1, CallFacts
<1>3. PICK entry \in Strategy : entry = CurrentStep
  BY <1>2
<1>4. PICK half \in Nat : half = TransferAmount(call.payment, entry)
  BY <1>2, AmountBounds
<1>5. PICK pair \in Pairs : /\ pair = PairOf(entry)
                            /\ {FirstToken[pair], SecondToken[pair]} = {WEGLD, call.received.token}
                            /\ call.received.token # WEGLD
  BY <1>1, <1>3 DEF SmartAccountInv, OutputInHand
<1>6. PICK payments : /\ payments = LiquidityPayments(pair, half, call.received)
                      /\ InPairOrder(pair, payments)
                      /\ Covered(call.esdt, payments[1])
                      /\ Covered(call.esdt, payments[2])
  BY <1>3, <1>4, <1>5 DEF CallPairAddLiquidity
<1>7. PICK side \in {1, 2}, minted \in Yields : \E used \in 1..payments[side].amount :
        call' = LiquidityAdded(entry, payments, half, side, used, minted)
  BY <1>3, <1>4, <1>5, <1>6 DEF CallPairAddLiquidity
<1>8. PICK half_payment \in Payment : /\ half_payment = [token |-> WEGLD, amount |-> half]
                                      /\ half_payment.token = WEGLD
  BY MarketAssumption, PaymentOf
<1>9. \/ payments[1] = half_payment /\ payments[2] = call.received
      \/ payments[2] = half_payment /\ payments[1] = call.received
  <2>1. CASE FirstToken[pair] = WEGLD
    BY <1>6, <1>8, <2>1 DEF LiquidityPayments
  <2>2. CASE FirstToken[pair] # WEGLD
    <3>1. SecondToken[pair] = WEGLD
      BY <1>5, <2>2
    <3>. QED BY <1>6, <1>8, <2>2, <3>1 DEF LiquidityPayments
  <2>. QED BY <2>1, <2>2
<1>10. PICK first \in Payment, second \in Payment :
         payments[1] = first /\ payments[2] = second
  BY <1>2, <1>9
<1>11. PICK debit1 \in Wallets :
         /\ debit1 = Debit(call.esdt, first)
         /\ \A token \in TokenIds : debit1[token] = call.esdt[token]
               - (IF token = first.token THEN first.amount ELSE 0)
  BY <1>2, <1>6, <1>10, DebitWallet, DebitEach
<1>12. Covered(debit1, second)
  <2>1. first.token # second.token
    BY <1>5, <1>8, <1>9, <1>10
  <2>2. debit1[second.token] = call.esdt[second.token] - 0
        /\ call.esdt[second.token] \in Nat
    BY <1>2, <1>11, <2>1 DEF Payment, Wallets
  <2>3. second.amount > 0 /\ call.esdt[second.token] >= second.amount
    BY <1>6, <1>10 DEF Covered
  <2>. QED BY <2>2, <2>3 DEF Covered
<1>13. PICK debit2 \in Wallets :
         /\ debit2 = Debit(debit1, second)
         /\ \A token \in TokenIds : debit2[token] = debit1[token]
               - (IF token = second.token THEN second.amount ELSE 0)
  BY <1>12, DebitWallet, DebitEach
<1>14. ASSUME NEW token \in TokenIds \ {WEGLD}
       PROVE  debit2[token] = call.esdt[token] - HeldInHand(token)
  <2>1. HeldInHand(token) = IF token = call.received.token THEN call.received.amount ELSE 0
    BY <1>1 DEF HeldInHand
  <2>2. /\ debit1[token] = call.esdt[token] - (IF token = first.token THEN first.amount ELSE 0)
        /\ debit2[token] = debit1[token] - (IF token = second.token THEN second.amount ELSE 0)
        /\ call.esdt[token] \in Nat /\ first.amount \in Nat /\ second.amount \in Nat
    BY <1>2, <1>11, <1>13 DEF Wallets, Payment
  <2>3. CASE first = half_payment /\ second = call.received
    BY <1>8, <2>1, <2>2, <2>3
  <2>4. CASE second = half_payment /\ first = call.received
    BY <1>8, <2>1, <2>2, <2>4
  <2>. QED BY <1>9, <1>10, <2>3, <2>4
<1>15. PICK used \in 1..payments[side].amount :
         call' = LiquidityAdded(entry, payments, half, side, used, minted)
  BY <1>7
<1>16. PICK rest \in Payment : rest = [payments[side] EXCEPT !.amount = @ - used]
  <2>1. PICK payment \in Payment : payment = payments[side]
    BY <1>10
  <2>2. payment.amount - used \in Nat
    <3>1. used \in 1..payment.amount /\ payment.amount \in Nat
      BY <1>15, <2>1 DEF Payment
    <3>. QED BY <3>1
  <2>. QED BY <2>1, <2>2 DEF Payment
<1>17. PICK lp \in Payment : /\ lp = [token |-> ReceiptToken[pair], amount |-> minted]
                             /\ lp.token = ReceiptToken[pair] /\ lp.amount = minted
  <2>1. minted \in Nat /\ ReceiptToken[pair] \in TokenIds
    BY LedgerAssumption, MarketAssumption
  <2>. QED BY <2>1, PaymentOf
<1>18. PICK wallet \in Wallets : wallet = Credit(Credit(debit2, rest), lp)
  BY CreditWallet
<1>19. PICK sent \in Nat : sent = call.sent + half
  BY <1>2
<1>20. PICK done : done = [call EXCEPT !.received = lp, !.sent = sent, !.esdt = wallet]
  OBVIOUS
<1>21. Debit(Debit(call.esdt, payments[1]), payments[2]) = debit2
  BY <1>10, <1>11, <1>13
<1>22. call' = IF entry.position_type = "Farm" THEN [done EXCEPT !.pc = "farm"] ELSE Advance(done)
  BY <1>5, <1>15, <1>16, <1>17, <1>18, <1>19, <1>20, <1>21 DEF LiquidityAdded
<1>23. /\ done \in Call /\ done.account = call.account /\ done.plan = call.plan
       /\ done.step = call.step /\ done.received = lp /\ done.esdt = wallet
  BY <1>2, <1>20 DEF Call, Wallets
<1>24. lp.amount >= 1
  BY <1>17, LedgerAssumption
<1>25. \E paid \in Call :
          /\ paid.account = call.account /\ paid.plan = call.plan
          /\ paid.step = call.step /\ paid.received = lp
          /\ paid.esdt = Credit(Credit(debit2, rest), lp)
          /\ call' = IF CurrentStep.position_type = "Farm" THEN [paid EXCEPT !.pc = "farm"]
                                                           ELSE Advance(paid)
  BY <1>3, <1>18, <1>22, <1>23
<1>26. lp.token = ReceiptToken[PairOf(CurrentStep)] /\ lp.amount >= 1
  BY <1>3, <1>5, <1>17, <1>24
<1>. QED BY <1>14, <1>25, <1>26

LEMMA LiquidityPositions ==
    ASSUME SmartAccountInv, PositionsInWallet, CallPairAddLiquidity
    PROVE  PositionsInWallet'
<1>1. call.pc = "liquidity" /\ Walking /\ Untouched
  BY DEF CallPairAddLiquidity, Walking, Untouched
<1>2. /\ CurrentStep \in Strategy /\ Paired(CurrentStep)
      /\ CurrentStep.position_type \in {"LP", "Farm"}
  BY <1>1, CallFacts DEF SmartAccountInv, OutputInHand, Paired
<1>3. PICK debited \in Wallets, rest \in Payment, lp \in Payment, done \in Call :
        /\ \A token \in TokenIds \ {WEGLD} :
              debited[token] = call.esdt[token] - HeldInHand(token)
        /\ lp.token = ReceiptToken[PairOf(CurrentStep)] /\ lp.amount >= 1
        /\ done.account = call.account /\ done.plan = call.plan
        /\ done.step = call.step /\ done.received = lp
        /\ done.esdt = Credit(Credit(debited, rest), lp)
        /\ call' = IF CurrentStep.position_type = "Farm"
                   THEN [done EXCEPT !.pc = "farm"]
                   ELSE Advance(done)
  BY PaidToPair
<1>4. PICK credited \in Wallets :
        /\ credited = Credit(debited, rest)
        /\ \A token \in TokenIds : credited[token] >= debited[token]
  BY CreditWallet
<1>5. PICK wallet \in Wallets :
        /\ wallet = Credit(credited, lp)
        /\ \A token \in TokenIds : wallet[token] = credited[token]
              + (IF token = lp.token THEN lp.amount ELSE 0)
  BY CreditWallet, CreditEach
<1>6. done.esdt = wallet /\ lp.amount \in Nat
  BY <1>3, <1>4, <1>5 DEF Payment
<1>7. ASSUME NEW token \in TokenIds \ {WEGLD}
      PROVE  wallet[token] >= esdt[call.account][token]
                + OpenedIn(call.plan, call.step - 1, token)
                + (IF lp.token = token THEN lp.amount ELSE 0)
  <2>1. /\ wallet[token] \in Nat /\ credited[token] \in Nat /\ debited[token] \in Nat
        /\ wallet[token] = credited[token] + (IF token = lp.token THEN lp.amount ELSE 0)
        /\ credited[token] >= debited[token]
    BY <1>4, <1>5 DEF Wallets
  <2>2. debited[token] >= esdt[call.account][token]
                             + OpenedIn(call.plan, call.step - 1, token)
    BY <1>1, <1>3, BeforeTheCall
  <2>. QED BY <1>1, <1>6, <2>1, <2>2, BeforeTheCall
<1>8. CASE CurrentStep.position_type = "Farm"
  <2>1. call' = [done EXCEPT !.pc = "farm"]
    BY <1>3, <1>8
  <2>2. /\ call'.pc = "farm" /\ call'.account = call.account /\ call'.plan = call.plan
        /\ call'.step = call.step /\ call'.received = lp /\ call'.esdt = wallet
    BY <1>3, <1>6, <2>1 DEF Call
  <2>. QED BY <1>1, <1>7, <2>2, PositionInHand
<1>9. CASE CurrentStep.position_type = "LP"
  <2>1. call' = Advance(done)
    BY <1>3, <1>9
  <2>2. PositionToken(CurrentStep) = lp.token
    BY <1>2, <1>3, <1>9, PositionTokens DEF PairOf
  <2>3. ASSUME NEW token \in TokenIds \ {WEGLD}
        PROVE  done.esdt[token] >= esdt[call.account][token]
                  + OpenedIn(call.plan, call.step - 1, token)
                  + (IF PositionToken(CurrentStep) = token THEN 1 ELSE 0)
    <3>1. wallet[token] \in Nat
      BY DEF Wallets
    <3>. QED BY <1>1, <1>3, <1>6, <1>7, <2>2, <3>1, BeforeTheCall
  <2>. QED BY <1>1, <1>3, <2>1, <2>3, PositionOpened
<1>. QED BY <1>2, <1>8, <1>9

LEMMA NoCallNoPositions ==
    (call = NoCall \/ call.pc = "wrap") => PositionsInWallet
BY DEF PositionsInWallet, NoCall, Walking

LEMMA NextPositions ==
    ASSUME SmartAccountInv, PositionsInWallet, [SmartAccountNext]_accountVars
    PROVE  PositionsInWallet'
<1>1. (call = NoCall \/ call.pc = "wrap")' => PositionsInWallet'
  BY NoCallNoPositions, PTL
<1>2. CASE Fail \/ Return \/ ChangeStaking
  BY <1>1, <1>2 DEF Fail, Return, ChangeStaking
<1>3. ASSUME NEW caller, NEW account, NEW risk, NEW plan, NEW payment,
             SetupSmartAccount(caller, account, risk, plan, payment,
                               Transfer(egld, caller, account, payment))
      PROVE  PositionsInWallet'
  <2>1. call'.pc = "wrap"
    BY <1>3 DEF SetupSmartAccount
  <2>. QED BY <1>1, <2>1
<1>4. CASE UNCHANGED accountVars
  <2>1. call' = call /\ esdt' = esdt
        /\ farmStakingAddressForToken' = farmStakingAddressForToken
    BY <1>4 DEF accountVars, ledgerVars
  <2>2. \A token \in TokenIds :
           /\ OpenedIn(call.plan, FinishedEntries, token)'
                 = OpenedIn(call.plan, FinishedEntries, token)
           /\ HeldInHand(token)' = HeldInHand(token)
    BY <2>1 DEF OpenedIn, PositionToken, FinishedEntries, HeldInHand
  <2>. QED BY <2>1, <2>2 DEF PositionsInWallet, Walking, CurrentStep
<1>. QED BY <1>2, <1>3, <1>4, WrapPositions, SwapPositions, StakePositions,
            LiquidityPositions, FarmPositions
         DEF SmartAccountNext, CallStep, Proceed

LEMMA Survival ==
    ASSUME SmartAccountInv, PositionsInWallet
    PROVE  EarlierPositionsSurvive
<1>. SUFFICES ASSUME call.pc \in {"swap", "return"}, NEW token \in TokenIds \ {WEGLD}
              PROVE  LET opened == IF call.pc = "return" THEN DOMAIN call.plan
                                   ELSE 1..(call.step - 1)
                     IN  call.esdt[token] >= esdt[call.account][token]
                            + Cardinality({i \in opened : PositionToken(call.plan[i]) = token})
  BY DEF EarlierPositionsSurvive
<1>. DEFINE opened == IF call.pc = "return" THEN DOMAIN call.plan ELSE 1..(call.step - 1)
<1>1. Walking /\ HeldInHand(token) = 0
  BY DEF Walking, HeldInHand
<1>2. opened = 1..FinishedEntries
  <2>1. CASE call.pc = "return"
    <3>1. call.step = Len(call.plan) /\ DOMAIN call.plan = 1..Len(call.plan)
      BY <2>1, CallFacts DEF SmartAccountInv, ArgumentsChecked
    <3>. QED BY <2>1, <3>1 DEF FinishedEntries
  <2>2. CASE call.pc # "return"
    BY <2>2 DEF FinishedEntries
  <2>. QED BY <2>1, <2>2
<1>3. call.esdt[token] >= esdt[call.account][token]
         + OpenedIn(call.plan, FinishedEntries, token) + HeldInHand(token)
  BY <1>1 DEF PositionsInWallet
<1>4. /\ esdt[call.account][token] \in Nat
      /\ OpenedIn(call.plan, FinishedEntries, token) \in Nat
  <2>1. FinishedEntries \in Nat
    <3>1. call.step \in 1..Len(call.plan) /\ call.step \in Nat
      BY CallFacts
    <3>. QED BY <3>1 DEF FinishedEntries
  <2>. QED BY <2>1, CallFacts, OpenedCount DEF Wallets
<1>5. call.esdt[token] >= esdt[call.account][token]
                              + OpenedIn(call.plan, FinishedEntries, token)
  BY <1>1, <1>3, <1>4
<1>. QED BY <1>2, <1>5 DEF OpenedIn

\* No entry of a plan spends what an earlier entry or an earlier call left in the account
\* (lib.rs:86-221 of the account), for every market, plan and amount handed back.
THEOREM PositionsSurvive == SmartAccountSpec => []EarlierPositionsSurvive
<1>1. SmartAccountInit => SmartAccountInv /\ PositionsInWallet
  BY InitInv, NoCallNoPositions DEF SmartAccountInit
<1>2. SmartAccountInv /\ PositionsInWallet /\ [SmartAccountNext]_accountVars
         => SmartAccountInv' /\ PositionsInWallet'
  BY NextInv, NextPositions
<1>3. SmartAccountInv /\ PositionsInWallet => EarlierPositionsSurvive
  BY Survival
<1>. QED BY <1>1, <1>2, <1>3, PTL DEF SmartAccountSpec
=============================================================================
