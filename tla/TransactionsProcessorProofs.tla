--------------------- MODULE TransactionsProcessorProofs ---------------------
(***************************************************************************)
(* For any number of shards, blocks and failures: no block is lost between *)
(* handing it over and recording it, blocks are handed over in the order   *)
(* of the chain, and without a failure none is passed over but those from  *)
(* before the first one and those left too far behind.                     *)
(***************************************************************************)
EXTENDS TransactionsProcessor, FoldProofs

Rounds == [pc : {"visit"}, nonces : [Shards -> Nonces], todo : SUBSET Shards,
           reachedTip : BOOLEAN]

Visits == [pc : {"receive", "record"}, nonces : [Shards -> Nonces], todo : SUBSET Shards,
           reachedTip : BOOLEAN, shard : Shards, nonce : Nonces]

Shape ==
    /\ tip \in [Shards -> Nonces]
    /\ lastProcessed \in [Shards -> Nonces \cup {NoNonce}]
    /\ handed \in [Shards -> [Nonces -> Nat]]
    /\ skipped \in [Shards -> SUBSET Nonces]
    /\ run \in {Idle} \cup Rounds \cup Visits
    /\ faults \in 0..MaxFaults

HasKey(s) == lastProcessed[s] # NoNonce

\* A walk is behind the chain, not ahead of it.
WalkIsBelowTip == Walking => \A s \in Shards : run.nonces[s] <= tip[s]

\* Up to the block in hand nothing is missing, and it is recorded after it was handed over.
NothingBeforeHand ==
    InHand => 1..(run.nonce - 1) \subseteq Received(run.shard) \cup skipped[run.shard]

RecordsTheReceived == run.pc = "record" => run.nonce \in Received(run.shard)

\* How far the shard is known to reach: to the tip the walk set out for, which is not
\* taken back when the walk ends.
Height(s) == IF Walking THEN run.nonces[s] ELSE tip[s]

\* Where the next walk of a shard cannot begin behind: after its key, or where it lands
\* when it gives up what is too far behind.
Reached(s, n) == n <= Height(s) /\ (HasKey(s) => \/ n <= lastProcessed[s] + 1
                                                 \/ n + MaxLookBehind <= Height(s) + 1)

ReceivedIsReached == \A s \in Shards : \A n \in Received(s) : Reached(s, n)

HandIsReached == InHand => Reached(run.shard, run.nonce)

HandComesLast == InHand => \A n \in Received(run.shard) : n <= run.nonce

\* While nothing has failed, what is passed over is behind the walk, and a shard without
\* a key is one of which nothing is recorded yet.
SkippedIsBehind ==
    faults = 0 => \A s \in Shards : \A n \in skipped[s] :
        IF InHand /\ run.shard = s THEN n < run.nonce ELSE HasKey(s) /\ n <= lastProcessed[s]

NoKeyNoBlocks ==
    faults = 0 => \A s \in Shards :
        ~HasKey(s) => Received(s) = {} \/ (run.pc = "record" /\ run.shard = s)

Inv ==
    /\ Shape /\ WalkIsBelowTip
    /\ RecordedWasHandedOver /\ NothingBeforeHand /\ RecordsTheReceived
    /\ ReceivedIsReached /\ HandIsReached /\ HandComesLast
    /\ SkipsNeedCause /\ SkippedIsBehind /\ NoKeyNoBlocks

-----------------------------------------------------------------------------
\* What is received stays the same unless a block is handed over.
LEMMA ReceivedStays ==
    ASSUME UNCHANGED handed
    PROVE  \A s \in Shards : Received(s)' = Received(s)
BY DEF Received

\* Blocks, and the positions of walks, are numbers.
LEMMA Numbers ==
    ASSUME Shape
    PROVE  /\ \A n \in Nonces : n \in Nat /\ n >= 1
           /\ \A s \in Shards : /\ tip[s] \in Nonces /\ Received(s) \subseteq Nonces
                                /\ skipped[s] \subseteq Nonces
                                /\ HasKey(s) => lastProcessed[s] \in Nonces
           /\ Walking => run \in Rounds \cup Visits /\ \A s \in Shards : run.nonces[s] \in Nonces
           /\ InHand <=> run \in Visits
           /\ run.pc = "visit" <=> run \in Rounds
           /\ faults \in Nat
BY ProcessorAssumption
   DEF Shape, Nonces, Received, HasKey, Walking, InHand, Rounds, Visits, Idle

LEMMA InitInv == Init => Inv
<1>. SUFFICES ASSUME Init PROVE Inv
  OBVIOUS
<1>1. 1 \in Nonces
  BY ProcessorAssumption DEF Nonces
<1>2. Shape
  BY <1>1, ProcessorAssumption DEF Init, Shape
<1>3. \A s \in Shards : Received(s) = {} /\ ~HasKey(s) /\ skipped[s] = {}
  BY DEF Init, Received, HasKey
<1>4. ~Walking /\ ~InHand /\ run.pc # "record"
  BY DEF Init, Idle, Walking, InHand
<1>. QED BY <1>2, <1>3, <1>4
     DEF Inv, WalkIsBelowTip, RecordedWasHandedOver, NothingBeforeHand, RecordsTheReceived,
         ReceivedIsReached, HandIsReached, HandComesLast, SkipsNeedCause, SkippedIsBehind,
         NoKeyNoBlocks, HasKey

-----------------------------------------------------------------------------
\* A walk that begins, goes on to another round or ends leaves no block in hand. The tip
\* it sets out for is no lower than the one before.
LEMMA NoHandStep ==
    ASSUME Inv, ~InHand', run' \in {Idle, Round(tip)}, run.pc # "record" \/ faults' > 0,
           UNCHANGED <<tip, lastProcessed, handed, skipped>>,
           faults' \in 0..MaxFaults, faults' >= faults,
           faults' = 0 => ~InHand
    PROVE  Inv'
<1>1. Shape /\ \A s \in Shards : Received(s)' = Received(s)
  BY ReceivedStays DEF Inv
<1>2. Round(tip) \in Rounds
  BY <1>1 DEF Round, Rounds, Shape
<1>3. Shape'
  BY <1>1, <1>2 DEF Shape
<1>4. \A s \in Shards : Height(s) \in Nat /\ Height(s)' = tip[s] /\ Height(s) <= tip[s]
  BY <1>1, Numbers DEF Inv, WalkIsBelowTip, Height, Walking, Round, Idle
<1>5. WalkIsBelowTip' /\ ReceivedIsReached'
  BY <1>1, <1>4, Numbers, ProcessorAssumption
     DEF Inv, WalkIsBelowTip, ReceivedIsReached, Reached, HasKey, Walking, Round, Idle
<1>6. RecordedWasHandedOver' /\ SkipsNeedCause'
  BY <1>1, Numbers DEF Inv, RecordedWasHandedOver, SkipsNeedCause
<1>7. run'.pc # "record" /\ (faults' = 0 => faults = 0)
  BY <1>1, Numbers DEF Round, Idle
<1>8. SkippedIsBehind' /\ NoKeyNoBlocks'
  BY <1>1, <1>7, Numbers DEF Inv, SkippedIsBehind, NoKeyNoBlocks, HasKey
<1>9. NothingBeforeHand' /\ RecordsTheReceived' /\ HandIsReached' /\ HandComesLast'
  BY <1>7 DEF NothingBeforeHand, RecordsTheReceived, HandIsReached, HandComesLast
<1>. QED BY <1>3, <1>5, <1>6, <1>8, <1>9 DEF Inv

LEMMA HandleStep ==
    ASSUME Inv, HandleNewTransactions
    PROVE  Inv'
BY NoHandStep, Numbers DEF HandleNewTransactions, Inv, Shape, InHand, Round, Idle

LEMMA EndRoundStep ==
    ASSUME Inv, EndRound
    PROVE  Inv'
BY NoHandStep, Numbers DEF EndRound, Inv, Shape, InHand, Round, Idle

LEMMA AbortRunStep ==
    ASSUME Inv, AbortRun, faults < MaxFaults, faults' = faults + 1
    PROVE  Inv'
<1>1. faults' \in 0..MaxFaults /\ faults' > 0 /\ faults' >= faults
  BY ProcessorAssumption DEF Inv, Shape
<1>. QED BY <1>1, NoHandStep DEF AbortRun, InHand, Idle

\* The key of a shard is lost: what was received is still below the tip.
LEMMA LoseKeyStep ==
    ASSUME Inv, NEW shard \in Shards, LoseKey(shard), faults < MaxFaults, faults' = faults + 1
    PROVE  Inv'
<1>1. Shape /\ faults' \in 0..MaxFaults /\ faults' # 0
  BY ProcessorAssumption DEF Inv, Shape
<1>2. /\ lastProcessed' = [lastProcessed EXCEPT ![shard] = NoNonce]
      /\ tip' = tip /\ handed' = handed /\ skipped' = skipped /\ run' = run
  BY DEF LoseKey
<1>3. \A s \in Shards : /\ Received(s)' = Received(s) /\ Height(s)' = Height(s)
                        /\ HasKey(s)' => HasKey(s) /\ lastProcessed'[s] = lastProcessed[s]
  BY <1>1, <1>2, ReceivedStays DEF Shape, HasKey, Height, Walking
<1>4. Shape'
  BY <1>1, <1>2 DEF Shape
<1>5. ReceivedIsReached' /\ HandIsReached'
  BY <1>1, <1>2, <1>3, Numbers
     DEF Inv, ReceivedIsReached, HandIsReached, Reached, InHand, Visits
<1>6. RecordedWasHandedOver'
  BY <1>2, <1>3 DEF Inv, RecordedWasHandedOver, HasKey
<1>7. /\ WalkIsBelowTip' /\ NothingBeforeHand' /\ RecordsTheReceived' /\ HandComesLast'
  BY <1>1, <1>2, <1>3, Numbers DEF Inv, WalkIsBelowTip, NothingBeforeHand, RecordsTheReceived,
     HandComesLast, Walking, InHand, Visits
<1>8. SkipsNeedCause' /\ SkippedIsBehind' /\ NoKeyNoBlocks'
  BY <1>1 DEF SkipsNeedCause, SkippedIsBehind, NoKeyNoBlocks
<1>. QED BY <1>4, <1>5, <1>6, <1>7, <1>8 DEF Inv

LEMMA ProduceBlockStep ==
    ASSUME Inv, NEW shard \in Shards, ProduceBlock(shard)
    PROVE  Inv'
<1>1. Shape
  BY DEF Inv
<1>2. /\ tip[shard] < MaxNonce /\ tip' = [tip EXCEPT ![shard] = tip[shard] + 1]
      /\ UNCHANGED <<lastProcessed, handed, skipped, run, faults>>
  BY DEF ProduceBlock
<1>3. \A s \in Shards : tip'[s] \in Nonces /\ tip[s] <= tip'[s]
  <2>1. tip[shard] \in 1..MaxNonce /\ tip[shard] + 1 \in 1..MaxNonce
    BY <1>1, <1>2, ProcessorAssumption DEF Shape, Nonces
  <2>2. \A s \in Shards : tip'[s] = IF s = shard THEN tip[s] + 1 ELSE tip[s]
    BY <1>1, <1>2 DEF Shape
  <2>3. \A s \in Shards : tip[s] \in Nonces /\ tip[s] \in Nat
    BY <1>1, Numbers
  <2>. QED BY <2>1, <2>2, <2>3 DEF Nonces
<1>4. Shape'
  BY <1>1, <1>2, <1>3 DEF Shape
<1>5. \A s \in Shards : /\ Received(s)' = Received(s) /\ HasKey(s)' = HasKey(s)
                        /\ Height(s) \in Nat /\ Height(s)' \in Nat /\ Height(s) <= Height(s)'
  BY <1>1, <1>2, <1>3, Numbers, ReceivedStays DEF HasKey, Height, Walking
<1>6. WalkIsBelowTip'
  BY <1>1, <1>2, <1>3, Numbers DEF Inv, WalkIsBelowTip, Walking
<1>7. ReceivedIsReached' /\ HandIsReached'
  BY <1>1, <1>2, <1>5, Numbers, ProcessorAssumption
     DEF Inv, ReceivedIsReached, HandIsReached, Reached, InHand, Visits
<1>8. SkipsNeedCause'
  BY <1>1, <1>2, <1>3, <1>5, Numbers, ProcessorAssumption DEF Inv, SkipsNeedCause
<1>9. /\ RecordedWasHandedOver' /\ NothingBeforeHand' /\ RecordsTheReceived' /\ HandComesLast'
      /\ SkippedIsBehind' /\ NoKeyNoBlocks'
  BY <1>1, <1>2, <1>5, Numbers
     DEF Inv, RecordedWasHandedOver, NothingBeforeHand, RecordsTheReceived, HandComesLast,
         SkippedIsBehind, NoKeyNoBlocks, HasKey, InHand, Visits
<1>. QED BY <1>4, <1>6, <1>7, <1>8, <1>9 DEF Inv

-----------------------------------------------------------------------------
\* The block in hand is handed over.
LEMMA ReceiveStep ==
    ASSUME Inv, OnTransactionsReceived
    PROVE  Inv'
<1>1. Shape /\ run \in Visits /\ run.pc = "receive" /\ InHand
  BY Numbers DEF Inv, OnTransactionsReceived, InHand
<1>2. /\ run.shard \in Shards /\ run.nonce \in Nonces
      /\ handed' = [handed EXCEPT ![run.shard][run.nonce] = @ + 1]
      /\ run' = [run EXCEPT !.pc = "record"]
      /\ UNCHANGED <<tip, lastProcessed, skipped, faults>>
  BY <1>1 DEF OnTransactionsReceived, Visits
<1>3. /\ run' \in Visits /\ run'.pc = "record" /\ InHand' /\ Walking' /\ Walking
      /\ run'.shard = run.shard /\ run'.nonce = run.nonce /\ run'.nonces = run.nonces
  BY <1>1, <1>2 DEF Visits, InHand, Walking
<1>4. \A s \in Shards : Received(s)' = IF s = run.shard THEN Received(s) \cup {run.nonce}
                                       ELSE Received(s)
  <2>1. ASSUME NEW s \in Shards, NEW n \in Nonces
        PROVE  handed'[s][n] = IF s = run.shard /\ n = run.nonce THEN handed[s][n] + 1
                               ELSE handed[s][n]
    BY <1>1, <1>2 DEF Shape
  <2>2. \A s \in Shards, n \in Nonces : handed[s][n] \in Nat
    BY <1>1 DEF Shape
  <2>3. ASSUME NEW s \in Shards, NEW n \in Nonces
        PROVE  handed'[s][n] > 0 <=> handed[s][n] > 0 \/ (s = run.shard /\ n = run.nonce)
    BY <2>1, <2>2
  <2>. QED BY <1>2, <2>3 DEF Received
<1>5. \A s \in Shards : Height(s)' = Height(s) /\ HasKey(s)' = HasKey(s)
  BY <1>2, <1>3 DEF Height, HasKey
<1>6. Shape'
  BY <1>1, <1>2, <1>3 DEF Shape
<1>7. WalkIsBelowTip'
  BY <1>2, <1>3 DEF Inv, WalkIsBelowTip
<1>8. RecordedWasHandedOver' /\ NothingBeforeHand' /\ RecordsTheReceived'
  BY <1>1, <1>2, <1>3, <1>4
     DEF Inv, RecordedWasHandedOver, NothingBeforeHand, RecordsTheReceived
<1>9. ReceivedIsReached' /\ HandIsReached'
  BY <1>1, <1>2, <1>3, <1>4, <1>5 DEF Inv, ReceivedIsReached, HandIsReached, Reached
<1>10. HandComesLast'
  BY <1>1, <1>2, <1>3, <1>4, Numbers DEF Inv, HandComesLast
<1>11. SkipsNeedCause'
  <2>1. ASSUME faults = 0, NEW s \in Shards, NEW n \in skipped[s],
               \A received \in Received(s) : n < received
        PROVE  \A received \in Received(s)' : n < received
    <3>1. s = run.shard => n < run.nonce
      BY <1>1, <2>1 DEF Inv, SkippedIsBehind
    <3>. QED BY <1>4, <2>1, <3>1
  <2>. QED BY <1>2, <2>1 DEF Inv, SkipsNeedCause
<1>12. SkippedIsBehind' /\ NoKeyNoBlocks'
  BY <1>1, <1>2, <1>3, <1>4, <1>5 DEF Inv, SkippedIsBehind, NoKeyNoBlocks
<1>. QED BY <1>6, <1>7, <1>8, <1>9, <1>10, <1>11, <1>12 DEF Inv

\* The block in hand is recorded, and with it all that came before.
LEMMA RecordStep ==
    ASSUME Inv, SetLastProcessedNonce
    PROVE  Inv'
<1>1. Shape /\ run \in Visits /\ run.pc = "record" /\ InHand /\ Walking
  BY Numbers DEF Inv, SetLastProcessedNonce, InHand, Walking
<1>2. /\ run.shard \in Shards /\ run.nonce \in Nonces
      /\ lastProcessed' = [lastProcessed EXCEPT ![run.shard] = run.nonce]
      /\ run' = [pc |-> "visit", nonces |-> run.nonces, todo |-> run.todo,
                 reachedTip |-> run.reachedTip]
      /\ UNCHANGED <<tip, handed, skipped, faults>>
  BY <1>1 DEF SetLastProcessedNonce, Visits
<1>3. /\ run' \in Rounds /\ run'.pc = "visit" /\ ~InHand' /\ Walking'
      /\ run'.nonces = run.nonces
  BY <1>1, <1>2 DEF Visits, Rounds, InHand, Walking
<1>4. \A s \in Shards : Received(s)' = Received(s) /\ Height(s)' = Height(s)
  BY <1>1, <1>2, <1>3, ReceivedStays DEF Height
<1>5. run.nonce \in Nat /\ run.nonce # NoNonce /\ run.nonce \in Received(run.shard)
  BY <1>1, <1>2, Numbers, ProcessorAssumption DEF Inv, RecordsTheReceived
<1>6. \A s \in Shards : IF s = run.shard THEN HasKey(s)' /\ lastProcessed'[s] = run.nonce
                        ELSE HasKey(s)' = HasKey(s) /\ lastProcessed'[s] = lastProcessed[s]
  BY <1>1, <1>2, <1>5 DEF Shape, HasKey
<1>7. Shape'
  BY <1>1, <1>2, <1>3 DEF Shape
<1>8. WalkIsBelowTip'
  BY <1>1, <1>2, <1>3 DEF Inv, WalkIsBelowTip
<1>9. RecordedWasHandedOver'
  <2>1. ASSUME NEW s \in Shards, HasKey(s)', NEW n \in 1..lastProcessed'[s]
        PROVE  n \in Received(s)' \cup skipped'[s]
    <3>1. CASE s = run.shard
      <4>1. n \in 1..(run.nonce - 1) \/ n = run.nonce
        BY <1>5, <1>6, <2>1, <3>1
      <4>. QED BY <1>1, <1>2, <1>4, <1>5, <3>1, <4>1 DEF Inv, NothingBeforeHand
    <3>2. CASE s # run.shard
      BY <1>2, <1>4, <1>6, <2>1, <3>2 DEF Inv, RecordedWasHandedOver, HasKey
    <3>. QED BY <3>1, <3>2
  <2>. QED BY <2>1 DEF RecordedWasHandedOver, HasKey
<1>10. ReceivedIsReached'
  <2>1. ASSUME NEW s \in Shards, NEW n \in Received(s)
        PROVE  Reached(s, n)'
    <3>1. n \in Nat
      BY <1>1, <2>1, Numbers
    <3>2. CASE s = run.shard
      <4>1. n <= run.nonce
        BY <1>1, <2>1, <3>2 DEF Inv, HandComesLast
      <4>2. n <= lastProcessed'[s] + 1
        BY <1>5, <1>6, <3>1, <3>2, <4>1
      <4>. QED BY <1>4, <2>1, <4>2 DEF Inv, ReceivedIsReached, Reached
    <3>3. CASE s # run.shard
      BY <1>4, <1>6, <2>1, <3>3 DEF Inv, ReceivedIsReached, Reached
    <3>. QED BY <3>2, <3>3
  <2>. QED BY <1>4, <2>1 DEF ReceivedIsReached
<1>11. NothingBeforeHand' /\ RecordsTheReceived' /\ HandIsReached' /\ HandComesLast'
  BY <1>3 DEF NothingBeforeHand, RecordsTheReceived, HandIsReached, HandComesLast
<1>12. SkipsNeedCause'
  BY <1>2, <1>4 DEF Inv, SkipsNeedCause
<1>13. SkippedIsBehind'
  <2>1. ASSUME faults = 0, NEW s \in Shards, NEW n \in skipped[s]
        PROVE  HasKey(s)' /\ n <= lastProcessed'[s]
    <3>1. CASE s = run.shard
      <4>1. n < run.nonce /\ n \in Nat
        BY <1>1, <2>1, <3>1, Numbers DEF Inv, SkippedIsBehind
      <4>. QED BY <1>5, <1>6, <3>1, <4>1
    <3>2. CASE s # run.shard
      BY <1>6, <2>1, <3>2 DEF Inv, SkippedIsBehind
    <3>. QED BY <3>1, <3>2
  <2>. QED BY <1>2, <1>3, <2>1 DEF SkippedIsBehind
<1>14. NoKeyNoBlocks'
  BY <1>1, <1>2, <1>3, <1>4, <1>6 DEF Inv, NoKeyNoBlocks
<1>. QED BY <1>7, <1>8, <1>9, <1>10, <1>11, <1>12, <1>13, <1>14 DEF Inv

-----------------------------------------------------------------------------
\* Where a walk goes on: behind its key, or what it gives up, and below the tip.
LEMMA WhereItGoesOn ==
    ASSUME Inv, NEW shard \in Shards, run \in Rounds,
           ~AtTip(GetLastProcessedNonce(shard), run.nonces[shard]),
           NEW before,
           before = LookBehind(GetLastProcessedNonce(shard), run.nonces[shard])
    PROVE  /\ before \in Nat /\ before + 1 \in Nonces /\ before < run.nonces[shard]
           /\ \A n \in Received(shard) : n <= before + 1
           /\ HasKey(shard) => \/ before = lastProcessed[shard]
                               \/ /\ before + MaxLookBehind = run.nonces[shard]
                                  /\ before > lastProcessed[shard]
           /\ ~HasKey(shard) => before + 1 = run.nonces[shard]
<1>. DEFINE height == run.nonces[shard]
<1>1. Shape /\ Walking
  BY DEF Inv, Rounds, Walking
<1>2. height \in Nonces /\ height \in Nat /\ height >= 1 /\ MaxLookBehind \in Nat /\ MaxLookBehind >= 1
  BY <1>1, Numbers, ProcessorAssumption
<1>3. HasKey(shard) => lastProcessed[shard] \in Nat
  BY <1>1, Numbers
<1>4. /\ before \in Nat /\ before < height
      /\ HasKey(shard) => \/ before = lastProcessed[shard]
                          \/ before + MaxLookBehind = height /\ before > lastProcessed[shard]
      /\ ~HasKey(shard) => before + 1 = height
      /\ HasKey(shard) => before >= lastProcessed[shard] /\ before + MaxLookBehind >= height
  <2>1. CASE HasKey(shard)
    <3>1. /\ ~AtTip(lastProcessed[shard], height)
          /\ before = LookBehind(lastProcessed[shard], height)
      BY <2>1 DEF HasKey, GetLastProcessedNonce
    <3>. QED BY <1>2, <1>3, <2>1, <3>1 DEF AtTip, LookBehind
  <2>2. CASE ~HasKey(shard)
    <3>1. before = LookBehind(height - 1, height)
      BY <2>2 DEF HasKey, GetLastProcessedNonce
    <3>. QED BY <1>2, <2>2, <3>1 DEF LookBehind
  <2>. QED BY <2>1, <2>2
<1>5. before + 1 \in Nonces
  BY <1>2, <1>4, ProcessorAssumption DEF Nonces
<1>6. ASSUME NEW n \in Received(shard)
      PROVE  n <= before + 1
  <2>1. n \in Nat /\ Height(shard) = height
    BY <1>1, <1>6, Numbers DEF Height
  <2>2. n <= height /\ (HasKey(shard) => \/ n <= lastProcessed[shard] + 1
                                         \/ n + MaxLookBehind <= height + 1)
    BY <1>6, <2>1 DEF Inv, ReceivedIsReached, Reached
  <2>. QED BY <1>2, <1>3, <1>4, <2>1, <2>2
<1>. QED BY <1>4, <1>5, <1>6

\* What was recorded was handed over, if neither the key nor the blocks change.
LEMMA RecordsStand ==
    ASSUME RecordedWasHandedOver, lastProcessed' = lastProcessed,
           \A s \in Shards : Received(s)' = Received(s),
           \A s \in Shards : skipped[s] \subseteq skipped'[s]
    PROVE  RecordedWasHandedOver'
BY DEF RecordedWasHandedOver

LEMMA VisitStep ==
    ASSUME Inv, NEW shard \in Shards, VisitShard(shard)
    PROVE  Inv'
<1>1. Shape /\ run \in Rounds /\ ~InHand /\ Walking /\ run.pc = "visit"
  BY Numbers DEF Inv, VisitShard, InHand, Walking
<1>2. UNCHANGED <<tip, lastProcessed, handed, faults>>
  BY DEF VisitShard
<1>3. \A s \in Shards : Received(s)' = Received(s) /\ HasKey(s)' = HasKey(s)
  BY <1>2, ReceivedStays DEF HasKey
<1>4. CASE run' = [run EXCEPT !.todo = @ \ {shard}] /\ skipped' = skipped
  <2>1. /\ run' \in Rounds /\ run'.nonces = run.nonces /\ run'.pc = "visit"
        /\ ~InHand' /\ Walking'
    BY <1>1, <1>4 DEF Rounds, InHand, Walking
  <2>2. \A s \in Shards : Height(s)' = Height(s)
    BY <1>1, <1>2, <2>1 DEF Height
  <2>3. Shape'
    BY <1>1, <1>2, <1>4, <2>1 DEF Shape
  <2>4. WalkIsBelowTip' /\ ReceivedIsReached'
    BY <1>1, <1>2, <1>3, <2>1, <2>2 DEF Inv, WalkIsBelowTip, ReceivedIsReached, Reached
  <2>5. NothingBeforeHand' /\ RecordsTheReceived' /\ HandIsReached' /\ HandComesLast'
    BY <2>1 DEF NothingBeforeHand, RecordsTheReceived, HandIsReached, HandComesLast
  <2>6. RecordedWasHandedOver' /\ SkipsNeedCause' /\ SkippedIsBehind' /\ NoKeyNoBlocks'
    BY <1>1, <1>2, <1>3, <1>4, <2>1
       DEF Inv, RecordedWasHandedOver, SkipsNeedCause, SkippedIsBehind, NoKeyNoBlocks
  <2>. QED BY <2>3, <2>4, <2>5, <2>6 DEF Inv
<1>5. ASSUME NEW before,
             before = LookBehind(GetLastProcessedNonce(shard), run.nonces[shard]),
             ~AtTip(GetLastProcessedNonce(shard), run.nonces[shard]),
             skipped' = [skipped EXCEPT ![shard] = @ \cup ((1..before) \ Received(shard))],
             run' = [pc |-> "receive", nonces |-> run.nonces,
                     todo |-> run.todo \ {shard}, reachedTip |-> FALSE,
                     shard |-> shard, nonce |-> before + 1]
      PROVE  Inv'
  <2>1. /\ before \in Nat /\ before + 1 \in Nonces /\ before < run.nonces[shard]
        /\ \A n \in Received(shard) : n <= before + 1
        /\ HasKey(shard) => \/ before = lastProcessed[shard]
                            \/ /\ before + MaxLookBehind = run.nonces[shard]
                               /\ before > lastProcessed[shard]
        /\ ~HasKey(shard) => before + 1 = run.nonces[shard]
    BY <1>1, <1>5, WhereItGoesOn
  <2>2. /\ run' \in Visits /\ run'.nonces = run.nonces /\ run'.pc = "receive"
        /\ InHand' /\ Walking' /\ run'.shard = shard /\ run'.nonce = before + 1
    BY <1>1, <1>5, <2>1 DEF Rounds, Visits, InHand, Walking
  <2>3. \A s \in Shards : Height(s)' = Height(s)
    BY <1>1, <1>2, <2>2 DEF Height
  <2>4. \A s \in Shards : skipped'[s] = IF s = shard
                                        THEN skipped[s] \cup ((1..before) \ Received(s))
                                        ELSE skipped[s]
    BY <1>1, <1>5 DEF Shape
  <2>5. /\ run.nonces[shard] \in Nat /\ tip[shard] \in Nat /\ run.nonces[shard] <= tip[shard]
        /\ MaxLookBehind \in Nat /\ MaxLookBehind >= 1
        /\ HasKey(shard) => lastProcessed[shard] \in Nat
    BY <1>1, Numbers, ProcessorAssumption DEF Inv, WalkIsBelowTip
  <2>6. Shape'
    <3>1. 1..before \subseteq Nonces
      BY <2>1, ProcessorAssumption DEF Nonces
    <3>2. skipped' \in [Shards -> SUBSET Nonces]
      BY <1>1, <1>5, <3>1 DEF Shape
    <3>. QED BY <1>1, <1>2, <2>2, <3>2 DEF Shape
  <2>7. WalkIsBelowTip' /\ ReceivedIsReached'
    BY <1>1, <1>2, <1>3, <2>2, <2>3 DEF Inv, WalkIsBelowTip, ReceivedIsReached, Reached
  <2>8. RecordedWasHandedOver'
    <3>1. \A s \in Shards : skipped[s] \subseteq skipped'[s]
      BY <2>4
    <3>. QED BY <1>2, <1>3, <3>1, RecordsStand DEF Inv
  <2>9. NothingBeforeHand' /\ RecordsTheReceived' /\ HandComesLast'
    <3>1. run'.nonce - 1 = before /\ run'.shard \in Shards
      BY <2>1, <2>2
    <3>2. 1..before \subseteq Received(shard)' \cup skipped'[shard]
      BY <1>3, <2>4
    <3>3. NothingBeforeHand'
      BY <2>2, <3>1, <3>2 DEF NothingBeforeHand
    <3>4. RecordsTheReceived' /\ HandComesLast'
      BY <1>3, <2>1, <2>2 DEF RecordsTheReceived, HandComesLast
    <3>. QED BY <3>3, <3>4
  <2>10. HandIsReached'
    <3>1. before + 1 <= Height(shard)
      BY <1>1, <2>1, <2>5 DEF Height
    <3>2. HasKey(shard) => \/ before + 1 <= lastProcessed[shard] + 1
                           \/ before + 1 + MaxLookBehind <= Height(shard) + 1
      BY <1>1, <2>1, <2>5 DEF Height
    <3>. QED BY <1>2, <1>3, <2>2, <2>3, <3>1, <3>2 DEF HandIsReached, Reached
  <2>11. faults = 0 /\ ~HasKey(shard) => Received(shard) = {}
    BY <1>1 DEF Inv, NoKeyNoBlocks
  <2>12. SkipsNeedCause'
    <3>1. ASSUME faults = 0, NEW n \in (1..before) \ Received(shard), n \notin skipped[shard]
          PROVE  \/ \A received \in Received(shard) : n < received
                 \/ n + MaxLookBehind <= tip[shard]
      <4>1. CASE ~HasKey(shard)
        BY <2>11, <3>1, <4>1
      <4>2. CASE HasKey(shard)
        <5>1. n \notin 1..lastProcessed[shard]
          BY <3>1, <4>2 DEF Inv, RecordedWasHandedOver, HasKey
        <5>2. before + MaxLookBehind = run.nonces[shard]
          BY <2>1, <3>1, <4>2, <5>1
        <5>. QED BY <2>1, <2>5, <3>1, <5>2
      <4>. QED BY <4>1, <4>2
    <3>. QED BY <1>2, <1>3, <2>4, <3>1 DEF Inv, SkipsNeedCause
  <2>13. SkippedIsBehind'
    <3>1. ASSUME faults = 0, NEW n \in skipped'[shard]
          PROVE  n < before + 1
      <4>1. CASE n \in skipped[shard]
        <5>1. HasKey(shard) /\ n <= lastProcessed[shard] /\ n \in Nat
          BY <1>1, <3>1, <4>1, Numbers DEF Inv, SkippedIsBehind
        <5>. QED BY <2>1, <2>5, <5>1
      <4>2. CASE n \notin skipped[shard]
        <5>1. n \in 1..before
          BY <2>4, <3>1, <4>2
        <5>. QED BY <2>1, <5>1
      <4>. QED BY <4>1, <4>2
    <3>. QED BY <1>1, <1>2, <1>3, <2>2, <2>4, <3>1 DEF Inv, SkippedIsBehind
  <2>14. NoKeyNoBlocks'
    BY <1>1, <1>2, <1>3 DEF Inv, NoKeyNoBlocks
  <2>. QED BY <2>6, <2>7, <2>8, <2>9, <2>10, <2>12, <2>13, <2>14 DEF Inv
<1>. QED BY <1>4, <1>5 DEF VisitShard

-----------------------------------------------------------------------------
LEMMA InvIsInductive == Inv /\ [Next]_vars => Inv'
<1>. SUFFICES ASSUME Inv, [Next]_vars PROVE Inv'
  OBVIOUS
<1>1. CASE Walk
  BY <1>1, HandleStep, ReceiveStep, RecordStep, EndRoundStep, VisitStep DEF Walk
<1>2. CASE Fault
  BY <1>2, AbortRunStep, LoseKeyStep DEF Fault
<1>3. CASE \E shard \in Shards : ProduceBlock(shard)
  BY <1>3, ProduceBlockStep
<1>4. CASE UNCHANGED vars
  <2>1. \A s \in Shards : Received(s)' = Received(s) /\ HasKey(s)' = HasKey(s)
                          /\ Height(s)' = Height(s)
    BY <1>4, ReceivedStays DEF vars, HasKey, Height, Walking
  <2>2. Shape' /\ WalkIsBelowTip'
    BY <1>4 DEF vars, Inv, Shape, WalkIsBelowTip, Walking
  <2>3. ReceivedIsReached' /\ HandIsReached'
    BY <1>4, <2>1, Numbers
       DEF vars, Inv, ReceivedIsReached, HandIsReached, Reached, InHand, Visits
  <2>4. /\ RecordedWasHandedOver' /\ NothingBeforeHand' /\ RecordsTheReceived' /\ HandComesLast'
        /\ SkipsNeedCause' /\ SkippedIsBehind' /\ NoKeyNoBlocks'
    BY <1>4, <2>1, Numbers
       DEF vars, Inv, RecordedWasHandedOver, NothingBeforeHand, RecordsTheReceived,
           HandComesLast, SkipsNeedCause, SkippedIsBehind, NoKeyNoBlocks, InHand, Visits
  <2>. QED BY <2>2, <2>3, <2>4 DEF Inv
<1>. QED BY <1>1, <1>2, <1>3, <1>4 DEF Next

\* The invariant of the walk, for any number of shards and any fault.
THEOREM ProcessorInvariant == Spec => []Inv
BY InitInv, InvIsInductive, PTL DEF Spec

\* The walk and its books keep their types.
THEOREM ProcessorTypeCorrect == Spec => []TypeOK
<1>1. Inv => TypeOK
  BY DEF Inv, Shape, TypeOK, Rounds, Visits, Idle, Walking, InHand
<1>. QED BY <1>1, ProcessorInvariant, PTL

\* A restart between onTransactionsReceived and setLastProcessedNonce never loses a block
\* (processor.service.ts).
THEOREM NoBlockIsLost == Spec => []RecordedWasHandedOver
<1>1. Inv => RecordedWasHandedOver
  BY DEF Inv
<1>. QED BY <1>1, ProcessorInvariant, PTL

\* The blocks of a shard are handed over in the order of the chain, also after the key
\* is lost.
THEOREM BlocksInOrder == Spec => []HandedOverInOrder
<1>1. Inv => HandedOverInOrder
  BY DEF Inv, HandComesLast, InHand, HandedOverInOrder
<1>. QED BY <1>1, ProcessorInvariant, PTL

\* Without a failure nothing is passed over but the start of the chain and what
\* maxLookBehind gives up.
THEOREM SkipsHaveCause == Spec => []SkipsNeedCause
<1>1. Inv => SkipsNeedCause
  BY DEF Inv
<1>. QED BY <1>1, ProcessorInvariant, PTL

-----------------------------------------------------------------------------
(***************************************************************************)
(* Repeats. A block that may come again is paid for ahead: what a block    *)
(* has cost is how often it was handed over, less one unless it may come   *)
(* again. Only a fault brings that about, and for one block.               *)
(***************************************************************************)
Start(s) ==
    IF ~HasKey(s) THEN Height(s)
    ELSE IF Height(s) > lastProcessed[s] + MaxLookBehind THEN Height(s) - MaxLookBehind + 1
    ELSE lastProcessed[s] + 1

MayComeAgain(s, n) ==
    IF InHand /\ run.shard = s THEN run.pc = "receive" /\ n = run.nonce ELSE n >= Start(s)

Cost(s, n) ==
    LET times == handed[s][n]
    IN  IF times = 0 THEN 0 ELSE IF MayComeAgain(s, n) THEN times ELSE times - 1

Costs == [block \in Blocks |-> Cost(block[1], block[2])]

FaultsPay == SumFunctionOnSet(Costs, Blocks) <= faults

LEMMA BlocksAreFinite == IsFiniteSet(Blocks)
<1>1. IsFiniteSet(Nonces)
  BY ProcessorAssumption, FS_Interval DEF Nonces
<1>. QED BY <1>1, ProcessorAssumption, FS_Product DEF Blocks

LEMMA FaultsRise ==
    ASSUME Shape, Shape', faults' >= faults
    PROVE  faults \in Nat /\ faults' \in Nat /\ faults' - faults \in Nat
<1>1. faults \in 0..MaxFaults /\ faults' \in 0..MaxFaults
  BY DEF Shape
<1>2. faults \in Nat /\ faults' \in Nat
  BY <1>1, ProcessorAssumption
<1>3. \A x, y \in Nat : y >= x => y - x \in Nat
  OBVIOUS
<1>. QED BY <1>2, <1>3

\* A step that makes one block of one shard dearer, by no more than it adds to the faults.
LEMMA OneBlockPerFault ==
    ASSUME Shape, Shape', FaultsPay, faults' >= faults, NEW a, NEW m,
           \A s \in Shards, n \in Nonces :
              Cost(s, n)' <= Cost(s, n) + (IF s = a /\ n = m THEN faults' - faults ELSE 0)
    PROVE  FaultsPay'
<1>0. faults \in Nat /\ faults' \in Nat /\ faults' - faults \in Nat
  BY FaultsRise
<1>. DEFINE before == Costs
            after == Costs'
            d == faults' - faults
<1>1. d \in Nat /\ faults \in Nat /\ faults' \in Nat
  BY <1>0
<1>2. /\ \A block \in Blocks : before[block] \in Int /\ after[block] \in Int
      /\ \A block \in Blocks :
            after[block] <= before[block] + (IF block = <<a, m>> THEN d ELSE 0)
  <2>1. ASSUME NEW block \in Blocks
        PROVE  /\ before[block] \in Int /\ after[block] \in Int
               /\ after[block] <= before[block] + (IF block = <<a, m>> THEN d ELSE 0)
    <3>1. PICK s \in Shards, n \in Nonces : block = <<s, n>>
      BY <2>1 DEF Blocks
    <3>2. before[block] = Cost(s, n) /\ after[block] = Cost(s, n)'
      BY <2>1, <3>1 DEF Costs
    <3>3. Cost(s, n) \in Nat /\ Cost(s, n)' \in Nat
      <4>1. handed[s][n] \in Nat /\ handed'[s][n] \in Nat
        BY DEF Shape
      <4>. QED BY <4>1 DEF Cost
    <3>4. block = <<a, m>> <=> s = a /\ n = m
      BY <3>1
    <3>. QED BY <3>2, <3>3, <3>4
  <2>. QED BY <2>1
<1>. HIDE DEF before, after, d
<1>3. /\ SumFunctionOnSet(before, Blocks) \in Int /\ SumFunctionOnSet(after, Blocks) \in Int
      /\ SumFunctionOnSet(after, Blocks) <= SumFunctionOnSet(before, Blocks) + d
  BY <1>1, <1>2, BlocksAreFinite, SumAtMost
<1>. QED BY <1>1, <1>3 DEF FaultsPay, before, after, d, Blocks

LEMMA NoBlockDearer ==
    ASSUME Shape, Shape', FaultsPay, faults' = faults,
           \A s \in Shards, n \in Nonces : Cost(s, n)' <= Cost(s, n)
    PROVE  FaultsPay'
<1>1. faults \in Nat
  <2>1. faults \in 0..MaxFaults
    BY DEF Shape
  <2>. QED BY <2>1
<1>2. ASSUME NEW s \in Shards, NEW n \in Nonces
      PROVE  Cost(s, n)' <= Cost(s, n) + (IF s = 0 /\ n = 0 THEN faults' - faults ELSE 0)
  <2>1. handed[s][n] \in Nat
    BY DEF Shape
  <2>2. Cost(s, n) \in Int
    BY <2>1 DEF Cost
  <2>. QED BY <1>1, <2>2
<1>3. faults' >= faults
  BY <1>1
<1>. QED BY <1>2, <1>3, OneBlockPerFault

-----------------------------------------------------------------------------
\* The key and the height of a shard decide where its next walk begins.
LEMMA StartIsANumber ==
    ASSUME Shape, NEW s \in Shards
    PROVE  Start(s) \in Int /\ Height(s) \in Nat
<1>1. Height(s) \in Nat /\ MaxLookBehind \in Nat /\ (HasKey(s) => lastProcessed[s] \in Nat)
  BY Numbers, ProcessorAssumption DEF Height
<1>. QED BY <1>1 DEF Start

\* Nothing that was handed over is behind the place where the next walk begins.
LEMMA ReceivedBeforeStart ==
    ASSUME Inv, NEW s \in Shards, NEW n \in Received(s)
    PROVE  n <= Start(s)
<1>1. /\ n \in Nat /\ Height(s) \in Nat /\ MaxLookBehind \in Nat
      /\ HasKey(s) => lastProcessed[s] \in Nat
  BY Numbers, StartIsANumber, ProcessorAssumption DEF Inv
<1>2. n <= Height(s) /\ (HasKey(s) => \/ n <= lastProcessed[s] + 1
                                      \/ n + MaxLookBehind <= Height(s) + 1)
  BY DEF Inv, ReceivedIsReached, Reached
<1>. QED BY <1>1, <1>2 DEF Start

LEMMA Differences == \A x, y \in Nat : y >= x => y - x \in Nat
OBVIOUS

\* A walk that begins, goes on to another round or breaks off: only the last block of the
\* shard in hand may come again that could not before.
LEMMA NoHandPays ==
    ASSUME Inv, Inv', FaultsPay, ~InHand', run' \in {Idle, Round(tip)},
           UNCHANGED <<tip, lastProcessed, handed>>,
           IF InHand THEN faults' = faults + 1 ELSE faults' >= faults
    PROVE  FaultsPay'
<1>1. /\ Shape /\ Shape' /\ faults \in Nat /\ faults' \in Nat /\ faults' >= faults
      /\ faults' - faults \in Nat
  <2>1. Shape /\ Shape' /\ faults \in 0..MaxFaults /\ faults' \in 0..MaxFaults
    BY DEF Inv, Shape
  <2>2. faults \in Nat /\ faults' \in Nat
    BY <2>1, ProcessorAssumption
  <2>3. faults' >= faults
    <3>1. CASE InHand
      BY <2>2, <3>1
    <3>2. CASE ~InHand
      BY <3>2
    <3>. QED BY <3>1, <3>2
  <2>4. faults' - faults \in Nat
    BY <2>2, <2>3, Differences
  <2>. QED BY <2>1, <2>2, <2>3, <2>4
<1>. DEFINE a == run.shard
            m == Start(a)
<1>2. ASSUME NEW s \in Shards, NEW n \in Nonces
      PROVE  Cost(s, n)' <= Cost(s, n) + (IF s = a /\ n = m THEN faults' - faults ELSE 0)
  <2>1. handed[s][n] \in Nat /\ handed'[s][n] = handed[s][n]
    BY <1>1 DEF Shape
  <2>2. CASE handed[s][n] = 0
    <3>1. Cost(s, n) = 0 /\ Cost(s, n)' = 0
      BY <2>1, <2>2 DEF Cost
    <3>2. (IF s = a /\ n = m THEN faults' - faults ELSE 0) \in Nat
      BY <1>1
    <3>. QED BY <3>1, <3>2
  <2>3. CASE handed[s][n] # 0
    <3>1. n \in Received(s) /\ n \in Nat
      BY <1>1, <2>1, <2>3, Numbers DEF Received
    <3>2. n <= Start(s)
      BY <3>1, ReceivedBeforeStart
    <3>3. Start(s)' \in Int /\ Start(s) \in Int /\ Start(s)' >= Start(s)
      <4>1. Height(s) \in Nat /\ Height(s)' = tip[s] /\ Height(s) <= tip[s] /\ tip[s] \in Nat
        BY <1>1, Numbers DEF Inv, WalkIsBelowTip, Height, Walking, Round, Idle
      <4>2. HasKey(s)' = HasKey(s) /\ (HasKey(s) => lastProcessed[s] \in Nat)
        BY <1>1, Numbers DEF HasKey
      <4>3. MaxLookBehind \in Nat /\ lastProcessed' = lastProcessed
        BY ProcessorAssumption
      <4>. QED BY <4>1, <4>2, <4>3 DEF Start
    <3>4. MayComeAgain(s, n)' <=> n >= Start(s)'
      BY DEF MayComeAgain
    <3>5. CASE InHand /\ s = a
      <4>1. n # m => ~MayComeAgain(s, n)'
        BY <3>1, <3>2, <3>3, <3>4, <3>5
      <4>. QED BY <1>1, <2>1, <2>3, <3>5, <4>1 DEF Cost
    <3>6. CASE ~(InHand /\ s = a)
      <4>1. MayComeAgain(s, n)' => MayComeAgain(s, n)
        BY <3>1, <3>3, <3>4, <3>6 DEF MayComeAgain
      <4>. QED BY <1>1, <2>1, <2>3, <4>1 DEF Cost
    <3>. QED BY <3>5, <3>6
  <2>. QED BY <2>2, <2>3
<1>. HIDE DEF a, m
<1>. QED BY <1>1, <1>2, OneBlockPerFault

\* A block that is handed over again was paid for, one handed over for the first time is
\* free.
LEMMA ReceivePays ==
    ASSUME Inv, Inv', FaultsPay, OnTransactionsReceived
    PROVE  FaultsPay'
<1>1. Shape /\ Shape' /\ run \in Visits /\ run.pc = "receive" /\ InHand /\ faults \in Nat
  BY Numbers DEF Inv, OnTransactionsReceived, InHand
<1>2. /\ run.shard \in Shards /\ run.nonce \in Nonces
      /\ handed' = [handed EXCEPT ![run.shard][run.nonce] = @ + 1]
      /\ run' = [run EXCEPT !.pc = "record"]
      /\ UNCHANGED <<tip, lastProcessed, skipped, faults>>
  BY <1>1 DEF OnTransactionsReceived, Visits
<1>3. /\ run'.pc = "record" /\ InHand' /\ Walking' /\ Walking
      /\ run'.shard = run.shard /\ run'.nonce = run.nonce /\ run'.nonces = run.nonces
  BY <1>1, <1>2 DEF Visits, InHand, Walking
<1>4. ASSUME NEW s \in Shards, NEW n \in Nonces
      PROVE  Cost(s, n)' <= Cost(s, n)
  <2>1. /\ handed[s][n] \in Nat
        /\ handed'[s][n] = IF s = run.shard /\ n = run.nonce THEN handed[s][n] + 1
                           ELSE handed[s][n]
    BY <1>1, <1>2 DEF Shape
  <2>2. CASE s = run.shard
    <3>1. ~MayComeAgain(s, n)' /\ (MayComeAgain(s, n) <=> n = run.nonce)
      BY <1>1, <1>3, <2>2 DEF MayComeAgain
    <3>. QED BY <2>1, <3>1 DEF Cost
  <2>3. CASE s # run.shard
    <3>1. Height(s)' = Height(s) /\ HasKey(s)' = HasKey(s)
      BY <1>2, <1>3 DEF Height, HasKey
    <3>2. Start(s)' = Start(s)
      BY <1>2, <3>1 DEF Start
    <3>3. MayComeAgain(s, n)' = MayComeAgain(s, n)
      BY <1>3, <2>3, <3>2 DEF MayComeAgain
    <3>. QED BY <2>1, <2>3, <3>3 DEF Cost
  <2>. QED BY <2>2, <2>3
<1>. QED BY <1>1, <1>2, <1>4, NoBlockDearer

\* A recorded block does not come again.
LEMMA RecordPays ==
    ASSUME Inv, Inv', FaultsPay, SetLastProcessedNonce
    PROVE  FaultsPay'
<1>1. Shape /\ Shape' /\ run \in Visits /\ run.pc = "record" /\ InHand /\ Walking
  BY Numbers DEF Inv, SetLastProcessedNonce, InHand, Walking
<1>2. /\ run.shard \in Shards /\ run.nonce \in Nonces /\ faults \in Nat
      /\ lastProcessed' = [lastProcessed EXCEPT ![run.shard] = run.nonce]
      /\ run' = [pc |-> "visit", nonces |-> run.nonces, todo |-> run.todo,
                 reachedTip |-> run.reachedTip]
      /\ UNCHANGED <<tip, handed, skipped, faults>>
  BY <1>1, Numbers DEF SetLastProcessedNonce, Visits
<1>3. ~InHand' /\ Walking' /\ run'.nonces = run.nonces
  BY <1>2 DEF InHand, Walking
<1>4. ASSUME NEW s \in Shards, NEW n \in Nonces
      PROVE  Cost(s, n)' <= Cost(s, n)
  <2>1. handed[s][n] \in Nat /\ handed'[s][n] = handed[s][n]
    BY <1>1, <1>2 DEF Shape
  <2>2. Height(s)' = Height(s) /\ Height(s) \in Nat
    BY <1>1, <1>3, StartIsANumber DEF Height
  <2>3. MayComeAgain(s, n)' <=> n >= Start(s)'
    BY <1>3 DEF MayComeAgain
  <2>4. CASE s = run.shard
    <3>1. run.nonce \in Nat /\ run.nonce # NoNonce /\ n \in Nat /\ MaxLookBehind \in Nat
      BY <1>1, <1>2, Numbers, ProcessorAssumption
    <3>2. lastProcessed'[s] = run.nonce /\ HasKey(s)'
      BY <1>1, <1>2, <2>4, <3>1 DEF Shape, HasKey
    <3>3. Start(s)' > run.nonce
      BY <2>2, <3>1, <3>2 DEF Start
    <3>4. Start(s)' \in Int
      BY <2>2, <3>1, <3>2 DEF Start
    <3>5. handed[s][n] # 0 => n <= run.nonce
      BY <1>1, <2>1, <2>4 DEF Inv, HandComesLast, Received
    <3>6. handed[s][n] # 0 => ~MayComeAgain(s, n)'
      BY <2>3, <3>1, <3>3, <3>4, <3>5
    <3>. QED BY <2>1, <3>6 DEF Cost
  <2>5. CASE s # run.shard
    <3>1. lastProcessed'[s] = lastProcessed[s] /\ HasKey(s)' = HasKey(s)
      BY <1>1, <1>2, <2>5 DEF Shape, HasKey
    <3>2. Start(s)' = Start(s)
      BY <2>2, <3>1 DEF Start
    <3>3. MayComeAgain(s, n)' = MayComeAgain(s, n)
      BY <2>3, <2>5, <3>2 DEF MayComeAgain
    <3>. QED BY <2>1, <3>3 DEF Cost
  <2>. QED BY <2>4, <2>5
<1>. QED BY <1>1, <1>2, <1>4, NoBlockDearer

\* A walk takes up a shard where its start is.
LEMMA VisitPays ==
    ASSUME Inv, Inv', FaultsPay, NEW shard \in Shards, VisitShard(shard)
    PROVE  FaultsPay'
<1>1. Shape /\ Shape' /\ run \in Rounds /\ ~InHand /\ Walking /\ faults \in Nat
  BY Numbers DEF Inv, VisitShard, InHand, Walking
<1>2. UNCHANGED <<tip, lastProcessed, handed, faults>>
  BY DEF VisitShard
<1>3. run'.nonces = run.nonces /\ Walking'
  BY <1>1 DEF VisitShard, Rounds, Walking
<1>4. InHand' => /\ run'.shard = shard /\ run'.nonce = Start(shard)
                 /\ run'.pc = "receive"
  <2>. DEFINE resumed == GetLastProcessedNonce(shard)
              height == run.nonces[shard]
  <2>1. \/ /\ ~AtTip(resumed, height)
           /\ run'.shard = shard /\ run'.nonce = LookBehind(resumed, height) + 1
           /\ run'.pc = "receive"
        \/ ~InHand'
    BY <1>1 DEF VisitShard, Rounds, InHand
  <2>2. /\ Height(shard) = height /\ height \in Nat
        /\ MaxLookBehind \in Nat /\ MaxLookBehind >= 1
        /\ HasKey(shard) => lastProcessed[shard] \in Nat
    BY <1>1, Numbers, ProcessorAssumption DEF Height
  <2>3. LookBehind(resumed, height) + 1 = Start(shard)
    BY <2>2 DEF LookBehind, GetLastProcessedNonce, HasKey, Start
  <2>. QED BY <2>1, <2>3
<1>5. ASSUME NEW s \in Shards, NEW n \in Nonces
      PROVE  Cost(s, n)' <= Cost(s, n)
  <2>1. handed[s][n] \in Nat /\ handed'[s][n] = handed[s][n]
    BY <1>1, <1>2 DEF Shape
  <2>2. Height(s)' = Height(s) /\ HasKey(s)' = HasKey(s)
    BY <1>1, <1>2, <1>3 DEF Height, HasKey
  <2>3. Start(s)' = Start(s) /\ Start(s) \in Int /\ n \in Nat
    BY <1>1, <1>2, <2>2, StartIsANumber, Numbers DEF Start
  <2>4. MayComeAgain(s, n)' => MayComeAgain(s, n)
    BY <1>1, <1>4, <2>3 DEF MayComeAgain
  <2>. QED BY <2>1, <2>4 DEF Cost
<1>. QED BY <1>1, <1>2, <1>5, NoBlockDearer

\* A lost key: the shard begins at its height, where one block may be.
LEMMA LoseKeyPays ==
    ASSUME Inv, Inv', FaultsPay, NEW shard \in Shards, LoseKey(shard), faults' = faults + 1
    PROVE  FaultsPay'
<1>1. Shape /\ Shape' /\ faults \in Nat
  BY Numbers DEF Inv
<1>2. /\ lastProcessed' = [lastProcessed EXCEPT ![shard] = NoNonce]
      /\ tip' = tip /\ handed' = handed /\ run' = run
  BY DEF LoseKey
<1>. DEFINE m == Height(shard)
<1>3. ASSUME NEW s \in Shards, NEW n \in Nonces
      PROVE  Cost(s, n)' <= Cost(s, n) + (IF s = shard /\ n = m THEN faults' - faults ELSE 0)
  <2>1. /\ handed[s][n] \in Nat /\ handed'[s][n] = handed[s][n]
        /\ Height(s)' = Height(s) /\ Height(s) \in Nat /\ n \in Nat
    BY <1>1, <1>2, StartIsANumber, Numbers DEF Shape, Height, Walking
  <2>2. CASE s # shard
    <3>1. lastProcessed'[s] = lastProcessed[s] /\ HasKey(s)' = HasKey(s)
      BY <1>1, <1>2, <2>2 DEF Shape, HasKey
    <3>2. Start(s)' = Start(s)
      BY <2>1, <3>1 DEF Start
    <3>3. MayComeAgain(s, n)' = MayComeAgain(s, n)
      BY <1>2, <3>2 DEF MayComeAgain, InHand
    <3>. QED BY <2>1, <2>2, <3>3 DEF Cost
  <2>3. CASE s = shard
    <3>1. Start(s)' = Height(s)
      BY <1>1, <1>2, <2>1, <2>3 DEF Shape, HasKey, Start
    <3>2. handed[s][n] # 0 => n <= Height(s)
      BY <2>1 DEF Inv, ReceivedIsReached, Reached, Received
    <3>3. handed[s][n] # 0 /\ MayComeAgain(s, n)' => MayComeAgain(s, n) \/ n = m
      BY <1>2, <2>1, <2>3, <3>1, <3>2 DEF MayComeAgain, InHand
    <3>. QED BY <1>1, <2>1, <2>3, <3>3 DEF Cost
  <2>. QED BY <2>2, <2>3
<1>. HIDE DEF m
<1>4. faults' >= faults
  BY <1>1
<1>. QED BY <1>1, <1>3, <1>4, OneBlockPerFault

\* A chain that grows takes the start of its shard with it.
LEMMA ProduceBlockPays ==
    ASSUME Inv, Inv', FaultsPay, NEW shard \in Shards, ProduceBlock(shard)
    PROVE  FaultsPay'
<1>1. Shape /\ Shape' /\ faults \in Nat
  BY Numbers DEF Inv
<1>2. tip' = [tip EXCEPT ![shard] = @ + 1] /\ UNCHANGED <<lastProcessed, handed, run, faults>>
  BY DEF ProduceBlock
<1>3. ASSUME NEW s \in Shards, NEW n \in Nonces
      PROVE  Cost(s, n)' <= Cost(s, n)
  <2>1. handed[s][n] \in Nat /\ handed'[s][n] = handed[s][n] /\ n \in Nat
    BY <1>1, <1>2, Numbers DEF Shape
  <2>2. tip[s] \in Nat /\ tip'[s] = IF s = shard THEN tip[s] + 1 ELSE tip[s]
    BY <1>1, <1>2, Numbers DEF Shape
  <2>3. HasKey(s)' = HasKey(s) /\ Height(s) \in Nat /\ Height(s)' \in Nat
        /\ Height(s) <= Height(s)'
    BY <1>1, <1>2, <2>2, StartIsANumber DEF HasKey, Height, Walking
  <2>4. MaxLookBehind \in Nat /\ (HasKey(s) => lastProcessed[s] \in Nat)
    BY <1>1, Numbers, ProcessorAssumption
  <2>5. Start(s) \in Int /\ Start(s)' \in Int /\ Start(s) <= Start(s)'
    BY <1>2, <2>3, <2>4 DEF Start
  <2>6. MayComeAgain(s, n)' => MayComeAgain(s, n)
    BY <1>2, <2>1, <2>5 DEF MayComeAgain, InHand
  <2>. QED BY <2>1, <2>6 DEF Cost
<1>. QED BY <1>1, <1>2, <1>3, NoBlockDearer

-----------------------------------------------------------------------------
LEMMA InitPays == Init => FaultsPay
<1>. SUFFICES ASSUME Init PROVE FaultsPay
  OBVIOUS
<1>1. \A block \in Blocks : Costs[block] = 0
  BY DEF Init, Blocks, Costs, Cost
<1>. DEFINE costs == Costs
<1>2. SumFunctionOnSet(costs, Blocks) = 0
  <2>. HIDE DEF costs
  <2>. QED BY <1>1, BlocksAreFinite, SumOfZeros DEF costs
<1>. QED BY <1>2 DEF Init, FaultsPay

LEMMA PayingIsInductive == Inv /\ FaultsPay /\ [Next]_vars => FaultsPay'
<1>. SUFFICES ASSUME Inv, FaultsPay, [Next]_vars PROVE FaultsPay'
  OBVIOUS
<1>1. Inv'
  BY InvIsInductive
<1>2. faults \in Nat
  BY Numbers DEF Inv
<1>3. CASE HandleNewTransactions \/ EndRound
  <2>1. ~InHand /\ ~InHand' /\ run' \in {Idle, Round(tip)} /\ faults' >= faults
        /\ UNCHANGED <<tip, lastProcessed, handed>>
    BY <1>2, <1>3 DEF HandleNewTransactions, EndRound, InHand, Round, Idle
  <2>. QED BY <1>1, <2>1, NoHandPays
<1>4. CASE AbortRun /\ faults' = faults + 1
  <2>1. ~InHand' /\ run' \in {Idle, Round(tip)} /\ faults' >= faults
        /\ UNCHANGED <<tip, lastProcessed, handed>>
    BY <1>2, <1>4 DEF AbortRun, InHand, Idle
  <2>. QED BY <1>1, <1>4, <2>1, NoHandPays
<1>5. CASE OnTransactionsReceived \/ SetLastProcessedNonce
  BY <1>1, <1>5, ReceivePays, RecordPays
<1>6. CASE \E shard \in Shards : VisitShard(shard) \/ ProduceBlock(shard)
  BY <1>1, <1>6, VisitPays, ProduceBlockPays
<1>7. CASE faults' = faults + 1 /\ \E shard \in Shards : LoseKey(shard)
  BY <1>1, <1>7, LoseKeyPays
<1>8. CASE UNCHANGED vars
  BY <1>8 DEF vars, FaultsPay, Costs, Cost, MayComeAgain, Start, HasKey, Height, Walking,
              InHand, Blocks
<1>. QED BY <1>3, <1>4, <1>5, <1>6, <1>7, <1>8 DEF Next, Walk, Fault

\* A block is handed over again only because something failed, and one failure repeats at
\* most one block of one shard (processor.service.ts).
THEOREM FaultsPayForRepeats == Spec => []RepeatsNeedFaults
<1>1. Inv /\ FaultsPay => RepeatsNeedFaults
  <2>. SUFFICES ASSUME Inv, FaultsPay PROVE RepeatsNeedFaults
    OBVIOUS
  <2>. DEFINE costs == Costs
              repeats == Repeats
  <2>1. /\ \A block \in Blocks : costs[block] \in Int /\ repeats[block] \in Int
        /\ \A block \in Blocks : repeats[block] <= costs[block] + (IF block = 0 THEN 0 ELSE 0)
    <3>1. ASSUME NEW block \in Blocks
          PROVE  handed[block[1]][block[2]] \in Nat
      BY <3>1 DEF Inv, Shape, Blocks
    <3>. QED BY <3>1 DEF Costs, Cost, Repeats
  <2>. HIDE DEF costs, repeats
  <2>2. /\ SumFunctionOnSet(costs, Blocks) \in Int /\ SumFunctionOnSet(repeats, Blocks) \in Int
        /\ SumFunctionOnSet(repeats, Blocks) <= SumFunctionOnSet(costs, Blocks) + 0
    BY <2>1, BlocksAreFinite, SumAtMost
  <2>3. faults \in Nat
    BY Numbers DEF Inv
  <2>. QED BY <2>2, <2>3 DEF FaultsPay, RepeatsNeedFaults, costs, repeats
<1>. QED BY <1>1, ProcessorInvariant, InitPays, PayingIsInductive, PTL DEF Spec
=============================================================================
