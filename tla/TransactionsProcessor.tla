------------------------ MODULE TransactionsProcessor ------------------------
(***************************************************************************)
(* The transactions processor                                              *)
(* (apps/transactions-processor/src/processor/processor.service.ts): every *)
(* second it walks each shard from the nonce it last recorded in Redis to  *)
(* the tip of the chain, hands over the transactions of one block at a     *)
(* time and records the block's nonce only after that.                     *)
(*                                                                         *)
(* The walk itself is the TransactionProcessor of the SDK, external: it is *)
(* modelled by the order in which it calls the three functions it is given *)
(* and by its option maxLookBehind.                                        *)
(***************************************************************************)
EXTENDS Naturals, FiniteSets, Functions

CONSTANTS
    Shards,
    MaxLookBehind,
    NoNonce,    \* the key is missing in Redis
    MaxNonce,   \* bound on the height of a shard
    MaxFaults   \* bound on failures, restarts and lost keys

Nonces == 1..MaxNonce

ASSUME ProcessorAssumption ==
    /\ MaxLookBehind \in Nat \ {0}
    /\ MaxNonce \in Nat \ {0}
    /\ MaxFaults \in Nat
    /\ NoNonce \notin Nat
    /\ IsFiniteSet(Shards)

VARIABLES
    tip,            \* nonce of the newest block of each shard
    lastProcessed,  \* the key lastProcessedNonce of each shard
    handed,         \* how often the transactions of each block were handed over
    skipped,        \* blocks of each shard that were passed over
    run,            \* the walk under way; the lock lets no second one start
    faults

vars == <<tip, lastProcessed, handed, skipped, run, faults>>

Idle == [pc |-> "idle"]

\* A round over all shards, up to the tips as they are now.
Round(tips) == [pc |-> "visit", nonces |-> tips, todo |-> Shards, reachedTip |-> TRUE]

Init ==
    /\ tip = [shard \in Shards |-> 1]
    /\ lastProcessed = [shard \in Shards |-> NoNonce]
    /\ handed = [shard \in Shards |-> [nonce \in Nonces |-> 0]]
    /\ skipped = [shard \in Shards |-> {}]
    /\ run = Idle
    /\ faults = 0

Received(shard) == {nonce \in Nonces : handed[shard][nonce] > 0}

-----------------------------------------------------------------------------
\* The cron tick, when the lock is free.
HandleNewTransactions ==
    /\ run = Idle
    /\ run' = Round(tip)
    /\ UNCHANGED <<tip, lastProcessed, handed, skipped, faults>>

\* Mutants of GetLastProcessedNonce: a missing key read as the tip, so that the walk
\* never begins, and as the start of the chain.
StartAtTip(shard) ==
    IF lastProcessed[shard] = NoNonce THEN run.nonces[shard] ELSE lastProcessed[shard]

StartAtFirst(shard) ==
    IF lastProcessed[shard] = NoNonce THEN 0 ELSE lastProcessed[shard]

\* Where the walk of a shard resumes. Without a key, right before the tip.
GetLastProcessedNonce(shard) ==
    IF lastProcessed[shard] = NoNonce THEN run.nonces[shard] - 1 ELSE lastProcessed[shard]

\* Mutant: no block behind the tip.
LookNowhereBehind(resumed, height) == height - 1

AtTip(resumed, height) == resumed >= height

\* A walk more than maxLookBehind behind gives up the blocks in between.
LookBehind(resumed, height) ==
    IF height > resumed + MaxLookBehind THEN height - MaxLookBehind ELSE resumed

\* The walk takes one block of each shard a round. Whatever lies before it and was
\* not handed over is passed over.
VisitShard(shard) ==
    /\ run.pc = "visit"
    /\ shard \in run.todo
    /\ LET resumed == GetLastProcessedNonce(shard)
           height  == run.nonces[shard]
           before  == LookBehind(resumed, height)
       IN  \/ /\ AtTip(resumed, height)
              /\ run' = [run EXCEPT !.todo = @ \ {shard}]
              /\ UNCHANGED skipped
           \/ /\ ~AtTip(resumed, height)
              /\ skipped' = [skipped EXCEPT ![shard] = @ \cup ((1..before) \ Received(shard))]
              /\ run' = [pc |-> "receive", nonces |-> run.nonces,
                         todo |-> run.todo \ {shard}, reachedTip |-> FALSE,
                         shard |-> shard, nonce |-> before + 1]
    /\ UNCHANGED <<tip, lastProcessed, handed, faults>>

\* Mutants: the tip recorded in place of the block, and nothing recorded.
RecordTip ==
    /\ run.pc = "record"
    /\ lastProcessed' = [lastProcessed EXCEPT ![run.shard] = run.nonces[run.shard]]
    /\ run' = [pc |-> "visit", nonces |-> run.nonces, todo |-> run.todo,
               reachedTip |-> run.reachedTip]
    /\ UNCHANGED <<tip, handed, skipped, faults>>

RecordNothing ==
    /\ run.pc = "record"
    /\ run' = [pc |-> "visit", nonces |-> run.nonces, todo |-> run.todo,
               reachedTip |-> run.reachedTip]
    /\ UNCHANGED <<tip, lastProcessed, handed, skipped, faults>>

OnTransactionsReceived ==
    /\ run.pc = "receive"
    /\ handed' = [handed EXCEPT ![run.shard][run.nonce] = @ + 1]
    /\ run' = [run EXCEPT !.pc = "record"]
    /\ UNCHANGED <<tip, lastProcessed, skipped, faults>>

SetLastProcessedNonce ==
    /\ run.pc = "record"
    /\ lastProcessed' = [lastProcessed EXCEPT ![run.shard] = run.nonce]
    /\ run' = [pc |-> "visit", nonces |-> run.nonces, todo |-> run.todo,
               reachedTip |-> run.reachedTip]
    /\ UNCHANGED <<tip, handed, skipped, faults>>

\* Another round unless every shard was at its tip.
EndRound ==
    /\ run.pc = "visit"
    /\ run.todo = {}
    /\ run' = IF run.reachedTip THEN Idle ELSE Round(tip)
    /\ UNCHANGED <<tip, lastProcessed, handed, skipped, faults>>

-----------------------------------------------------------------------------
ProduceBlock(shard) ==
    /\ tip[shard] < MaxNonce
    /\ tip' = [tip EXCEPT ![shard] = @ + 1]
    /\ UNCHANGED <<lastProcessed, handed, skipped, run, faults>>

\* The gateway or Redis fails and the lock is released, or the process restarts.
AbortRun ==
    /\ run # Idle
    /\ run' = Idle
    /\ UNCHANGED <<tip, lastProcessed, handed, skipped>>

\* The ttl of a month runs out, or Redis restarts empty.
LoseKey(shard) ==
    /\ lastProcessed[shard] # NoNonce
    /\ lastProcessed' = [lastProcessed EXCEPT ![shard] = NoNonce]
    /\ UNCHANGED <<tip, handed, skipped, run>>

Fault ==
    /\ faults < MaxFaults
    /\ faults' = faults + 1
    /\ AbortRun \/ \E shard \in Shards : LoseKey(shard)

Walk ==
    \/ HandleNewTransactions \/ OnTransactionsReceived \/ SetLastProcessedNonce \/ EndRound
    \/ \E shard \in Shards : VisitShard(shard)

Next == Walk \/ Fault \/ \E shard \in Shards : ProduceBlock(shard)

\* The cron goes on ticking and a walk goes on while nothing fails.
Spec == Init /\ [][Next]_vars /\ WF_vars(Walk)

-----------------------------------------------------------------------------
Walking == run.pc # "idle"
InHand == run.pc \in {"receive", "record"}

TypeOK ==
    /\ tip \in [Shards -> Nonces]
    /\ lastProcessed \in [Shards -> Nonces \cup {NoNonce}]
    /\ handed \in [Shards -> [Nonces -> Nat]]
    /\ skipped \in [Shards -> SUBSET Nonces]
    /\ run.pc \in {"idle", "visit", "receive", "record"}
    /\ Walking => /\ run.nonces \in [Shards -> Nonces]
                  /\ run.todo \subseteq Shards
                  /\ run.reachedTip \in BOOLEAN
    /\ InHand => run.shard \in Shards /\ run.nonce \in Nonces
    /\ faults \in 0..MaxFaults

\* What is recorded as processed was handed over, or passed over on purpose: a
\* restart between the two calls never loses a block.
RecordedWasHandedOver ==
    \A shard \in Shards : lastProcessed[shard] # NoNonce =>
        1..lastProcessed[shard] \subseteq Received(shard) \cup skipped[shard]

\* The blocks of a shard are handed over in the order of the chain: the one in hand
\* comes after all that were handed over before, or is the last of them again, even
\* when Redis forgot where the walk was.
HandedOverInOrder ==
    run.pc = "receive" => \A nonce \in Received(run.shard) : nonce <= run.nonce

Blocks == Shards \X Nonces

\* How often each block was handed over when it had been before.
Repeats == [block \in Blocks |->
    LET times == handed[block[1]][block[2]] IN IF times = 0 THEN 0 ELSE times - 1]

\* A block is handed over again only because something failed, and one failure
\* repeats at most one block of one shard.
RepeatsNeedFaults == SumFunctionOnSet(Repeats, Blocks) <= faults

\* While Redis keeps the keys and nothing fails, the only blocks passed over are those
\* from before the processor's first and those the chain left maxLookBehind behind.
SkipsNeedCause ==
    faults = 0 =>
        \A shard \in Shards : \A nonce \in skipped[shard] :
            \/ \A received \in Received(shard) : nonce < received
            \/ nonce + MaxLookBehind <= tip[shard]

\* Time and again every block there is has been handed over or passed over: the walk
\* catches up with the chain after every failure.
CatchesUp ==
    []<>(\A shard \in Shards : 1..tip[shard] \subseteq Received(shard) \cup skipped[shard])
=============================================================================
