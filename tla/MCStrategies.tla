----------------------------- MODULE MCStrategies -----------------------------
(***************************************************************************)
(* The strategy book with the argument lists an admin may get wrong: none, *)
(* too many, short of 100%, with void entries, and, where U64 lets them,   *)
(* lists whose total wraps around.                                         *)
(***************************************************************************)
EXTENDS Strategies

Entry(percentage) == [percentage |-> percentage, position_type |-> "ESDT",
                      contract_address |-> "pair", output_token_id |-> "USDC"]

MCSubmissions ==
    { <<>>,
      <<Entry(10000)>>,
      <<Entry(0), Entry(4000), Entry(0), Entry(6000)>>,
      <<Entry(2000), Entry(2000), Entry(2000), Entry(2000), Entry(2000)>>,
      <<Entry(2000), Entry(2000), Entry(2000), Entry(2000), Entry(2000), Entry(0)>>,
      <<Entry(9999)>> }

\* Adds up to U64 + MAX_PERCENTAGE: far more than everything, in u64 exactly 100%.
MCWrappingSubmissions ==
    { <<Entry(5000), Entry(5000)>>, <<Entry(9999)>>,
      <<Entry(U64 - 1), Entry(MAX_PERCENTAGE + 1)>> }
=============================================================================
