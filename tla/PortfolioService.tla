--------------------------- MODULE PortfolioService ---------------------------
(***************************************************************************)
(* What the contracts promise a user, with no calls, journals or epochs in *)
(* sight: an account is bought once; a deposit is invested whole, at once, *)
(* by the list on offer for the level asked for, or not at all; and the    *)
(* lists on offer are those of one edition, to which lists are added until *)
(* the next edition replaces them all.                                     *)
(*                                                                         *)
(* The promise is made by the code of the smart account, and the template  *)
(* may be any contract. Whose account runs other code is not promised      *)
(* anything for a deposit, and who opened an account with other code never *)
(* invests, also once it is upgraded. It takes a step of the user's own,   *)
(* while the template is another contract, to get there.                   *)
(***************************************************************************)
EXTENDS Naturals

CONSTANTS Users, Levels, Lists, Amounts, OpenFee, NoList, InitialFunds

VARIABLES
    funds,      \* what a user has left
    opened,     \* users that have an account
    offers,     \* the list on offer for each level, or NoList
    portfolio,  \* level and list by which a user is invested
    invested,   \* all that was ever invested
    genuine,    \* whether the template is a smart account
    foreign,    \* users whose account runs other code
    strangers   \* users whose account was opened with other code

codeVars == <<genuine, foreign, strangers>>
vars == <<funds, opened, offers, portfolio, invested, codeVars>>

Init ==
    /\ funds = [user \in Users |-> InitialFunds]
    /\ opened = {}
    /\ offers = [level \in Levels |-> NoList]
    /\ portfolio = [user \in Users |-> [level |-> 0, list |-> NoList]]
    /\ invested = 0
    /\ genuine \in BOOLEAN
    /\ foreign = {}
    /\ strangers = {}

\* In the current edition, or as the first list of the next.
Publish(level, list) ==
    /\ \/ offers[level] = NoList /\ offers' = [offers EXCEPT ![level] = list]
       \/ offers' = [other \in Levels |-> IF other = level THEN list ELSE NoList]
    /\ UNCHANGED <<funds, opened, portfolio, invested, codeVars>>

\* Nobody's account changes with the template.
Retemplate ==
    /\ genuine' \in BOOLEAN
    /\ UNCHANGED <<funds, opened, offers, portfolio, invested, foreign, strangers>>

\* The user's account comes to run the code of the template.
TakesTemplate(user) ==
    /\ foreign' = IF genuine THEN foreign \ {user} ELSE foreign \cup {user}
    /\ UNCHANGED genuine

Open(user) ==
    /\ user \notin opened
    /\ funds[user] >= OpenFee
    /\ opened' = opened \cup {user}
    /\ funds' = [funds EXCEPT ![user] = @ - OpenFee]
    /\ TakesTemplate(user)
    /\ strangers' = IF genuine THEN strangers ELSE strangers \cup {user}
    /\ UNCHANGED <<offers, portfolio, invested>>

Upgrade(user) ==
    /\ user \in opened
    /\ TakesTemplate(user)
    /\ UNCHANGED <<funds, opened, offers, portfolio, invested, strangers>>

Invest(user, level, amount) ==
    /\ user \in opened \ (foreign \cup strangers)
    /\ amount \in 1..funds[user]
    /\ offers[level] # NoList
    /\ funds' = [funds EXCEPT ![user] = @ - amount]
    /\ portfolio' = [portfolio EXCEPT ![user] = [level |-> level, list |-> offers[level]]]
    /\ invested' = invested + amount
    /\ UNCHANGED <<opened, offers, codeVars>>

\* Other code keeps a deposit, of which nothing is invested.
HandOver(user, amount) ==
    /\ user \in foreign
    /\ amount \in 1..funds[user]
    /\ \E level \in Levels : offers[level] # NoList
    /\ funds' = [funds EXCEPT ![user] = @ - amount]
    /\ UNCHANGED <<opened, offers, portfolio, invested, codeVars>>

Next ==
    \/ \E level \in Levels, list \in Lists : Publish(level, list)
    \/ Retemplate
    \/ \E user \in Users :
          \/ Open(user) \/ Upgrade(user)
          \/ \E level \in Levels, amount \in Amounts : Invest(user, level, amount)
          \/ \E amount \in Amounts : HandOver(user, amount)

Spec == Init /\ [][Next]_vars
=============================================================================
