------------------------------ MODULE PayoutBook ------------------------------
(* What the ledger promises a partner, without transactions, jobs or admins *)
(* racing each other: the money of an earning is in one place at a time,    *)
(* moves only along the life of an earning, and a payout takes whole        *)
(* earnings that nobody else claims, to pay them all or to give all back.   *)

CONSTANTS Earnings, Payouts, None

VARIABLES
  money,   \* where the money of each earning is
  claim,   \* the payout that claims each earning
  phase    \* where each payout stands

vars == <<money, claim, phase>>

Places == {"nowhere", "pending", "available", "locked", "paid", "reversed"}

TypeOK ==
  /\ money \in [Earnings -> Places]
  /\ claim \in [Earnings -> Payouts \cup {None}]
  /\ phase \in [Payouts -> {"absent", "open", "paid", "void"}]

Init ==
  /\ money = [e \in Earnings |-> "nowhere"]
  /\ claim = [e \in Earnings |-> None]
  /\ phase = [p \in Payouts |-> "absent"]

(* One earning moves on by itself, unclaimed. *)
Moves == {<<"nowhere", "pending">>, <<"pending", "available">>,
          <<"pending", "reversed">>, <<"available", "reversed">>}

Move(e) ==
  \E m \in Moves :
    /\ money[e] = m[1]
    /\ money' = [money EXCEPT ![e] = m[2]]
    /\ UNCHANGED <<claim, phase>>

Claim(p, S) ==
  /\ phase[p] = "absent" /\ S # {}
  /\ \A e \in S : money[e] = "available" /\ claim[e] = None
  /\ phase' = [phase EXCEPT ![p] = "open"]
  /\ money' = [e \in Earnings |-> IF e \in S THEN "locked" ELSE money[e]]
  /\ claim' = [e \in Earnings |-> IF e \in S THEN p ELSE claim[e]]

Pay(p) ==
  /\ phase[p] = "open"
  /\ phase' = [phase EXCEPT ![p] = "paid"]
  /\ money' = [e \in Earnings |-> IF claim[e] = p THEN "paid" ELSE money[e]]
  /\ UNCHANGED claim

GiveBack(p) ==
  /\ phase[p] = "open"
  /\ phase' = [phase EXCEPT ![p] = "void"]
  /\ money' = [e \in Earnings |-> IF claim[e] = p THEN "available" ELSE money[e]]
  /\ claim' = [e \in Earnings |-> IF claim[e] = p THEN None ELSE claim[e]]

Next ==
  \/ \E e \in Earnings : Move(e)
  \/ \E p \in Payouts : Pay(p) \/ GiveBack(p) \/ \E S \in SUBSET Earnings : Claim(p, S)

Spec == Init /\ [][Next]_vars

===============================================================================
