----------------------------- MODULE MCCommerce -----------------------------
(* Small instances of Commerce.                                            *)
EXTENDS Commerce, TLC

CONSTANTS A, B,      \* plans
          gift, code, debit \* credits: a gift, a code, an adjustment downwards

TwoPlans == {A, B}

(* A lasts two days and costs one; B lasts one day and costs two.          *)
Priced == (A :> 1) @@ (B :> 2)
(* No plan costs anything: for the runs about periods and places.          *)
Free == (A :> 0) @@ (B :> 0)
Finite == (A :> 2) @@ (B :> 1)

NoCredit == {}
NoValue == <<>>
(* The code pays for both plans; the gift for one.                         *)
OneCode == {code}
CodeValue == code :> 3
OneGift == {gift}
GiftValue == gift :> 1
(* What pays for any plan, what fills a wallet of three, what makes room.  *)
ThreeCredits == {code, gift, debit}
ThreeValues == (code :> 3) @@ (gift :> 1) @@ (debit :> -1)

OrderSymmetry == Permutations(Orders)
=============================================================================
