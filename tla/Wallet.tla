------------------------------- MODULE Wallet -------------------------------
(* What the balance promises about the money of each order, seen from      *)
(* outside: it is frozen once, then either given back, or spent and        *)
(* refunded at most once and at most in full.  Commerce implements this.   *)
EXTENDS Integers

CONSTANTS Orders, \* order identities
          Limit   \* moneyLimit: the most a wallet may hold

VARIABLES available, \* wallet_accounts.available
          held,      \* wallet_accounts.held
          phase,     \* where the money of each order is
          amount     \* what is frozen or spent for each order

walletVars == <<available, held, phase, amount>>

WalletTypeOK == /\ available \in 0..Limit
                /\ held \in 0..Limit
                /\ phase \in [Orders -> {"open", "held", "spent", "closed"}]
                /\ amount \in [Orders -> 0..Limit]

WalletInit == /\ available = 0
              /\ held = 0
              /\ phase = [o \in Orders |-> "open"]
              /\ amount = [o \in Orders |-> 0]

(* Every movement stays within the limits postMoney puts on a wallet.      *)
Move(da, dh) == /\ available' = available + da
                /\ held' = held + dh
                /\ available' \in 0..Limit
                /\ held' \in 0..Limit
                /\ available' + held' <= Limit

(* A manual adjustment or a redeemed code.                                 *)
Adjust(d) == Move(d, 0) /\ UNCHANGED <<phase, amount>>

(* An order that never touched the wallet is closed.                       *)
Drop(o) == /\ phase[o] = "open"
           /\ phase' = [phase EXCEPT ![o] = "closed"]
           /\ UNCHANGED <<available, held, amount>>

Freeze(o, a) == /\ phase[o] = "open"
                /\ Move(-a, a)
                /\ phase' = [phase EXCEPT ![o] = "held"]
                /\ amount' = [amount EXCEPT ![o] = a]

Unfreeze(o) == /\ phase[o] = "held"
               /\ Move(amount[o], -amount[o])
               /\ phase' = [phase EXCEPT ![o] = "closed"]
               /\ amount' = [amount EXCEPT ![o] = 0]

Spend(o) == /\ phase[o] = "held"
            /\ Move(0, -amount[o])
            /\ phase' = [phase EXCEPT ![o] = "spent"]
            /\ UNCHANGED amount

GiveBack(o, r) == /\ phase[o] = "spent"
                  /\ r \in 0..amount[o]
                  /\ Move(r, 0)
                  /\ phase' = [phase EXCEPT ![o] = "closed"]
                  /\ amount' = [amount EXCEPT ![o] = 0]

WalletNext == \/ \E d \in -Limit..Limit : Adjust(d)
              \/ \E o \in Orders : \/ Drop(o)
                                   \/ \E a \in 0..Limit : Freeze(o, a)
                                   \/ Unfreeze(o)
                                   \/ Spend(o)
                                   \/ \E r \in 0..Limit : GiveBack(o, r)

WalletSpec == WalletInit /\ [][WalletNext]_walletVars
=============================================================================
