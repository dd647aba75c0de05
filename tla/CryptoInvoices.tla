--------------------------- MODULE CryptoInvoices ---------------------------
(* An order paid in tokens.  Each choice of an asset gives the order an     *)
(* invoice with an address of its own; a worker reads the chain in ranges   *)
(* of blocks, outside any lock, and a transaction then books what it saw:   *)
(* transfers in final blocks are credits, the others only observations.     *)
(* Blocks that are not final can be replaced at any time; when a final one  *)
(* is, the network is frozen.  A block's time is its number, the clock is   *)
(* the newest block.  A transfer of another asset is one that is not "own"; *)
(* other networks are scanned in the same way with a cursor of their own,   *)
(* and are left out.                                                        *)
EXTENDS Integers, Sequences, FiniteSets, Functions

CONSTANTS TokenPrice,     \* ExpectedAtoms of every invoice
          MaxInvoices,    \* invoices of an order (12 in the code)
          InvoiceWindow,  \* InvoiceMinutes, in blocks
          ScanRange,      \* blocks of one scan (500 in the code)
          ScanSlots,      \* scans at the same time (3 in the code)
          LastBlock,      \* bound on the chain
          MaxTransfers,   \* bound on transfers in the chain
          MaxForks,       \* bound on replacements of blocks
          FinalityBreaks  \* whether final blocks can be replaced

ASSUME InvoicesAssumption ==
  /\ {TokenPrice, MaxInvoices, InvoiceWindow, ScanRange, ScanSlots} \subseteq Nat \ {0}
  /\ LastBlock \in Nat \ {0} /\ {MaxTransfers, MaxForks} \subseteq Nat
  /\ FinalityBreaks \in BOOLEAN

VARIABLES chain,     \* the blocks, as the RPC providers show them
          finalHead, \* the newest final block
          forks,     \* replacements of blocks so far
          broken,    \* a final block was replaced
          bill,      \* the order's payment, and its kind of network
          invoices,  \* its invoices; the place is the address index
          credits,   \* crypto_transfers
          seen,      \* crypto_transfer_observations
          frozen,    \* crypto_chain_state
          scans      \* what the scan of each invoice has read

InvoicesVars == <<chain, finalHead, forks, broken, bill, invoices, credits,
                  seen, frozen, scans>>
-----------------------------------------------------------------------------
InvoiceAddresses == 1..MaxInvoices
Blocks == 0..LastBlock + ScanRange
(* id tells apart two transfers alike (a transaction's hash and log index). *)
Transfers == {t \in [id : 1..MaxTransfers, to : InvoiceAddresses,
                     own : BOOLEAN, atoms : 1..TokenPrice] :
                ~t.own => t.atoms = 1}
Atoms(xs) == SumFunctionOnSet([t \in Transfers |-> t.atoms],
                              {x.transfer : x \in xs})
Nothing == <<>>

(* Items of a scan: a transfer, its block and whether it is final.         *)
Items == [transfer : Transfers, block : Blocks, fork : Nat, final : BOOLEAN]
Scans == [from : Blocks, to : Blocks, next : Blocks, hash : Nat,
          head : Blocks, items : SUBSET Items]

(* The type invariant of CryptoInvoices; a cursor points at the block      *)
(* after the last final one read, or before it.                            *)
InvoicesTypeOK ==
  /\ chain \in Seq([fork : Nat, transfer : Transfers \union {Nothing}])
  /\ finalHead \in 0..Len(chain) /\ forks \in Nat
  /\ {broken, frozen} \subseteq BOOLEAN
  /\ bill \in [state : {"pending", "completed", "cancelled", "expired"},
               linked : InvoiceAddresses \union {0}, expires : Nat,
               network : {"evm", "solana"}]
  /\ invoices \in Seq([state : {"waiting", "superseded", "paid", "expired",
                                "review_required"},
                       attempt : {"awaiting_customer", "paid", "cancelled",
                                  "expired", "refund_required"},
                       created : Blocks, expires : Nat,
                       next : Blocks, hash : Nat \union {-1}])
  /\ \A i \in DOMAIN invoices : invoices[i].next <= finalHead + 1
  /\ \A c \in credits : c.state \in {"confirmed", "review_required"}
  /\ scans \in [InvoiceAddresses -> Scans \union {Nothing}]

InvoicesInit ==
  /\ chain = <<[fork |-> 0, transfer |-> Nothing]>>
  /\ finalHead = 1 /\ forks = 0 /\ broken = FALSE
  /\ \E n \in {"evm", "solana"} :
       bill = [state |-> "pending", linked |-> 0, expires |-> 0, network |-> n]
  /\ invoices = <<>> /\ credits = {} /\ seen = {} /\ frozen = FALSE
  /\ scans = [i \in InvoiceAddresses |-> Nothing]

Now == Len(chain)
Smaller(a, b) == IF a < b THEN a ELSE b
Database == <<bill, invoices, credits, seen, frozen>>
-----------------------------------------------------------------------------
(* The chain.  Replaced blocks lose their transfers, which may come again. *)
OnChain == {b \in 1..Now : chain[b].transfer # Nothing}

Mine(t) ==
  /\ Now < LastBlock
  /\ t # Nothing =>
       /\ t.to <= Len(invoices)
       /\ Cardinality(OnChain) < MaxTransfers
       /\ \A b \in OnChain : chain[b].transfer # t
  /\ chain' = Append(chain, [fork |-> forks, transfer |-> t])
  /\ UNCHANGED <<finalHead, forks, broken, scans, Database>>

Finalise(b) ==
  /\ b \in finalHead + 1..Now
  /\ finalHead' = b
  /\ UNCHANGED <<chain, forks, broken, scans, Database>>

Empty(b) == [fork |-> forks + 1, transfer |-> Nothing]

Replace(cut) ==
  /\ forks < MaxForks /\ cut \in 1..Now - 1
  /\ cut < finalHead => FinalityBreaks
  /\ forks' = forks + 1
  /\ broken' = (broken \/ cut < finalHead)
  /\ chain' = [b \in 1..Now |-> IF b <= cut THEN chain[b] ELSE Empty(b)]
  /\ UNCHANGED <<finalHead, scans, Database>>
-----------------------------------------------------------------------------
(* The customer chooses an asset: the first choice opens the window, a     *)
(* later one replaces the invoice unless money was seen at any of them.    *)
Supersede(vs, i) ==
  IF i = 0 THEN vs
  ELSE [vs EXCEPT ![i].state = IF @ = "waiting" THEN "superseded" ELSE @,
                  ![i].attempt = "cancelled"]

NewInvoice(expires) ==
  [state |-> "waiting", attempt |-> "awaiting_customer", created |-> Now,
   expires |-> expires, next |-> finalHead, hash |-> -1]

CreateInvoice ==
  /\ ~frozen /\ bill.state = "pending" /\ Len(invoices) < MaxInvoices
  /\ bill.linked # 0 =>
       /\ Now < bill.expires
       /\ credits = {} /\ seen = {}
       /\ invoices[bill.linked].attempt = "awaiting_customer"
  /\ LET expires == IF bill.linked = 0 THEN Now + InvoiceWindow
                    ELSE bill.expires
     IN /\ invoices' = Append(Supersede(invoices, bill.linked),
                              NewInvoice(expires))
        /\ bill' = [bill EXCEPT !.linked = Len(invoices) + 1,
                                !.expires = expires]
  /\ UNCHANGED <<chain, finalHead, forks, broken, credits, seen, frozen, scans>>

(* The customer cancels: a paid attempt is to be refunded.                 *)
CancelOrder ==
  /\ bill.state = "pending"
  /\ bill' = [bill EXCEPT !.state = "cancelled"]
  /\ invoices' = IF bill.linked = 0 THEN invoices
       ELSE [invoices EXCEPT ![bill.linked].attempt =
               IF @ = "paid" THEN "refund_required" ELSE "cancelled"]
  /\ UNCHANGED <<chain, finalHead, forks, broken, credits, seen, frozen, scans>>

(* The payments worker applies the receipt of a paid invoice.              *)
ApplyReceipt ==
  /\ ~frozen /\ bill.state = "pending" /\ bill.linked # 0
  /\ invoices[bill.linked].attempt = "paid"
  /\ bill' = [bill EXCEPT !.state = "completed"]
  /\ UNCHANGED <<chain, finalHead, forks, broken, invoices, credits, seen,
                 frozen, scans>>
-----------------------------------------------------------------------------
(* A scan reads a range of blocks, or on Solana everything that is final.  *)
(* When the block before the cursor is not the one it was, final history   *)
(* has changed and the network is frozen.                                  *)
ScanEnd(i) == Smaller(invoices[i].next + ScanRange - 1, Now)
SolanaScanEnd(i) == finalHead

(* Mutant: blocks that are not final are passed over for good.             *)
FinalEndAny(to) == to
FinalEnd(to) == Smaller(to, finalHead)

Reading(i, to) ==
  LET from == invoices[i].next
      finalTo == FinalEnd(to)
  IN [from |-> from, to |-> to, head |-> finalHead,
      next |-> IF from <= finalTo THEN finalTo + 1 ELSE from,
      hash |-> IF from <= finalTo THEN chain[finalTo].fork
               ELSE invoices[i].hash,
      items |-> {[transfer |-> chain[b].transfer, block |-> b,
                  fork |-> chain[b].fork, final |-> b <= finalHead] :
                 b \in {b \in OnChain \cap (from..to) : chain[b].transfer.to = i}}]

HistoryHolds(i) ==
  invoices[i].hash # -1 => chain[invoices[i].next - 1].fork = invoices[i].hash

ReadChain(i) ==
  /\ i <= Len(invoices) /\ scans[i] = Nothing /\ ~frozen
  /\ Cardinality({j \in InvoiceAddresses : scans[j] # Nothing}) < ScanSlots
  /\ IF HistoryHolds(i)
     THEN LET to == IF bill.network = "evm" THEN ScanEnd(i)
                    ELSE SolanaScanEnd(i)
          IN /\ invoices[i].next <= to
             /\ scans' = [scans EXCEPT ![i] = Reading(i, to)]
             /\ UNCHANGED frozen
     ELSE frozen' = TRUE /\ UNCHANGED scans
  /\ UNCHANGED <<chain, finalHead, forks, broken, bill, invoices, credits, seen>>

(* A scan that fails or times out, or dies with the process.               *)
AbandonScan(i) ==
  /\ scans[i] # Nothing
  /\ scans' = [scans EXCEPT ![i] = Nothing]
  /\ UNCHANGED <<chain, finalHead, forks, broken, Database>>

(* What a final transfer counts for.                                       *)
CreditState(v, x) ==
  IF x.transfer.own /\ x.block < v.expires /\ x.block >= v.created
  THEN "confirmed" ELSE "review_required"

Same(x, y) == x.transfer = y.transfer
Credit(v, x) == [transfer |-> x.transfer, block |-> x.block, fork |-> x.fork,
                 state |-> CreditState(v, x)]
Credits(i, r) ==
  LET final == {x \in r.items : x.final}
  IN {c \in credits : \A x \in final : ~Same(c, x)}
       \union {Credit(invoices[i], x) : x \in final}

Observed(i, r) ==
  LET final == {x \in r.items : x.final}
      Settled(x) == \E c \in credits : Same(c, x)
      kept == {x \in seen : \/ x.transfer.to # i
                            \/ x.block \notin r.from..r.to}
  IN {x \in kept \union {y \in r.items : ~y.final /\ ~Settled(y)} :
        \A y \in final : ~Same(x, y)}

(* A final transfer that was credited before with another block.           *)
Contradicts(r) ==
  \E x \in r.items, c \in credits :
    x.final /\ Same(x, c) /\ <<x.block, x.fork>> # <<c.block, c.fork>>

(* A mutant of Confirmed.                                                 *)
ConfirmedUnfinal(i, cs) ==
  Atoms({c \in cs \union seen : c.transfer.to = i /\ c.transfer.own
                                /\ c.block < invoices[i].expires})

(* cryptoInvoiceAmounts: what is confirmed, and whether anything came.     *)
Confirmed(i, cs) ==
  Atoms({c \in cs : /\ c.transfer.to = i /\ c.transfer.own
                    /\ c.state = "confirmed"
                    /\ c.block < invoices[i].expires})

(* A mutant of Received.                                                  *)
ReceivedConfirmed(i, cs, os) == Confirmed(i, cs) >= TokenPrice

Received(i, cs, os) ==
  \E x \in cs \union os : x.transfer.to = i /\ x.transfer.own

(* Every block of the window is final and was read.                        *)
DeadlineFinal(i, r) == r.next > r.head /\ r.head > invoices[i].expires

(* settleCryptoInvoice, on the booked credits and observations.            *)
Settle(i, r, cs, os) ==
  LET v == invoices[i]
      enough == Confirmed(i, cs) >= TokenPrice
      current == bill.state = "pending" /\ bill.linked = i
      open == v.state \in {"waiting", "review_required"}
      pays == enough /\ open /\ current /\ v.attempt = "awaiting_customer"
      review == \E c \in cs : /\ c.transfer.to = i
                              /\ c.state = "review_required"
      stray == /\ v.state # "paid" /\ Received(i, cs, os)
               /\ ~current \/ v.state \in {"superseded", "expired"}
      ends == DeadlineFinal(i, r) /\ open /\ ~enough /\ current
      state == IF pays THEN "paid"
               ELSE IF ends
               THEN IF Confirmed(i, cs) > 0 \/ review
                    THEN "review_required" ELSE "expired"
               ELSE IF v.state # "paid" /\ (stray \/ review)
               THEN "review_required" ELSE v.state
      attempt == IF pays THEN "paid"
                 ELSE IF ends /\ v.attempt = "awaiting_customer"
                 THEN "expired" ELSE v.attempt
  IN /\ invoices' = [invoices EXCEPT
           ![i] = [v EXCEPT !.state = state, !.attempt = attempt,
                            !.next = r.next, !.hash = r.hash]]
     /\ bill' = IF ends /\ ~pays THEN [bill EXCEPT !.state = "expired"]
                ELSE bill

(* applyCryptoScan: one transaction under the network's and the order's    *)
(* locks.  A scan that another has overtaken changes nothing.              *)
BookScan(i) ==
  /\ scans[i] # Nothing
  /\ LET r == scans[i]
     IN IF frozen \/ invoices[i].next # r.from
        THEN UNCHANGED Database
        ELSE IF Contradicts(r)
        THEN frozen' = TRUE /\ UNCHANGED <<bill, invoices, credits, seen>>
        ELSE /\ credits' = Credits(i, r) /\ seen' = Observed(i, r)
             /\ Settle(i, r, credits', seen')
             /\ UNCHANGED frozen
  /\ scans' = [scans EXCEPT ![i] = Nothing]
  /\ UNCHANGED <<chain, finalHead, forks, broken>>

InvoicesNext ==
  \/ \E t \in Transfers \union {Nothing} : Mine(t)
  \/ \E b \in 1..LastBlock : Finalise(b) \/ Replace(b)
  \/ CreateInvoice \/ CancelOrder \/ ApplyReceipt
  \/ \E i \in InvoiceAddresses : ReadChain(i) \/ AbandonScan(i) \/ BookScan(i)

InvoicesSpec == InvoicesInit /\ [][InvoicesNext]_InvoicesVars
-----------------------------------------------------------------------------
(* What the final chain pays an invoice in time, whatever was booked.      *)
PaidOnChain(i) ==
  Atoms({chain[b] : b \in {b \in OnChain :
     /\ b <= finalHead /\ chain[b].transfer.to = i /\ chain[b].transfer.own
     /\ b >= invoices[i].created /\ b < invoices[i].expires}})

(* While final blocks stay final, what the scanner decides is what the     *)
(* chain says: a paid invoice was paid in full and in time by final        *)
(* transfers, and an order the scanner lets expire was not, however scans, *)
(* replaced blocks and late discovery interleave.                          *)
DecidedByTheChain ==
  \A i \in 1..Len(invoices) :
    ~broken =>
      /\ invoices[i].state = "paid" => PaidOnChain(i) >= TokenPrice
      /\ i = bill.linked /\ bill.state = "expired" => PaidOnChain(i) < TokenPrice

(* A scan that moves an invoice's cursor leaves no money unattended: what  *)
(* was credited to an invoice that was not paid, of an order that is over  *)
(* or has gone to another invoice, waits for review.                       *)
StrayMoneyIsReviewed ==
  [][\A i \in 1..Len(invoices) :
       (/\ invoices'[i].next > invoices[i].next
        /\ \E c \in credits' : c.transfer.to = i
        /\ invoices'[i].state # "paid"
        /\ bill'.state # "pending" \/ bill'.linked # i)
       => invoices'[i].state = "review_required"]_InvoicesVars
=============================================================================
