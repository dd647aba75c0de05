------------------------------ MODULE CryptoRates ------------------------------
(* The price of one token: looked up at two sources, set by the owner or   *)
(* by the one-click setup, and used by the invoices.  Each of the four     *)
(* reads the settings, works outside any lock and commits only if the      *)
(* revision is the one it read.  A moment is 150 seconds; prices are whole *)
(* numbers of a unit finer than the Step a stored rate is rounded to.      *)
(* Networks, RPCs, the wallet and the replay of an operation are left out, *)
(* and so is the pause between two lookups.                                *)
EXTENDS Integers, FiniteSets

CONSTANTS Prices, OwnerPrices, Step, \* of the market, the owner; cryptoRateDecimal
          Ages,                      \* of an answer a source has kept
          LowestPrice, HighestPrice, \* cryptoRateBound
          OrderCost, Units,          \* of an order; atoms of the smallest payment
          LastMoment, MaxRevisions,  \* bounds
          MaxWorking                 \* bound: requests at once

ASSUME CryptoRatesAssumption ==
  /\ {Step, LowestPrice, HighestPrice, OrderCost, Units, LastMoment, MaxRevisions,
      MaxWorking} \subseteq Nat \ {0}
  /\ Prices \union OwnerPrices \subseteq Nat /\ Ages \subseteq 0 .. 3 /\ Step <= LowestPrice
  /\ \A p \in OwnerPrices : p >= Step    \* cryptoQuote refuses a rate of zero

VARIABLES moment,       \* the clock
          paySettings,  \* crypto_payment_settings
          work,         \* what each kind of request has read and made
          alarm,        \* the moment and revision of the last unsafe lookup
          invoiced      \* the invoice the last step has made

RatesVars == <<moment, paySettings, work, alarm, invoiced>>
-----------------------------------------------------------------------------
Kinds == {"refresh", "edit", "setup", "invoice"}
Moments == 0 .. LastMoment + 4
Rates == [stored : Nat, low : Nat, expires : Moments, since : 0 .. MaxRevisions]
NoRate == [stored |-> 0, low |-> 0, expires |-> 0, since |-> 0]
Settings == [revision : 0 .. MaxRevisions, enabled : BOOLEAN, automatic : BOOLEAN, rate : Rates]
Idling == [does |-> FALSE, settings |-> [revision |-> 0, enabled |-> FALSE,
           automatic |-> FALSE, rate |-> NoRate], unsafe |-> FALSE]
NotInvoiced == [rate |-> NoRate, atoms |-> 0, at |-> 0, alarm |-> 0, automatic |-> FALSE]

(* The type invariant of CryptoRates.                                      *)
CryptoRatesTypeOK ==
  /\ moment \in 0 .. LastMoment /\ paySettings \in Settings
  /\ work \in [Kinds -> [does : BOOLEAN, settings : Settings, unsafe : BOOLEAN]]
  /\ alarm \in 0 .. MaxRevisions
  /\ invoiced \in [rate : Rates, atoms : Nat, at : 0 .. LastMoment,
                   alarm : 0 .. MaxRevisions, automatic : BOOLEAN]

CryptoRatesInit ==
  /\ moment = 0 /\ paySettings = Idling.settings /\ work = [k \in Kinds |-> Idling]
  /\ alarm = 0 /\ invoiced = NotInvoiced
-----------------------------------------------------------------------------
(* A lookup: the answer of each source, and what the two make together.    *)
Sooner(a, b) == IF a < b THEN a ELSE b
Down == [price |-> 0, life |-> 0]
RoundedDown(p) == (p \div Step) * Step
Safe(a) == a = Down \/ a.price \in LowestPrice .. HighestPrice
CoinGecko == {[price |-> p, life |-> Sooner(4, 6 - age)] : p \in Prices, age \in Ages}
             \union {Down}
Coinbase == {[price |-> p, life |-> 2 - age] : p \in Prices, age \in Ages \intersect {0, 1}} \union {Down}
Apart(a, b) == \/ RoundedDown(a) * 100 > RoundedDown(b) * 102
               \/ RoundedDown(b) * 100 > RoundedDown(a) * 102

Unsafe(x, y) == \/ ~Safe(x) \/ ~Safe(y)
                \/ x # Down /\ y # Down /\ Apart(x.price, y.price)
MarketRate(x, y) ==
  LET low  == IF x = Down THEN y.price ELSE IF y = Down THEN x.price ELSE Sooner(x.price, y.price)
      life == IF x = Down THEN y.life ELSE IF y = Down THEN x.life ELSE Sooner(x.life, y.life)
  IN  [stored |-> RoundedDown(low), low |-> low, expires |-> moment + life,
       since |-> paySettings.revision]

(* ceil(cost * units / rate), in the smallest payable unit.                *)
AtomsOf(rate) == (OrderCost * Units + rate.stored - 1) \div rate.stored
-----------------------------------------------------------------------------
NoInvoice == invoiced' = NotInvoiced
Begins(k, settings, unsafe) ==
  /\ ~work[k].does /\ Cardinality({j \in Kinds : work[j].does}) < MaxWorking
  /\ work' = [work EXCEPT ![k] = [does |-> TRUE, settings |-> settings, unsafe |-> unsafe]]
  /\ NoInvoice /\ UNCHANGED <<moment, paySettings, alarm>>

(* Mutant: the revision is not compared again in the transaction.          *)
UnmovedUnseen(k) == TRUE
Unmoved(k) == work[k].settings.revision = paySettings.revision

Ends(k) == work[k].does /\ work' = [work EXCEPT ![k] = Idling] /\ UNCHANGED moment
Writes(k) ==
  /\ paySettings.revision < MaxRevisions
  /\ paySettings' = [work[k].settings EXCEPT !.revision = paySettings.revision + 1]
Drops(k) == Ends(k) /\ NoInvoice /\ UNCHANGED <<paySettings, alarm>>

(* The scanner's tick and every request for an invoice.  Unsafe prices end *)
(* the rate at once; a failed lookup leaves it to expire.                  *)
RefreshReads ==
  /\ paySettings.automatic /\ paySettings.enabled /\ paySettings.rate.expires <= moment + 1
  /\ \E x \in CoinGecko, y \in Coinbase :
       LET rate == IF Unsafe(x, y)
                   THEN [paySettings.rate EXCEPT !.expires = Sooner(@, moment)]
                   ELSE IF x = Down /\ y = Down THEN paySettings.rate ELSE MarketRate(x, y)
       IN  Begins("refresh", [paySettings EXCEPT !.rate = rate], Unsafe(x, y))

Refreshes ==
  /\ Unmoved("refresh") /\ Ends("refresh") /\ Writes("refresh")
  /\ alarm' = IF work["refresh"].unsafe THEN paySettings'.revision ELSE alarm
  /\ NoInvoice

(* The owner's form.  The rates of automatic settings are copied from the  *)
(* ones read; automatic mode is entered through the setup only.            *)
EditReads ==
  \E enabled, automatic \in BOOLEAN, p \in OwnerPrices, life \in {0, 3} :
    LET rate == IF automatic THEN paySettings.rate
                ELSE [stored |-> RoundedDown(p), low |-> RoundedDown(p),
                      expires |-> moment + life, since |-> paySettings.revision]
    IN  /\ automatic => paySettings.automatic
        /\ enabled => rate.expires > moment
        /\ Begins("edit", [revision |-> paySettings.revision, enabled |-> enabled,
                           automatic |-> automatic, rate |-> rate], FALSE)

Edits == /\ Unmoved("edit") /\ Ends("edit") /\ Writes("edit") /\ NoInvoice /\ UNCHANGED alarm

SetupReads ==
  \E x \in CoinGecko, y \in Coinbase :
    /\ ~Unsafe(x, y) /\ <<x, y>> # <<Down, Down>>
    /\ Begins("setup", [revision |-> paySettings.revision, enabled |-> TRUE,
                        automatic |-> TRUE, rate |-> MarketRate(x, y)], FALSE)

SetsUp == /\ Unmoved("setup") /\ work["setup"].settings.rate.expires > moment
          /\ Ends("setup") /\ Writes("setup") /\ NoInvoice /\ UNCHANGED alarm

InvoiceReads == /\ paySettings.enabled /\ paySettings.rate.expires > moment
                /\ Begins("invoice", paySettings, FALSE)

Invoices ==
  LET s == work["invoice"].settings
  IN  /\ Unmoved("invoice") /\ s.rate.expires > moment /\ Ends("invoice")
      /\ invoiced' = [rate |-> s.rate, atoms |-> AtomsOf(s.rate), at |-> moment,
                      alarm |-> alarm, automatic |-> s.automatic]
      /\ UNCHANGED <<paySettings, alarm>>

(* A request that finds the settings moved, or its price expired, or whose *)
(* client has gone, changes nothing.                                       *)
GivesUp == \E k \in Kinds : Drops(k)

MomentPasses == /\ moment < LastMoment /\ moment' = moment + 1
                /\ NoInvoice /\ UNCHANGED <<paySettings, work, alarm>>

CryptoRatesNext == \/ RefreshReads \/ Refreshes \/ EditReads \/ Edits \/ SetupReads \/ SetsUp
                   \/ InvoiceReads \/ Invoices \/ GivesUp \/ MomentPasses

CryptoRatesSpec == CryptoRatesInit /\ [][CryptoRatesNext]_RatesVars
-----------------------------------------------------------------------------
(* No invoice asks for less than the order costs at the lower of the       *)
(* sources' prices; its price has not expired; and once a lookup has found *)
(* the market unsafe, no invoice uses an automatic price made before, not  *)
(* even one an edit, a setup or another lookup was about to save.          *)
InvoicesArePricedSafely ==
  invoiced # NotInvoiced =>
    /\ invoiced.atoms * invoiced.rate.low >= OrderCost * Units
    /\ invoiced.rate.expires > invoiced.at
    /\ invoiced.automatic => invoiced.rate.since >= invoiced.alarm
=============================================================================
