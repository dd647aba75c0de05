---------------------------- MODULE CryptoProofs ----------------------------
(* Proofs about CryptoRates, for all prices, costs, ages and bounds; about *)
(* CryptoWallets: an index goes to one customer, for any panels, any       *)
(* number of wallets and addresses, on one network family or both; and     *)
(* about CryptoSweeps: the tables agree and what is signed can be executed, *)
(* for any addresses, workers, jobs and gas.                               *)
EXTENDS CryptoRates, CryptoWallets, CryptoSweeps, Sums, SequenceTheorems
-----------------------------------------------------------------------------
(* Prices, their stop after an alarm, and what is quoted.                  *)

(* A rate that has ever been valid was rounded down from its price, and    *)
(* not to nothing.                                                         *)
WellPriced(s) ==
  s.rate.expires > 0 => s.rate.stored > 0 /\ s.rate.stored <= s.rate.low

(* An automatic price that still holds is newer than the last alarm.       *)
Recent(s) == s.automatic /\ s.rate.expires > moment => s.rate.since >= alarm

(* What a request has read and made: nobody is ahead of the settings, an   *)
(* unsafe lookup has ended its price, and only who has missed a change     *)
(* can hold a price the alarm has overtaken.                               *)
WorkSound(k) ==
  work[k].does =>
    /\ work[k].settings.revision <= paySettings.revision
    /\ WellPriced(work[k].settings)
    /\ work[k].unsafe => work[k].settings.rate.expires <= moment
    /\ Unmoved(k) => Recent(work[k].settings)

RatesInv ==
  /\ CryptoRatesTypeOK
  /\ alarm <= paySettings.revision
  /\ WellPriced(paySettings) /\ Recent(paySettings)
  /\ \A k \in Kinds : WorkSound(k)
  /\ InvoicesArePricedSafely
-----------------------------------------------------------------------------
(* Arithmetic of the rounding.                                             *)
LEMMA QuotientBounds ==
  ASSUME NEW x \in Nat, NEW s \in Nat \ {0}
  PROVE  /\ x \div s \in Nat
         /\ (x \div s) * s <= x
         /\ x < (x \div s) * s + s
<1>1. /\ x \div s \in Int /\ x % s \in 0 .. s - 1
      /\ x = s * (x \div s) + (x % s)
  BY SMT
<1>2. x \div s \in Nat
  BY SMT
<1> QED
  BY <1>1, <1>2, SMT

LEMMA ProductGrows ==
  ASSUME NEW q \in Nat, NEW s \in Nat, NEW t \in Nat, s <= t
  PROVE  q * s <= q * t
BY SMT

LEMMA Constants ==
  /\ Step \in Nat \ {0} /\ LowestPrice \in Nat /\ HighestPrice \in Nat
  /\ OrderCost \in Nat /\ Units \in Nat /\ OrderCost * Units \in Nat
  /\ LastMoment \in Nat /\ MaxRevisions \in Nat /\ Step <= LowestPrice
  /\ Ages \subseteq 0 .. 3
<1>1. /\ Step \in Nat \ {0} /\ LowestPrice \in Nat /\ HighestPrice \in Nat
      /\ OrderCost \in Nat /\ Units \in Nat
      /\ LastMoment \in Nat /\ MaxRevisions \in Nat /\ Step <= LowestPrice
      /\ Ages \subseteq 0 .. 3
  BY CryptoRatesAssumption
<1>2. OrderCost * Units \in Nat
  BY <1>1, SMT
<1> QED
  BY <1>1, <1>2

(* A stored price is at most the real one, and not zero from Step upwards. *)
LEMMA RoundingDown ==
  ASSUME NEW p \in Nat
  PROVE  /\ RoundedDown(p) \in Nat /\ RoundedDown(p) <= p
         /\ p >= Step => RoundedDown(p) > 0
<1> DEFINE q == p \div Step
<1>1. q \in Nat /\ q * Step <= p /\ p < q * Step + Step
  BY QuotientBounds, Constants
<1>2. Step \in Nat \ {0}
  BY Constants
<1>3. RoundedDown(p) = q * Step
  BY DEF RoundedDown
<1> HIDE DEF q
<1>4. q * Step \in Nat
  BY <1>1, <1>2, SMT
<1>5. p >= Step => q * Step > 0
  BY <1>1, <1>2, <1>4
<1> QED
  BY <1>1, <1>3, <1>4, <1>5

(* The invoice asks for the order's cost at the stored price, rounded up,  *)
(* and so for no less at any higher price.                                 *)
LEMMA RoundingUp ==
  ASSUME NEW r, r.stored \in Nat \ {0}, r.low \in Nat, r.stored <= r.low
  PROVE  /\ AtomsOf(r) \in Nat
         /\ AtomsOf(r) * r.low >= OrderCost * Units
<1> DEFINE c == OrderCost * Units
           s == r.stored
           q == (c + s - 1) \div s
<1>1. c \in Nat /\ s \in Nat \ {0} /\ r.low \in Nat /\ s <= r.low
  BY Constants
<1>2. AtomsOf(r) = q
  BY DEF AtomsOf
<1>3. q \in Nat /\ c + s - 1 < q * s + s
  <2> HIDE DEF c, s
  <2>1. c + s - 1 \in Nat
    BY <1>1
  <2> QED
    BY <2>1, <1>1, QuotientBounds
<1> HIDE DEF c, s, q
<1>4. q * s \in Nat
  BY <1>1, <1>3, SMT
<1>5. c <= q * s
  BY <1>1, <1>3, <1>4
<1>6. q * s <= q * r.low
  BY <1>1, <1>3, ProductGrows
<1>7. q * r.low \in Nat
  BY <1>1, <1>3, SMT
<1>8. q * r.low >= c
  BY <1>1, <1>4, <1>5, <1>6, <1>7
<1> QED
  BY <1>2, <1>3, <1>8 DEF c
-----------------------------------------------------------------------------
(* Records.                                                                *)
LEMMA SettingsRecord ==
  ASSUME NEW s \in Settings
  PROVE  /\ s.revision \in 0 .. MaxRevisions /\ s.enabled \in BOOLEAN
         /\ s.automatic \in BOOLEAN /\ s.rate \in Rates
         /\ s.rate.stored \in Nat /\ s.rate.low \in Nat
         /\ s.rate.expires \in Moments /\ s.rate.since \in 0 .. MaxRevisions
         /\ s.rate.expires \in Int /\ s.revision \in Int
BY Constants DEF Settings, Rates, Moments

LEMMA SettingsRated ==
  ASSUME NEW s \in Settings, NEW r \in Rates
  PROVE  /\ [s EXCEPT !.rate = r] \in Settings
         /\ [s EXCEPT !.rate = r].rate = r
         /\ [s EXCEPT !.rate = r].revision = s.revision
         /\ [s EXCEPT !.rate = r].automatic = s.automatic
BY DEF Settings

LEMMA SettingsRevised ==
  ASSUME NEW s \in Settings, NEW n \in 0 .. MaxRevisions
  PROVE  /\ [s EXCEPT !.revision = n] \in Settings
         /\ [s EXCEPT !.revision = n].rate = s.rate
         /\ [s EXCEPT !.revision = n].revision = n
         /\ [s EXCEPT !.revision = n].automatic = s.automatic
BY DEF Settings

Works == [does : BOOLEAN, settings : Settings, unsafe : BOOLEAN]

LEMMA IdlingTyped == Idling \in Works /\ ~Idling.does
<1>1. Idling.settings \in Settings
  BY Constants DEF Idling, Settings, NoRate, Rates, Moments
<1> QED
  BY <1>1 DEF Idling, Works
-----------------------------------------------------------------------------
(* The market.                                                             *)
LEMMA AnswersTyped ==
  /\ \A x \in CoinGecko : x.price \in Nat /\ x.life \in 0 .. 4
  /\ \A y \in Coinbase : y.price \in Nat /\ y.life \in 0 .. 4
<1>1. Prices \subseteq Nat /\ Ages \subseteq 0 .. 3
  BY CryptoRatesAssumption
<1>2. \A x \in CoinGecko : x.price \in Nat /\ x.life \in 0 .. 4
  <2> TAKE x \in CoinGecko
  <2>1. CASE x = Down
    BY <2>1 DEF Down
  <2>2. CASE x # Down
    <3>1. PICK p \in Prices, age \in Ages : x = [price |-> p, life |-> Sooner(4, 6 - age)]
      BY <2>2 DEF CoinGecko
    <3>2. Sooner(4, 6 - age) \in 0 .. 4
      BY <1>1 DEF Sooner
    <3> QED
      BY <1>1, <3>1, <3>2
  <2> QED
    BY <2>1, <2>2
<1>3. \A y \in Coinbase : y.price \in Nat /\ y.life \in 0 .. 4
  <2> TAKE y \in Coinbase
  <2>1. CASE y = Down
    BY <2>1 DEF Down
  <2>2. CASE y # Down
    <3>1. PICK p \in Prices, age \in Ages \intersect {0, 1} : y = [price |-> p, life |-> 2 - age]
      BY <2>2 DEF Coinbase
    <3> QED
      BY <1>1, <3>1
  <2> QED
    BY <2>1, <2>2
<1> QED
  BY <1>2, <1>3

(* A lookup that is not unsafe makes a rate of the revision it has read,   *)
(* at or below the lower of the two prices, and not zero.                  *)
LEMMA MarketRateSound ==
  ASSUME NEW x \in CoinGecko, NEW y \in Coinbase,
         ~Unsafe(x, y), ~(x = Down /\ y = Down),
         moment \in 0 .. LastMoment, paySettings \in Settings
  PROVE  /\ MarketRate(x, y) \in Rates
         /\ MarketRate(x, y).since = paySettings.revision
         /\ MarketRate(x, y).stored > 0
         /\ MarketRate(x, y).stored <= MarketRate(x, y).low
<1> DEFINE low == IF x = Down THEN y.price ELSE IF y = Down THEN x.price
                  ELSE Sooner(x.price, y.price)
           life == IF x = Down THEN y.life ELSE IF y = Down THEN x.life
                   ELSE Sooner(x.life, y.life)
<1>1. /\ x.price \in Nat /\ x.life \in 0 .. 4 /\ y.price \in Nat /\ y.life \in 0 .. 4
  BY AnswersTyped
<1>2. /\ x = Down \/ x.price >= LowestPrice
      /\ y = Down \/ y.price >= LowestPrice
  BY Constants, <1>1 DEF Unsafe, Safe
<1>3. low \in Nat /\ low >= LowestPrice /\ life \in 0 .. 4
  BY <1>1, <1>2 DEF Sooner
<1>4. MarketRate(x, y) = [stored |-> RoundedDown(low), low |-> low,
                          expires |-> moment + life, since |-> paySettings.revision]
  BY DEF MarketRate
<1> HIDE DEF low, life
<1>5. RoundedDown(low) \in Nat /\ RoundedDown(low) <= low /\ RoundedDown(low) > 0
  BY <1>3, RoundingDown, Constants
<1>6. moment + life \in Moments
  BY <1>3, Constants DEF Moments
<1>7. paySettings.revision \in 0 .. MaxRevisions
  BY SettingsRecord
<1>8. MarketRate(x, y) \in Rates
  BY <1>3, <1>4, <1>5, <1>6, <1>7 DEF Rates
<1> QED
  BY <1>4, <1>5, <1>8
-----------------------------------------------------------------------------
(* What the four kinds of step keep.                                       *)
LEMMA NothingInvoiced ==
  ASSUME NoInvoice
  PROVE  /\ InvoicesArePricedSafely'
         /\ CryptoRatesTypeOK =>
              invoiced' \in [rate : Rates, atoms : Nat, at : 0 .. LastMoment,
                             alarm : 0 .. MaxRevisions, automatic : BOOLEAN]
<1>1. NoRate \in Rates
  BY Constants DEF NoRate, Rates, Moments
<1> QED
  BY <1>1, Constants DEF NoInvoice, InvoicesArePricedSafely, NotInvoiced

LEMMA BeginsKeeps ==
  ASSUME RatesInv, NEW k \in Kinds, NEW s \in Settings, NEW unsafe \in BOOLEAN,
         Begins(k, s, unsafe),
         s.revision = paySettings.revision, WellPriced(s), Recent(s),
         unsafe => s.rate.expires <= moment
  PROVE  RatesInv'
<1>1. /\ CryptoRatesTypeOK /\ work \in [Kinds -> Works]
      /\ \A j \in Kinds : WorkSound(j)
  BY DEF RatesInv, CryptoRatesTypeOK, Works
<1>2. /\ UNCHANGED <<moment, paySettings, alarm>> /\ NoInvoice
      /\ work' = [work EXCEPT ![k] = [does |-> TRUE, settings |-> s, unsafe |-> unsafe]]
  BY DEF Begins
<1>3. InvoicesArePricedSafely'
  BY <1>2, NothingInvoiced
<1>4. work' \in [Kinds -> Works]
  BY <1>1, <1>2 DEF Works
<1>5. CryptoRatesTypeOK'
  BY <1>1, <1>2, <1>4, NothingInvoiced DEF CryptoRatesTypeOK, Works
<1>6. /\ work'[k] = [does |-> TRUE, settings |-> s, unsafe |-> unsafe]
      /\ \A j \in Kinds : j # k => work'[j] = work[j]
  BY <1>1, <1>2
<1>7. WorkSound(k)'
  <2>1. work'[k].settings = s /\ work'[k].unsafe = unsafe
    BY <1>6
  <2>2. s.revision <= paySettings.revision
    BY SettingsRecord
  <2> QED
    BY <1>2, <2>1, <2>2 DEF WorkSound, WellPriced, Recent
<1>8. ASSUME NEW j \in Kinds, j # k PROVE WorkSound(j)'
  BY <1>1, <1>2, <1>6, <1>8 DEF WorkSound, WellPriced, Recent, Unmoved
<1> QED
  BY <1>2, <1>3, <1>5, <1>7, <1>8 DEF RatesInv, WellPriced, Recent

(* A request that ends without writing, and the clock.                     *)
LEMMA EndsKeeps ==
  ASSUME RatesInv, NEW k \in Kinds, Ends(k), UNCHANGED <<paySettings, alarm>>,
         InvoicesArePricedSafely',
         invoiced' \in [rate : Rates, atoms : Nat, at : 0 .. LastMoment,
                        alarm : 0 .. MaxRevisions, automatic : BOOLEAN]
  PROVE  RatesInv'
<1>1. /\ CryptoRatesTypeOK /\ work \in [Kinds -> Works]
      /\ \A j \in Kinds : WorkSound(j)
  BY DEF RatesInv, CryptoRatesTypeOK, Works
<1>2. UNCHANGED <<moment, paySettings, alarm>> /\ work' = [work EXCEPT ![k] = Idling]
  BY DEF Ends
<1>3. work' \in [Kinds -> Works]
  BY <1>1, <1>2, IdlingTyped
<1>4. CryptoRatesTypeOK'
  BY <1>1, <1>2, <1>3 DEF CryptoRatesTypeOK, Works
<1>5. /\ work'[k] = Idling
      /\ \A j \in Kinds : j # k => work'[j] = work[j]
  BY <1>1, <1>2
<1>6. WorkSound(k)'
  BY <1>5, IdlingTyped DEF WorkSound
<1>7. ASSUME NEW j \in Kinds, j # k PROVE WorkSound(j)'
  BY <1>1, <1>2, <1>5, <1>7 DEF WorkSound, WellPriced, Recent, Unmoved
<1> QED
  BY <1>2, <1>4, <1>6, <1>7 DEF RatesInv, WellPriced, Recent

(* A commit: everybody else has now missed it.                             *)
LEMMA WritesKeep ==
  ASSUME RatesInv, NEW k \in Kinds, Unmoved(k), Ends(k), Writes(k), NoInvoice,
         \/ alarm' = alarm
         \/ work[k].unsafe /\ alarm' = paySettings'.revision
  PROVE  RatesInv'
<1>1. /\ CryptoRatesTypeOK /\ work \in [Kinds -> Works] /\ paySettings \in Settings
      /\ alarm \in 0 .. MaxRevisions /\ alarm <= paySettings.revision
      /\ moment \in 0 .. LastMoment
      /\ \A j \in Kinds : WorkSound(j)
  BY DEF RatesInv, CryptoRatesTypeOK, Works
<1> DEFINE s == work[k].settings
           n == paySettings.revision + 1
<1>2. /\ moment' = moment /\ work' = [work EXCEPT ![k] = Idling] /\ work[k].does
      /\ paySettings' = [s EXCEPT !.revision = n] /\ paySettings.revision < MaxRevisions
  BY DEF Ends, Writes
<1>3. /\ s \in Settings /\ WellPriced(s) /\ Recent(s)
      /\ work[k].unsafe => s.rate.expires <= moment
  BY <1>1, <1>2 DEF Works, WorkSound
<1>4. n \in 0 .. MaxRevisions /\ alarm < n
  BY <1>1, <1>2, SettingsRecord, Constants
<1>5. /\ paySettings' \in Settings /\ paySettings'.rate = s.rate
      /\ paySettings'.revision = n /\ paySettings'.automatic = s.automatic
  <2> HIDE DEF s, n
  <2> QED
    BY <1>2, <1>3, <1>4, SettingsRevised
<1>6. work' \in [Kinds -> Works]
  BY <1>1, <1>2, IdlingTyped
<1>7. alarm' \in 0 .. MaxRevisions /\ alarm' <= paySettings'.revision
  BY <1>1, <1>4, <1>5
<1>8. CryptoRatesTypeOK'
  BY <1>1, <1>2, <1>5, <1>6, <1>7, NothingInvoiced DEF CryptoRatesTypeOK, Works
<1>9. WellPriced(paySettings)'
  BY <1>3, <1>5 DEF WellPriced
<1>10. Recent(paySettings)'
  <2>1. CASE alarm' = alarm
    BY <1>2, <1>3, <1>5, <2>1 DEF Recent
  <2>2. CASE work[k].unsafe
    <3>1. ~(s.rate.expires > moment)
      BY <1>1, <1>3, <2>2, SettingsRecord, Constants
    <3> QED
      BY <1>2, <1>5, <3>1 DEF Recent
  <2> QED
    BY <2>1, <2>2
<1>11. /\ work'[k] = Idling
       /\ \A j \in Kinds : j # k => work'[j] = work[j]
  BY <1>1, <1>2
<1>12. ASSUME NEW j \in Kinds PROVE WorkSound(j)'
  <2>1. CASE j = k
    BY <1>11, <2>1, IdlingTyped DEF WorkSound
  <2>2. CASE j # k /\ work[j].does
    <3>1. /\ work'[j] = work[j] /\ work[j].settings.revision <= paySettings.revision
          /\ WellPriced(work[j].settings)
          /\ work[j].unsafe => work[j].settings.rate.expires <= moment
      BY <1>1, <1>11, <2>2 DEF WorkSound
    <3>2. work[j].settings.revision \in Int /\ paySettings.revision \in Int
      BY <1>1, SettingsRecord DEF Works
    <3>3. work'[j].settings.revision < paySettings'.revision
      BY <1>5, <3>1, <3>2
    <3>4. ~Unmoved(j)' /\ work'[j].settings.revision <= paySettings'.revision
      BY <1>5, <3>1, <3>2, <3>3 DEF Unmoved
    <3> QED
      BY <1>2, <3>1, <3>4 DEF WorkSound, WellPriced
  <2>3. CASE j # k /\ ~work[j].does
    BY <1>11, <2>3 DEF WorkSound
  <2> QED
    BY <2>1, <2>2, <2>3
<1> QED
  BY <1>7, <1>8, <1>9, <1>10, <1>12, NothingInvoiced DEF RatesInv
-----------------------------------------------------------------------------
(* The actions.                                                            *)
LEMMA RefreshReadsKeeps == RatesInv /\ RefreshReads => RatesInv'
<1> SUFFICES ASSUME RatesInv, RefreshReads PROVE RatesInv'
  OBVIOUS
<1>1. /\ paySettings \in Settings /\ moment \in 0 .. LastMoment /\ alarm \in 0 .. MaxRevisions
      /\ alarm <= paySettings.revision /\ WellPriced(paySettings) /\ Recent(paySettings)
  BY DEF RatesInv, CryptoRatesTypeOK
<1>2. PICK x \in CoinGecko, y \in Coinbase :
        LET rate == IF Unsafe(x, y)
                    THEN [paySettings.rate EXCEPT !.expires = Sooner(@, moment)]
                    ELSE IF x = Down /\ y = Down THEN paySettings.rate ELSE MarketRate(x, y)
        IN  Begins("refresh", [paySettings EXCEPT !.rate = rate], Unsafe(x, y))
  BY DEF RefreshReads
<1> DEFINE r == IF Unsafe(x, y)
                THEN [paySettings.rate EXCEPT !.expires = Sooner(@, moment)]
                ELSE IF x = Down /\ y = Down THEN paySettings.rate ELSE MarketRate(x, y)
           s == [paySettings EXCEPT !.rate = r]
<1>3. Begins("refresh", s, Unsafe(x, y))
  BY <1>2
<1>4. Unsafe(x, y) \in BOOLEAN
  BY DEF Unsafe
<1>5. "refresh" \in Kinds
  BY DEF Kinds
<1>6. /\ r \in Rates
      /\ r.expires > 0 => r.stored > 0 /\ r.stored <= r.low
      /\ paySettings.automatic /\ r.expires > moment => r.since >= alarm
      /\ Unsafe(x, y) => r.expires <= moment
  <2>1. CASE Unsafe(x, y)
    <3> DEFINE e == Sooner(paySettings.rate.expires, moment)
    <3>1. r = [paySettings.rate EXCEPT !.expires = e]
      BY <2>1
    <3>2. /\ paySettings.rate \in Rates /\ paySettings.rate.expires \in Moments
          /\ paySettings.rate.expires \in Nat /\ moment \in Nat
      BY <1>1, SettingsRecord, Constants DEF Moments
    <3>3. e \in Moments /\ e <= moment /\ e <= paySettings.rate.expires
      BY <3>2, <1>1, Constants DEF Sooner, Moments
    <3>4. /\ r \in Rates /\ r.expires = e /\ r.stored = paySettings.rate.stored
          /\ r.low = paySettings.rate.low
      <4> HIDE DEF e, r
      <4> QED
        BY <3>1, <3>2, <3>3 DEF Rates
    <3>5. e \in Int
      BY <3>3, Constants DEF Moments
    <3> HIDE DEF e, r
    <3> QED
      BY <1>1, <2>1, <3>2, <3>3, <3>4, <3>5 DEF WellPriced
  <2>2. CASE ~Unsafe(x, y) /\ x = Down /\ y = Down
    <3>1. r = paySettings.rate
      BY <2>2
    <3> HIDE DEF r
    <3> QED
      BY <1>1, <2>2, <3>1, SettingsRecord DEF WellPriced, Recent
  <2>3. CASE ~Unsafe(x, y) /\ ~(x = Down /\ y = Down)
    <3>1. r = MarketRate(x, y)
      BY <2>3
    <3> HIDE DEF r
    <3> QED
      BY <1>1, <2>3, <3>1, MarketRateSound
  <2> QED
    BY <2>1, <2>2, <2>3
<1> HIDE DEF r
<1>7. /\ s \in Settings /\ s.rate = r /\ s.revision = paySettings.revision
      /\ s.automatic = paySettings.automatic
  BY <1>1, <1>6, SettingsRated
<1> HIDE DEF s
<1>8. WellPriced(s) /\ Recent(s) /\ (Unsafe(x, y) => s.rate.expires <= moment)
  BY <1>6, <1>7 DEF WellPriced, Recent
<1> QED
  BY <1>3, <1>4, <1>5, <1>7, <1>8, BeginsKeeps

LEMMA EditReadsKeeps == RatesInv /\ EditReads => RatesInv'
<1> SUFFICES ASSUME RatesInv, EditReads PROVE RatesInv'
  OBVIOUS
<1>1. /\ paySettings \in Settings /\ moment \in 0 .. LastMoment
      /\ WellPriced(paySettings) /\ Recent(paySettings)
  BY DEF RatesInv, CryptoRatesTypeOK
<1>2. PICK enabled \in BOOLEAN, automatic \in BOOLEAN, p \in OwnerPrices, life \in {0, 3} :
        LET rate == IF automatic THEN paySettings.rate
                    ELSE [stored |-> RoundedDown(p), low |-> RoundedDown(p),
                          expires |-> moment + life, since |-> paySettings.revision]
        IN  /\ automatic => paySettings.automatic
            /\ enabled => rate.expires > moment
            /\ Begins("edit", [revision |-> paySettings.revision, enabled |-> enabled,
                               automatic |-> automatic, rate |-> rate], FALSE)
  BY DEF EditReads
<1> DEFINE r == IF automatic THEN paySettings.rate
                ELSE [stored |-> RoundedDown(p), low |-> RoundedDown(p),
                      expires |-> moment + life, since |-> paySettings.revision]
           s == [revision |-> paySettings.revision, enabled |-> enabled,
                 automatic |-> automatic, rate |-> r]
<1>3. Begins("edit", s, FALSE) /\ (automatic => paySettings.automatic)
  BY <1>2
<1>4. /\ r \in Rates
      /\ r.expires > 0 => r.stored > 0 /\ r.stored <= r.low
      /\ automatic => r = paySettings.rate
  <2>1. CASE automatic
    BY <1>1, <2>1, SettingsRecord DEF WellPriced
  <2>2. CASE ~automatic
    <3>1. p \in Nat /\ p >= Step
      BY CryptoRatesAssumption
    <3>2. RoundedDown(p) \in Nat /\ RoundedDown(p) > 0
      BY <3>1, RoundingDown
    <3>3. moment + life \in Moments /\ paySettings.revision \in 0 .. MaxRevisions
      BY <1>1, SettingsRecord, Constants DEF Moments
    <3> QED
      BY <2>2, <3>2, <3>3 DEF Rates
  <2> QED
    BY <2>1, <2>2
<1> HIDE DEF r
<1>5. /\ s \in Settings /\ s.rate = r /\ s.revision = paySettings.revision
      /\ s.automatic = automatic
  BY <1>1, <1>4, SettingsRecord DEF Settings
<1> HIDE DEF s
<1>6. WellPriced(s) /\ Recent(s)
  BY <1>1, <1>3, <1>4, <1>5 DEF WellPriced, Recent
<1>7. "edit" \in Kinds
  BY DEF Kinds
<1> QED
  BY <1>3, <1>5, <1>6, <1>7, BeginsKeeps

LEMMA SetupReadsKeeps == RatesInv /\ SetupReads => RatesInv'
<1> SUFFICES ASSUME RatesInv, SetupReads PROVE RatesInv'
  OBVIOUS
<1>1. /\ paySettings \in Settings /\ moment \in 0 .. LastMoment /\ alarm \in 0 .. MaxRevisions
      /\ alarm <= paySettings.revision
  BY DEF RatesInv, CryptoRatesTypeOK
<1>2. PICK x \in CoinGecko, y \in Coinbase :
        /\ ~Unsafe(x, y) /\ <<x, y>> # <<Down, Down>>
        /\ Begins("setup", [revision |-> paySettings.revision, enabled |-> TRUE,
                            automatic |-> TRUE, rate |-> MarketRate(x, y)], FALSE)
  BY DEF SetupReads
<1> DEFINE r == MarketRate(x, y)
           s == [revision |-> paySettings.revision, enabled |-> TRUE,
                 automatic |-> TRUE, rate |-> r]
<1>3. /\ r \in Rates /\ r.since = paySettings.revision
      /\ r.stored > 0 /\ r.stored <= r.low
  BY <1>1, <1>2, MarketRateSound
<1>4. Begins("setup", s, FALSE)
  BY <1>2
<1> HIDE DEF r
<1>5. s \in Settings /\ s.rate = r /\ s.revision = paySettings.revision
  BY <1>1, <1>3, SettingsRecord DEF Settings
<1> HIDE DEF s
<1>6. WellPriced(s) /\ Recent(s)
  BY <1>1, <1>3, <1>5, SettingsRecord DEF WellPriced, Recent
<1>7. "setup" \in Kinds
  BY DEF Kinds
<1> QED
  BY <1>4, <1>5, <1>6, <1>7, BeginsKeeps

LEMMA InvoiceReadsKeeps == RatesInv /\ InvoiceReads => RatesInv'
<1> SUFFICES ASSUME RatesInv, InvoiceReads PROVE RatesInv'
  OBVIOUS
<1>1. paySettings \in Settings /\ WellPriced(paySettings) /\ Recent(paySettings)
  BY DEF RatesInv, CryptoRatesTypeOK
<1>2. "invoice" \in Kinds /\ Begins("invoice", paySettings, FALSE)
  BY DEF Kinds, InvoiceReads
<1> QED
  BY <1>1, <1>2, BeginsKeeps

(* The invoice is made at a price that holds, of settings nobody changed.  *)
LEMMA InvoicesKeeps == RatesInv /\ Invoices => RatesInv'
<1> SUFFICES ASSUME RatesInv, Invoices PROVE RatesInv'
  OBVIOUS
<1> DEFINE k == "invoice"
           s == work[k].settings
<1>1. /\ k \in Kinds /\ work \in [Kinds -> Works] /\ WorkSound(k)
      /\ moment \in 0 .. LastMoment /\ alarm \in 0 .. MaxRevisions
  BY DEF RatesInv, CryptoRatesTypeOK, Works, Kinds
<1>2. /\ Unmoved(k) /\ s.rate.expires > moment /\ Ends(k) /\ work[k].does
      /\ invoiced' = [rate |-> s.rate, atoms |-> AtomsOf(s.rate), at |-> moment,
                      alarm |-> alarm, automatic |-> s.automatic]
      /\ UNCHANGED <<paySettings, alarm>>
  BY DEF Invoices, Ends
<1>3. s \in Settings /\ WellPriced(s) /\ Recent(s)
  BY <1>1, <1>2 DEF WorkSound, Works
<1> HIDE DEF s
<1>4. /\ s.rate \in Rates /\ s.automatic \in BOOLEAN /\ s.rate.stored \in Nat
      /\ s.rate.low \in Nat /\ s.rate.expires \in Int
  BY <1>3, SettingsRecord
<1>5. s.rate.stored > 0 /\ s.rate.stored <= s.rate.low
  BY <1>1, <1>2, <1>3, <1>4, Constants DEF WellPriced
<1>6. AtomsOf(s.rate) \in Nat /\ AtomsOf(s.rate) * s.rate.low >= OrderCost * Units
  <2> DEFINE r == s.rate
  <2>1. r.stored \in Nat \ {0} /\ r.low \in Nat /\ r.stored <= r.low
    BY <1>4, <1>5
  <2> HIDE DEF r
  <2>2. AtomsOf(r) \in Nat /\ AtomsOf(r) * r.low >= OrderCost * Units
    BY <2>1, RoundingUp
  <2> QED
    BY <2>2 DEF r
<1>7. s.automatic => s.rate.since >= alarm
  BY <1>2, <1>3 DEF Recent
<1>8. /\ invoiced'.rate = s.rate /\ invoiced'.atoms = AtomsOf(s.rate) /\ invoiced'.at = moment
      /\ invoiced'.alarm = alarm /\ invoiced'.automatic = s.automatic
  BY <1>2
<1>9. InvoicesArePricedSafely'
  BY <1>2, <1>6, <1>7, <1>8 DEF InvoicesArePricedSafely
<1>10. invoiced' \in [rate : Rates, atoms : Nat, at : 0 .. LastMoment,
                      alarm : 0 .. MaxRevisions, automatic : BOOLEAN]
  BY <1>1, <1>2, <1>4, <1>6
<1> HIDE DEF k
<1> QED
  BY <1>1, <1>2, <1>9, <1>10, EndsKeeps

LEMMA MomentPassesKeeps == RatesInv /\ MomentPasses => RatesInv'
<1> SUFFICES ASSUME RatesInv, MomentPasses PROVE RatesInv'
  OBVIOUS
<1>1. /\ CryptoRatesTypeOK /\ moment \in 0 .. LastMoment /\ paySettings \in Settings
      /\ work \in [Kinds -> Works] /\ WellPriced(paySettings) /\ Recent(paySettings)
      /\ \A k \in Kinds : WorkSound(k)
  BY DEF RatesInv, CryptoRatesTypeOK, Works
<1>2. /\ moment' = moment + 1 /\ moment' \in 0 .. LastMoment /\ NoInvoice
      /\ UNCHANGED <<paySettings, work, alarm>>
  BY <1>1, Constants DEF MomentPasses
<1>3. moment \in Int /\ moment < moment'
  BY <1>1, <1>2
<1>4. \A s \in Settings : /\ Recent(s) => Recent(s)'
                          /\ WellPriced(s) => WellPriced(s)'
                          /\ s.rate.expires <= moment => s.rate.expires <= moment'
  <2> TAKE s \in Settings
  <2>1. s.rate.expires \in Int
    BY SettingsRecord
  <2> QED
    BY <1>2, <1>3, <2>1 DEF Recent, WellPriced
<1>5. ASSUME NEW k \in Kinds PROVE WorkSound(k)'
  <2>1. work[k].settings \in Settings /\ WorkSound(k) /\ work' = work
    BY <1>1, <1>2 DEF Works
  <2>2. Recent(work[k].settings) => Recent(work[k].settings)'
    BY <1>2, <1>3, <2>1, SettingsRecord DEF Recent
  <2>3. work[k].settings.rate.expires <= moment => work[k].settings.rate.expires <= moment'
    BY <1>4, <2>1
  <2> QED
    BY <1>2, <2>1, <2>2, <2>3 DEF WorkSound, Unmoved, WellPriced
<1>6. Recent(paySettings)'
  BY <1>1, <1>2, <1>3, SettingsRecord DEF Recent
<1>7. CryptoRatesTypeOK'
  BY <1>1, <1>2, NothingInvoiced DEF CryptoRatesTypeOK
<1> QED
  BY <1>1, <1>2, <1>5, <1>6, <1>7, NothingInvoiced DEF RatesInv, WellPriced
-----------------------------------------------------------------------------
(* The inductive invariant holds in every reachable state.                 *)
THEOREM RatesSafe == CryptoRatesSpec => []RatesInv
<1>1. CryptoRatesInit => RatesInv
  <2> SUFFICES ASSUME CryptoRatesInit PROVE RatesInv
    OBVIOUS
  <2>1. /\ moment = 0 /\ paySettings = Idling.settings /\ alarm = 0
        /\ work = [k \in Kinds |-> Idling] /\ invoiced = NotInvoiced
    BY DEF CryptoRatesInit
  <2>2. /\ paySettings \in Settings /\ paySettings.revision = 0
        /\ paySettings.rate.expires = 0 /\ ~paySettings.automatic
    BY <2>1, IdlingTyped DEF Idling, Works, NoRate
  <2>3. NotInvoiced \in [rate : Rates, atoms : Nat, at : 0 .. LastMoment,
                         alarm : 0 .. MaxRevisions, automatic : BOOLEAN]
    <3>1. NoRate \in Rates
      BY Constants DEF NoRate, Rates, Moments
    <3> QED
      BY <3>1, Constants DEF NotInvoiced
  <2>4. CryptoRatesTypeOK
    BY <2>1, <2>2, <2>3, IdlingTyped, Constants DEF CryptoRatesTypeOK, Works
  <2>5. \A k \in Kinds : WorkSound(k)
    BY <2>1, IdlingTyped DEF WorkSound
  <2> QED
    BY <2>1, <2>2, <2>4, <2>5 DEF RatesInv, WellPriced, Recent, InvoicesArePricedSafely
<1>2. RatesInv /\ [CryptoRatesNext]_RatesVars => RatesInv'
  <2> SUFFICES ASSUME RatesInv, [CryptoRatesNext]_RatesVars PROVE RatesInv'
    OBVIOUS
  <2>1. CASE RefreshReads
    BY <2>1, RefreshReadsKeeps
  <2>2. CASE Refreshes
    <3>1. /\ "refresh" \in Kinds /\ Unmoved("refresh") /\ Ends("refresh")
          /\ Writes("refresh") /\ NoInvoice
      BY <2>2 DEF Refreshes, Kinds
    <3>2. \/ alarm' = alarm
          \/ work["refresh"].unsafe /\ alarm' = paySettings'.revision
      BY <2>2 DEF Refreshes
    <3> QED
      BY <3>1, <3>2, WritesKeep
  <2>3. CASE EditReads
    BY <2>3, EditReadsKeeps
  <2>4. CASE Edits
    <3>1. /\ "edit" \in Kinds /\ Unmoved("edit") /\ Ends("edit")
          /\ Writes("edit") /\ NoInvoice /\ alarm' = alarm
      BY <2>4 DEF Edits, Kinds
    <3> QED
      BY <3>1, WritesKeep
  <2>5. CASE SetupReads
    BY <2>5, SetupReadsKeeps
  <2>6. CASE SetsUp
    <3>1. /\ "setup" \in Kinds /\ Unmoved("setup") /\ Ends("setup")
          /\ Writes("setup") /\ NoInvoice /\ alarm' = alarm
      BY <2>6 DEF SetsUp, Kinds
    <3> QED
      BY <3>1, WritesKeep
  <2>7. CASE InvoiceReads
    BY <2>7, InvoiceReadsKeeps
  <2>8. CASE Invoices
    BY <2>8, InvoicesKeeps
  <2>9. CASE GivesUp
    <3>1. PICK k \in Kinds : Ends(k) /\ NoInvoice /\ UNCHANGED <<paySettings, alarm>>
      BY <2>9 DEF GivesUp, Drops
    <3>2. CryptoRatesTypeOK
      BY DEF RatesInv
    <3> QED
      BY <3>1, <3>2, NothingInvoiced, EndsKeeps
  <2>10. CASE MomentPasses
    BY <2>10, MomentPassesKeeps
  <2>11. CASE UNCHANGED RatesVars
    BY <2>11 DEF RatesVars, RatesInv, CryptoRatesTypeOK, WellPriced, Recent, WorkSound,
                 Unmoved, InvoicesArePricedSafely
  <2> QED
    BY <2>1, <2>2, <2>3, <2>4, <2>5, <2>6, <2>7, <2>8, <2>9, <2>10, <2>11
       DEF CryptoRatesNext
<1> QED
  BY <1>1, <1>2, PTL DEF CryptoRatesSpec

(* cryptoRateDecimal rounds "down, so rounding never undercharges the      *)
(* order", and "a concurrent explicit edit wins": whatever the prices and  *)
(* however many requests overlap, no invoice is below the lower price, at  *)
(* an expired one, or at one a saved lookup had found unsafe.              *)
THEOREM PricesAreSafe == CryptoRatesSpec => []InvoicesArePricedSafely
<1>1. RatesInv => InvoicesArePricedSafely
  BY DEF RatesInv
<1> QED
  BY <1>1, RatesSafe, PTL

(* Settings, rates and what every request holds keep their shape.          *)
THEOREM RatesTyped == CryptoRatesSpec => []CryptoRatesTypeOK
<1>1. RatesInv => CryptoRatesTypeOK
  BY DEF RatesInv
<1> QED
  BY <1>1, RatesSafe, PTL
-----------------------------------------------------------------------------
(* The panels and backups of a receiving branch.                           *)

(* A panel's rows are under the next index of its branch, one to an index; *)
(* its history has its wallet; and only the panel in charge, when it knows *)
(* what the others have given, gives addresses.                            *)
PanelSound(p) ==
  LET w == cryptoWallet[p] IN
  /\ \A r, s \in allocated[p] : r.index = s.index => r = s
  /\ \A r \in allocated[p] : r.index < Shown(p) /\ r.wallet <= born
  /\ DOMAIN history[p] \subseteq 1 .. born
  /\ WalletAt(p) => /\ w.id \in DOMAIN history[p] /\ ~history[p][w.id].deleted
                    /\ w.next = w.reserved + Cardinality(RowsOf(p, w.id))
  /\ w.enabled => p = charge.at /\ charge.informed

(* So is a backup, finished or under way, for its own next index.          *)
BackupSound(b) == b.id <= born /\ \A r \in b.rows : r.index < b.next /\ r.wallet <= born

Files == backups \union {exporting[p] : p \in Panels}

(* Every row there is, in a panel or a backup, is of an index that was     *)
(* given, and the rows of an index are of one network.                     *)
KnownRows == (UNION {allocated[p] : p \in Panels}) \union (UNION {b.rows : b \in Files})
RowsAgree == /\ \A r \in KnownRows : given[r.index] > 0
             /\ \A r, s \in KnownRows : r.index = s.index => r.network = s.network

(* What was given is known at some panel; the one in charge knows it, or   *)
(* the branch has been elsewhere.                                          *)
Remembered ==
  /\ \A i \in Indices : given[i] > 0 =>
       /\ \E q \in Panels : i < Shown(q)
       /\ charge.informed => i < Shown(charge.at)
  /\ ~charge.informed => \E q \in Panels \ {charge.at} : DOMAIN history[q] # {}

WalletsInv ==
  /\ CryptoWalletsTypeOK /\ IndexGivenOnce /\ RowsAgree /\ Remembered
  /\ DOMAIN history = Panels /\ DOMAIN allocated = Panels /\ DOMAIN exporting = Panels
  /\ \A p \in Panels : PanelSound(p)
  /\ \A b \in Files : BackupSound(b)
-----------------------------------------------------------------------------
(* A set of naturals with a bound has a greatest element.                  *)
LEMMA GreatestOf ==
  ASSUME NEW n \in Nat, NEW S \in SUBSET (0 .. n), S # {}
  PROVE  Max(S) \in S /\ \A x \in S : x <= Max(S)
<1> DEFINE Above == {k \in Nat : \A x \in S : x <= k}
<1>1. n \in Above
  OBVIOUS
<1>2. PICK k \in Above : \A j \in Above : k <= j
  <2>1. Above \subseteq Nat /\ Above # {}
    BY <1>1
  <2> HIDE DEF Above
  <2> QED
    BY <2>1, LeastNatural
<1>3. k \in S
  <2> SUFFICES ASSUME k \notin S PROVE FALSE
    OBVIOUS
  <2>1. PICK y \in S : TRUE
    OBVIOUS
  <2>2. \A x \in S : x \in Nat /\ x < k
    BY <1>2
  <2>3. k - 1 \in Above
    BY <1>2, <2>1, <2>2
  <2> QED
    BY <1>2, <2>3
<1>4. k \in S /\ \A y \in S : k >= y
  BY <1>2, <1>3
<1> QED
  BY <1>4 DEF Max

(* Rows one to an index are no more than the indices there are.            *)
LEMMA RowsCounted ==
  ASSUME NEW S, NEW n \in Nat,
         \A r, s \in S : r.index = s.index => r = s,
         \A r \in S : r.index \in Nat /\ r.index < n
  PROVE  IsFiniteSet(S) /\ Cardinality(S) \in 0 .. n
<1> DEFINE f == [r \in S |-> r.index]
<1>1. f \in Injection(S, 0 .. n - 1)
  BY DEF Injection, IsInjective
<1>2. IsFiniteSet(0 .. n - 1) /\ Cardinality(0 .. n - 1) = n
  BY FS_Interval
<1>3. IsFiniteSet(S) /\ Cardinality(S) <= n
  BY <1>1, <1>2, FS_Injection
<1> QED
  BY <1>3, FS_CardinalityType

WalletNumbers == 0 .. IndexLimit

(* What a panel's history and its next index are, in any state.            *)
LEMMA HighWaterIs ==
  ASSUME NEW h, \A i \in DOMAIN h : h[i].next \in WalletNumbers
  PROVE  LET m == Max({0} \union {h[i].next : i \in DOMAIN h})
         IN /\ m \in WalletNumbers
            /\ \A i \in DOMAIN h : h[i].next <= m
            /\ m > 0 => DOMAIN h # {}
<1> DEFINE S == {0} \union {h[i].next : i \in DOMAIN h}
<1>1. IndexLimit \in Nat
  BY CryptoWalletsAssumption
<1>2. S \in SUBSET (0 .. IndexLimit) /\ S # {}
  BY <1>1 DEF WalletNumbers
<1>3. Max(S) \in S /\ \A x \in S : x <= Max(S)
  BY <1>1, <1>2, GreatestOf
<1>4. Max(S) \in WalletNumbers
  BY <1>2, <1>3 DEF WalletNumbers
<1>5. \A i \in DOMAIN h : h[i].next <= Max(S)
  BY <1>3
<1>6. Max(S) > 0 => DOMAIN h # {}
  <2>1. ASSUME DOMAIN h = {} PROVE Max(S) = 0
    <3>1. \A x \in S : x = 0
      BY <2>1
    <3> QED
      BY <1>3, <3>1
  <2> DEFINE m == Max(S)
  <2>2. (m = 0 => ~ (m > 0)) /\ (DOMAIN h = {} => m = 0)
    BY <2>1
  <2> HIDE DEF m
  <2>3. m > 0 => DOMAIN h # {}
    BY <2>2
  <2> QED
    BY <2>3 DEF m
<1> QED
  BY <1>4, <1>5, <1>6

(* The facts of the invariant about one panel.                             *)
LEMMA PanelFacts ==
  ASSUME WalletsInv, NEW p \in Panels
  PROVE  /\ IndexLimit \in Nat /\ born \in Nat /\ born <= MaxWallets /\ MaxWallets \in Nat
         /\ cryptoWallet \in [Panels -> CryptoWallets \union {NoWallet}]
         /\ WalletAt(p) => cryptoWallet[p] \in CryptoWallets
         /\ ~WalletAt(p) => cryptoWallet[p] = NoWallet
         /\ \A i \in DOMAIN history[p] : i \in WalletIds /\ history[p][i] \in HistoryRows
                                         /\ history[p][i].next \in WalletNumbers
         /\ HighWater(p) \in WalletNumbers
         /\ \A i \in DOMAIN history[p] : history[p][i].next <= HighWater(p)
         /\ HighWater(p) > 0 => DOMAIN history[p] # {}
         /\ Shown(p) \in WalletNumbers
         /\ Shown(p) > 0 => DOMAIN history[p] # {}
         /\ cryptoWallet[p].id \in 0 .. born
         /\ PanelSound(p)
<1>1. CryptoWalletsTypeOK /\ PanelSound(p)
  BY DEF WalletsInv
<1>2. /\ IndexLimit \in Nat /\ MaxWallets \in Nat /\ born \in 0 .. MaxWallets
  BY <1>1, CryptoWalletsAssumption DEF CryptoWalletsTypeOK
<1>3. /\ cryptoWallet \in [Panels -> CryptoWallets \union {NoWallet}]
      /\ cryptoWallet[p] \in CryptoWallets \union {NoWallet}
  BY <1>1 DEF CryptoWalletsTypeOK
<1>4. /\ WalletAt(p) => cryptoWallet[p] \in CryptoWallets
      /\ ~WalletAt(p) => cryptoWallet[p] = NoWallet
  <2>1. NoWallet.id = 0 /\ \A w \in CryptoWallets : w.id > 0
    BY <1>2 DEF NoWallet, CryptoWallets, WalletIds
  <2> QED
    BY <1>3, <2>1 DEF WalletAt
<1>5. \A i \in DOMAIN history[p] : i \in WalletIds /\ history[p][i] \in HistoryRows
                                   /\ history[p][i].next \in WalletNumbers
  BY <1>1 DEF CryptoWalletsTypeOK, HistoryRows, WalletNumbers
<1>6. /\ HighWater(p) \in WalletNumbers
      /\ \A i \in DOMAIN history[p] : history[p][i].next <= HighWater(p)
      /\ HighWater(p) > 0 => DOMAIN history[p] # {}
  <2> DEFINE h == history[p]
  <2>1. \A i \in DOMAIN h : h[i].next \in WalletNumbers
    BY <1>5
  <2>2. HighWater(p) = Max({0} \union {h[i].next : i \in DOMAIN h})
    BY DEF HighWater
  <2> HIDE DEF h
  <2>3. LET m == Max({0} \union {h[i].next : i \in DOMAIN h})
         IN /\ m \in WalletNumbers
            /\ \A i \in DOMAIN h : h[i].next <= m
            /\ m > 0 => DOMAIN h # {}
    BY <2>1, HighWaterIs
  <2> QED
    BY <2>2, <2>3 DEF h
<1>7. Shown(p) \in WalletNumbers
  BY <1>4, <1>6 DEF Shown, CryptoWallets, WalletNumbers
<1>8. Shown(p) > 0 => DOMAIN history[p] # {}
  BY <1>1, <1>6 DEF Shown, PanelSound
<1>9. cryptoWallet[p].id \in 0 .. born
  <2>1. CASE WalletAt(p)
    BY <1>1, <1>2, <2>1 DEF PanelSound, WalletAt
  <2>2. CASE ~WalletAt(p)
    BY <1>2, <1>4, <2>2 DEF NoWallet
  <2> QED
    BY <2>1, <2>2
<1> QED
  BY <1>1, <1>2, <1>3, <1>4, <1>5, <1>6, <1>7, <1>8, <1>9

LEMMA WalletsInvMeans == WalletsInv => IndexGivenOnce /\ WalletsIntact
<1> SUFFICES ASSUME WalletsInv PROVE WalletsIntact
  BY DEF WalletsInv
<1>1. DOMAIN cryptoWallet = Panels
  BY DEF WalletsInv, CryptoWalletsTypeOK
<1> QED
  BY <1>1 DEF WalletsInv, WalletsIntact, PanelSound

LEMMA WalletsInitInv == CryptoWalletsInit => WalletsInv
<1> SUFFICES ASSUME CryptoWalletsInit PROVE WalletsInv
  OBVIOUS
<1>1. Origin \in Panels /\ MaxWallets \in Nat /\ IndexLimit \in Nat
  BY CryptoWalletsAssumption
<1>2. \A p \in Panels : /\ cryptoWallet[p] = NoWallet /\ history[p] = <<>> /\ allocated[p] = {}
                        /\ exporting[p] = NoBackup
  BY DEF CryptoWalletsInit
<1>3. DOMAIN <<>> = {}
  OBVIOUS
<1>4. CryptoWalletsTypeOK
  <2>1. /\ cryptoWallet \in [Panels -> CryptoWallets \union {NoWallet}]
        /\ backups \subseteq Backups /\ born \in 0 .. MaxWallets
        /\ given \in [Indices -> 0 .. 2] /\ charge \in [at : Panels, informed : BOOLEAN]
    BY <1>1 DEF CryptoWalletsInit
  <2> QED
    BY <1>2, <1>3, <2>1 DEF CryptoWalletsTypeOK
<1>5. Files = {NoBackup} /\ KnownRows = {}
  <2>1. Files = {NoBackup}
    BY <1>1, <1>2 DEF Files, CryptoWalletsInit
  <2> QED
    BY <1>2, <2>1 DEF KnownRows, NoBackup
<1>6. RowsAgree
  BY <1>5 DEF RowsAgree
<1>7. Remembered /\ IndexGivenOnce
  BY DEF CryptoWalletsInit, Remembered, IndexGivenOnce
<1>8. \A p \in Panels : PanelSound(p)
  BY <1>2, <1>3 DEF PanelSound, WalletAt, NoWallet
<1>9. \A b \in Files : BackupSound(b)
  BY <1>5 DEF BackupSound, NoBackup, CryptoWalletsInit
<1> QED
  BY <1>4, <1>6, <1>7, <1>8, <1>9 DEF WalletsInv, CryptoWalletsInit
-----------------------------------------------------------------------------
LEMMA InSomeOf ==
  ASSUME NEW P, NEW f, NEW F, NEW r
  PROVE  r \in (UNION {f[p] : p \in P}) \union (UNION {b.rows : b \in F})
           <=> (\E p \in P : r \in f[p]) \/ (\E b \in F : r \in b.rows)
<1>1. r \in UNION {f[p] : p \in P} <=> \E p \in P : r \in f[p]
  OBVIOUS
<1>2. r \in UNION {b.rows : b \in F} <=> \E b \in F : r \in b.rows
  OBVIOUS
<1> QED
  BY <1>1, <1>2

LEMMA RowIsKnown ==
  ASSUME NEW r
  PROVE  /\ r \in KnownRows <=> (\E p \in Panels : r \in allocated[p])
                            \/ (\E b \in Files : r \in b.rows)
         /\ r \in KnownRows' <=> (\E p \in Panels : r \in allocated'[p])
                             \/ (\E b \in Files' : r \in b.rows)
<1>1. KnownRows = (UNION {allocated[p] : p \in Panels}) \union (UNION {b.rows : b \in Files})
  BY DEF KnownRows
<1>2. KnownRows' = (UNION {allocated'[p] : p \in Panels}) \union (UNION {b.rows : b \in Files'})
  BY DEF KnownRows
<1>3. r \in KnownRows <=> (\E p \in Panels : r \in allocated[p])
                     \/ (\E b \in Files : r \in b.rows)
  <2>1. r \in (UNION {allocated[p] : p \in Panels}) \union (UNION {b.rows : b \in Files})
          <=> (\E p \in Panels : r \in allocated[p]) \/ (\E b \in Files : r \in b.rows)
    BY InSomeOf
  <2> QED
    BY <1>1, <2>1, Zenon
<1>4. r \in KnownRows' <=> (\E p \in Panels : r \in allocated'[p])
                      \/ (\E b \in Files' : r \in b.rows)
  <2>1. r \in (UNION {allocated'[p] : p \in Panels}) \union (UNION {b.rows : b \in Files'})
          <=> (\E p \in Panels : r \in allocated'[p]) \/ (\E b \in Files' : r \in b.rows)
    BY InSomeOf
  <2> QED
    BY <1>2, <2>1, Zenon
<1> QED
  BY <1>3, <1>4

(* A step at one panel, which gives no address and forgets nothing of what *)
(* the panel has shown or had.                                             *)
LEMMA WalletStep ==
  ASSUME WalletsInv, NEW p \in Panels,
         cryptoWallet' \in [Panels -> CryptoWallets \union {NoWallet}],
         DOMAIN history' = Panels, DOMAIN allocated' = Panels, DOMAIN exporting' = Panels,
         \A q \in Panels \ {p} :
           /\ cryptoWallet'[q] = cryptoWallet[q] /\ history'[q] = history[q]
           /\ allocated'[q] = allocated[q] /\ exporting'[q] = exporting[q],
         DOMAIN history'[p] \subseteq WalletIds,
         \A i \in DOMAIN history'[p] : history'[p][i] \in HistoryRows,
         DOMAIN history[p] \subseteq DOMAIN history'[p],
         allocated'[p] \in SUBSET AddressRows, exporting'[p] \in Backups \union {NoBackup},
         given' = given, born' \in born .. MaxWallets, backups' \in SUBSET Backups,
         charge' \in [at : Panels, informed : BOOLEAN], charge'.at = charge.at,
         charge.informed => charge'.informed,
         charge'.informed => charge.informed \/
           (p = charge.at /\ \A q \in Panels \ {p} : Shown(q) <= Shown(p)'),
         Shown(p)' \in WalletNumbers, Shown(p) <= Shown(p)', PanelSound(p)',
         \A r \in allocated'[p] : \E s \in KnownRows : s.index = r.index /\ s.network = r.network,
         \A b \in backups' \union {exporting'[p]} :
            b \in Files \/ (BackupSound(b)' /\ \A r \in b.rows : r \in KnownRows)
  PROVE  WalletsInv'
<1>1. /\ CryptoWalletsTypeOK /\ RowsAgree /\ Remembered /\ IndexGivenOnce
      /\ \A q \in Panels : PanelSound(q)
      /\ \A b \in Files : BackupSound(b)
  BY DEF WalletsInv
<1>2. CryptoWalletsTypeOK'
  <2>1. /\ born' \in 0 .. MaxWallets /\ given' \in [Indices -> 0 .. 2]
    BY <1>1, CryptoWalletsAssumption DEF CryptoWalletsTypeOK
  <2>2. ASSUME NEW q \in Panels
        PROVE  /\ DOMAIN history'[q] \subseteq WalletIds
               /\ \A i \in DOMAIN history'[q] : history'[q][i] \in HistoryRows
               /\ allocated'[q] \subseteq AddressRows
               /\ exporting'[q] \in Backups \union {NoBackup}
    BY <1>1 DEF CryptoWalletsTypeOK
  <2> QED
    BY <2>1, <2>2 DEF CryptoWalletsTypeOK
<1>3. \A q \in Panels \ {p} :
        /\ cryptoWallet'[q] = cryptoWallet[q] /\ history'[q] = history[q]
        /\ allocated'[q] = allocated[q] /\ exporting'[q] = exporting[q]
  OBVIOUS
<1>4. \A q \in Panels \ {p} : Shown(q)' = Shown(q)
  <2> SUFFICES ASSUME NEW q \in Panels \ {p} PROVE Shown(q)' = Shown(q)
    OBVIOUS
  <2>1. cryptoWallet'[q] = cryptoWallet[q] /\ history'[q] = history[q]
    BY <1>3
  <2>2. HighWater(q)' = HighWater(q)
    BY <2>1 DEF HighWater
  <2> QED
    BY <2>1, <2>2 DEF Shown, WalletAt
<1>5. \A q \in Panels : /\ Shown(q) \in Nat /\ Shown(q)' \in Nat /\ Shown(q) <= Shown(q)'
                        /\ DOMAIN history[q] \subseteq DOMAIN history'[q]
  <2>1. \A q \in Panels : Shown(q) \in Nat
    BY PanelFacts DEF WalletNumbers
  <2>2. Shown(p)' \in Nat
    BY CryptoWalletsAssumption DEF WalletNumbers
  <2> QED
    BY <1>3, <1>4, <2>1, <2>2
<1>6. Remembered'
  <2>1. ASSUME NEW i \in Indices, given[i] > 0 PROVE \E q \in Panels : i < Shown(q)'
    <3>1. PICK q \in Panels : i < Shown(q)
      BY <1>1, <2>1 DEF Remembered
    <3> QED
      BY <1>5, <3>1 DEF Indices
  <2>2. ASSUME NEW i \in Indices, given[i] > 0, charge'.informed PROVE i < Shown(charge.at)'
    <3>1. charge.at \in Panels /\ i \in Int
      BY <1>1 DEF CryptoWalletsTypeOK, Indices
    <3>2. CASE charge.informed
      <4>1. i < Shown(charge.at)
        BY <1>1, <2>2, <3>2 DEF Remembered
      <4> QED
        BY <1>5, <3>1, <4>1
    <3>3. CASE ~charge.informed
      <4>1. p = charge.at /\ \A q \in Panels \ {p} : Shown(q) <= Shown(p)'
        BY <2>2, <3>3
      <4>2. PICK q \in Panels : i < Shown(q)
        BY <1>1, <2>2 DEF Remembered
      <4>3. Shown(q) <= Shown(p)'
        BY <1>5, <4>1
      <4>4. i < Shown(p)'
        BY <1>5, <3>1, <4>2, <4>3
      <4> QED
        BY <4>1, <4>4
    <3> QED
      BY <3>2, <3>3
  <2>3. ASSUME ~charge'.informed PROVE \E q \in Panels \ {charge.at} : DOMAIN history'[q] # {}
    <3>1. PICK q \in Panels \ {charge.at} : DOMAIN history[q] # {}
      BY <1>1, <2>3 DEF Remembered
    <3> QED
      BY <1>5, <3>1
  <2> QED
    BY <2>1, <2>2, <2>3 DEF Remembered
<1>7. ASSUME NEW q \in Panels PROVE PanelSound(q)'
  <2>1. CASE q = p
    BY <2>1
  <2>2. CASE q # p
    <3>1. PanelSound(q) /\ born <= born' /\ born \in Int /\ born' \in Int
      BY <1>1, CryptoWalletsAssumption DEF CryptoWalletsTypeOK
    <3>2. \A r \in allocated[q] : r.wallet \in Int
      BY <1>1, CryptoWalletsAssumption DEF CryptoWalletsTypeOK, AddressRows, WalletIds
    <3>3. /\ cryptoWallet'[q] = cryptoWallet[q] /\ history'[q] = history[q]
          /\ allocated'[q] = allocated[q] /\ Shown(q)' = Shown(q)
      BY <1>3, <1>4, <2>2
    <3>4. /\ WalletAt(q)' <=> WalletAt(q)
          /\ \A id : RowsOf(q, id)' = RowsOf(q, id)
      BY <3>3 DEF WalletAt, RowsOf
    <3>5. \A r \in allocated[q] : r.wallet <= born'
      BY <3>1, <3>2 DEF PanelSound
    <3>6. DOMAIN history[q] \subseteq 1 .. born'
      BY <3>1 DEF PanelSound
    <3> QED
      BY <3>1, <3>3, <3>4, <3>5, <3>6 DEF PanelSound
  <2> QED
    BY <2>1, <2>2
<1>8. ASSUME NEW b \in Files' PROVE b \in Files \/ (BackupSound(b)' /\ \A r \in b.rows : r \in KnownRows)
  <2>1. b \in backups' \union {exporting'[p]} \/ \E q \in Panels \ {p} : b = exporting'[q]
    BY DEF Files
  <2>2. \A q \in Panels : exporting[q] \in Files
    BY DEF Files
  <2> QED
    BY <1>3, <2>1, <2>2
<1>9. \A b \in Files' : BackupSound(b)'
  <2> SUFFICES ASSUME NEW b \in Files, b \in Files' PROVE BackupSound(b)'
    BY <1>8
  <2>1. b \in Backups \union {NoBackup}
    BY <1>1 DEF Files, CryptoWalletsTypeOK
  <2>2. b.id \in Int /\ \A r \in b.rows : r.wallet \in Int
    BY <2>1, CryptoWalletsAssumption DEF Backups, NoBackup, AddressRows, WalletIds
  <2>3. born <= born' /\ born \in Int /\ born' \in Int
    BY <1>1, CryptoWalletsAssumption DEF CryptoWalletsTypeOK
  <2>4. BackupSound(b)
    BY <1>1
  <2>5. b.id <= born /\ \A r \in b.rows : r.index < b.next /\ r.wallet <= born
    BY <2>4 DEF BackupSound
  <2>6. b.id <= born' /\ \A r \in b.rows : r.wallet <= born'
    BY <2>2, <2>3, <2>5
  <2> QED
    BY <2>5, <2>6 DEF BackupSound
<1>10. \A r \in KnownRows' : \E s \in KnownRows : s.index = r.index /\ s.network = r.network
  <2> SUFFICES ASSUME NEW r \in KnownRows'
               PROVE  \E s \in KnownRows : s.index = r.index /\ s.network = r.network
    OBVIOUS
  <2>1. (\E q \in Panels : r \in allocated'[q]) \/ (\E b \in Files' : r \in b.rows)
    BY RowIsKnown
  <2>2. CASE \E q \in Panels : r \in allocated'[q]
    <3>1. PICK q \in Panels : r \in allocated'[q]
      BY <2>2
    <3>2. CASE q = p
      BY <3>1, <3>2
    <3>3. CASE q # p
      <4>1. r \in allocated[q]
        BY <1>3, <3>1, <3>3
      <4>2. r \in KnownRows
        BY <4>1, RowIsKnown
      <4> QED
        BY <4>2
    <3> QED
      BY <3>2, <3>3
  <2>3. CASE \E b \in Files' : r \in b.rows
    <3>1. PICK b \in Files' : r \in b.rows
      BY <2>3
    <3>2. b \in Files => r \in KnownRows
      BY <3>1, RowIsKnown
    <3>3. r \in KnownRows
      BY <1>8, <3>1, <3>2
    <3> QED
      BY <3>3
  <2> QED
    BY <2>1, <2>2, <2>3
<1>11. RowsAgree'
  BY <1>1, <1>10 DEF RowsAgree
<1>12. IndexGivenOnce'
  BY <1>1 DEF IndexGivenOnce
<1> QED
  BY <1>2, <1>6, <1>7, <1>9, <1>11, <1>12 DEF WalletsInv
-----------------------------------------------------------------------------
(* A step which changes a wallet's record, or an export, and no row.       *)
LEMMA WalletEdited ==
  ASSUME WalletsInv, NEW p \in Panels,
         cryptoWallet' \in [Panels -> CryptoWallets \union {NoWallet}],
         \A q \in Panels \ {p} : cryptoWallet'[q] = cryptoWallet[q] /\ exporting'[q] = exporting[q],
         history' = history, allocated' = allocated,
         DOMAIN exporting' = Panels, exporting'[p] \in Backups \union {NoBackup},
         cryptoWallet'[p].id = cryptoWallet[p].id, cryptoWallet[p].next <= cryptoWallet'[p].next,
         cryptoWallet'[p].next - cryptoWallet'[p].reserved
           = cryptoWallet[p].next - cryptoWallet[p].reserved,
         cryptoWallet'[p].enabled => p = charge.at /\ charge'.informed,
         given' = given, born' = born, backups' \in SUBSET Backups,
         charge' \in [at : Panels, informed : BOOLEAN], charge'.at = charge.at,
         charge.informed => charge'.informed,
         charge'.informed => charge.informed \/
           (p = charge.at /\ WalletAt(p)
              /\ \A q \in Panels \ {p} : Shown(q) <= cryptoWallet'[p].next),
         \A b \in backups' \union {exporting'[p]} :
            b \in Files \/ (BackupSound(b) /\ \A r \in b.rows : r \in KnownRows)
  PROVE  WalletsInv'
<1> DEFINE v == cryptoWallet[p]
<1>1. /\ CryptoWalletsTypeOK /\ PanelSound(p) /\ DOMAIN history = Panels
      /\ DOMAIN allocated = Panels /\ DOMAIN exporting = Panels
  BY DEF WalletsInv
<1>2. PICK w \in CryptoWallets \union {NoWallet} : cryptoWallet'[p] = w
  OBVIOUS
<1>0. /\ w.id = v.id /\ v.next <= w.next /\ w.next - w.reserved = v.next - v.reserved
      /\ charge'.informed => charge.informed \/
           (p = charge.at /\ WalletAt(p) /\ \A q \in Panels \ {p} : Shown(q) <= w.next)
  BY <1>2
<1>3. /\ WalletAt(p)' <=> WalletAt(p)
      /\ HighWater(p)' = HighWater(p) /\ \A id : RowsOf(p, id)' = RowsOf(p, id)
  BY <1>0, <1>2 DEF WalletAt, HighWater, RowsOf
<1>4. /\ v \in CryptoWallets \union {NoWallet}
      /\ v.next \in WalletNumbers /\ w.next \in WalletNumbers
      /\ v.reserved \in Int /\ w.reserved \in Int
      /\ \A i \in WalletNumbers : i \in Int
  <2>1. NoWallet.next \in WalletNumbers /\ NoWallet.reserved \in Int
    BY CryptoWalletsAssumption DEF NoWallet, WalletNumbers
  <2>2. \A c \in CryptoWallets : c.next \in WalletNumbers /\ c.reserved \in Int
    BY CryptoWalletsAssumption DEF CryptoWallets, WalletNumbers
  <2>3. v \in CryptoWallets \union {NoWallet}
    BY <1>1 DEF CryptoWalletsTypeOK
  <2>4. \A i \in WalletNumbers : i \in Int
    BY CryptoWalletsAssumption DEF WalletNumbers
  <2> QED
    BY <2>1, <2>2, <2>3, <2>4
<1>5. /\ Shown(p)' = IF WalletAt(p) THEN w.next ELSE HighWater(p)
      /\ Shown(p) = IF WalletAt(p) THEN v.next ELSE HighWater(p)
  BY <1>2, <1>3 DEF Shown
<1>6. /\ Shown(p)' \in WalletNumbers /\ Shown(p) \in WalletNumbers /\ Shown(p) <= Shown(p)'
      /\ \A i \in WalletNumbers : i \in Int
  <2>1. HighWater(p) \in WalletNumbers /\ HighWater(p) \in Int
    BY <1>4, PanelFacts
  <2>2. HighWater(p) <= HighWater(p)
    BY <2>1
  <2> QED
    BY <1>0, <1>4, <1>5, <2>1, <2>2
<1>7. PanelSound(p)'
  <2>1. \A r \in allocated[p] : r.index < Shown(p)' /\ r.wallet <= born'
    <3>1. \A r \in allocated[p] : r.index < Shown(p) /\ r.wallet <= born /\ r.index \in Int
      BY <1>1, CryptoWalletsAssumption DEF PanelSound, CryptoWalletsTypeOK, AddressRows, Indices
    <3> QED
      BY <1>6, <3>1
  <2>2. WalletAt(p)' => /\ w.id \in DOMAIN history[p] /\ ~history[p][w.id].deleted
                        /\ w.next = w.reserved + Cardinality(RowsOf(p, w.id))'
    <3> SUFFICES ASSUME WalletAt(p)
                 PROVE  /\ w.id \in DOMAIN history[p] /\ ~history[p][w.id].deleted
                        /\ w.next = w.reserved + Cardinality(RowsOf(p, w.id))
      BY <1>3
    <3>1. /\ v.id \in DOMAIN history[p] /\ ~history[p][v.id].deleted
          /\ v.next = v.reserved + Cardinality(RowsOf(p, v.id))
      BY <1>1 DEF PanelSound
    <3>2. RowsOf(p, v.id) \subseteq allocated[p]
      BY DEF RowsOf
    <3>3. Cardinality(RowsOf(p, v.id)) \in Int
      <4>1. /\ \A r, s \in RowsOf(p, v.id) : r.index = s.index => r = s
            /\ \A r \in RowsOf(p, v.id) : r.index \in Nat /\ r.index < Shown(p)
        BY <1>1, <3>2, CryptoWalletsAssumption
           DEF PanelSound, CryptoWalletsTypeOK, AddressRows, Indices
      <4>2. Shown(p) \in Nat
        BY <1>6, CryptoWalletsAssumption DEF WalletNumbers
      <4>3. Cardinality(RowsOf(p, v.id)) \in 0 .. Shown(p)
        BY <4>1, <4>2, RowsCounted
      <4> QED
        BY <4>3
    <3> DEFINE k == Cardinality(RowsOf(p, v.id))
    <3> HIDE DEF k
    <3>4. k \in Int /\ v.next = v.reserved + k
      BY <3>1, <3>3 DEF k
    <3>5. v.next \in Int /\ w.next \in Int
      BY <1>4
    <3>6. w.next = w.reserved + k
      BY <1>0, <1>4, <3>4, <3>5
    <3> QED
      BY <1>0, <3>1, <3>6 DEF k
  <2> QED
    BY <1>1, <1>2, <2>1, <2>2 DEF PanelSound
<1>8. /\ history'[p] = history[p] /\ allocated'[p] = allocated[p]
      /\ \A q \in Panels \ {p} :
           /\ cryptoWallet'[q] = cryptoWallet[q] /\ history'[q] = history[q]
           /\ allocated'[q] = allocated[q] /\ exporting'[q] = exporting[q]
  OBVIOUS
<1>9. /\ DOMAIN history[p] \subseteq WalletIds
      /\ \A i \in DOMAIN history[p] : history[p][i] \in HistoryRows
      /\ allocated[p] \in SUBSET AddressRows /\ born' \in born .. MaxWallets
  BY <1>1, CryptoWalletsAssumption DEF CryptoWalletsTypeOK
<1>10. \A r \in allocated[p] : \E s \in KnownRows : s.index = r.index /\ s.network = r.network
  <2>1. \A r \in allocated[p] : r \in KnownRows
    BY RowIsKnown
  <2> QED
    BY <2>1
<1>11. charge'.informed => charge.informed \/
          (p = charge.at /\ \A q \in Panels \ {p} : Shown(q) <= Shown(p)')
  BY <1>0, <1>5
<1>12. \A b \in backups' \union {exporting'[p]} :
          b \in Files \/ (BackupSound(b)' /\ \A r \in b.rows : r \in KnownRows)
  BY DEF BackupSound
<1>13. DOMAIN history' = Panels /\ DOMAIN allocated' = Panels /\ DOMAIN exporting' = Panels
  BY <1>1
<1> QED
  BY <1>6, <1>7, <1>8, <1>9, <1>10, <1>11, <1>12, <1>13, WalletStep

(* The files there were are sound, and no wallet is only NoWallet.         *)
LEMMA FilesKept ==
  ASSUME WalletsInv, NEW p \in Panels
  PROVE  /\ backups \in SUBSET Backups /\ exporting[p] \in Backups \union {NoBackup}
         /\ DOMAIN exporting = Panels
         /\ \A b \in backups \union {exporting[p]} : b \in Files
         /\ BackupSound(NoBackup) /\ \A r \in NoBackup.rows : r \in KnownRows
<1>1. CryptoWalletsTypeOK /\ DOMAIN exporting = Panels
  BY DEF WalletsInv
<1>2. BackupSound(NoBackup) /\ \A r \in NoBackup.rows : r \in KnownRows
  BY <1>1, CryptoWalletsAssumption DEF BackupSound, NoBackup, CryptoWalletsTypeOK
<1> QED
  BY <1>1, <1>2 DEF CryptoWalletsTypeOK, Files

(* The wallet that a step leaves at a panel.                               *)
LEMMA WalletOf ==
  ASSUME WalletsInv, NEW p \in Panels, NEW w \in CryptoWallets \union {NoWallet},
         WalletBecomes(p, w)
  PROVE  /\ cryptoWallet' \in [Panels -> CryptoWallets \union {NoWallet}]
         /\ cryptoWallet'[p] = w
         /\ \A q \in Panels \ {p} : cryptoWallet'[q] = cryptoWallet[q]
<1> QED
  BY DEF WalletBecomes, WalletsInv, CryptoWalletsTypeOK

(* Its rows are of given indices, the others are reserved.                 *)
LEMMA ReservedWithin ==
  ASSUME WalletsInv, NEW p \in Panels, WalletAt(p)
  PROVE  cryptoWallet[p].reserved >= 0 /\ cryptoWallet[p].reserved <= cryptoWallet[p].next
<1> DEFINE v == cryptoWallet[p]
           k == Cardinality(RowsOf(p, v.id))
<1>1. v \in CryptoWallets /\ PanelSound(p)
  BY PanelFacts
<1>2. v.next \in Nat /\ v.reserved \in Nat
  BY <1>1, CryptoWalletsAssumption DEF CryptoWallets
<1>3. v.next = v.reserved + k
  BY <1>1 DEF PanelSound
<1>4. /\ \A r, s \in RowsOf(p, v.id) : r.index = s.index => r = s
      /\ \A r \in RowsOf(p, v.id) : r.index \in Nat /\ r.index < v.next
  <2>1. RowsOf(p, v.id) \subseteq allocated[p] /\ Shown(p) = v.next
    BY DEF RowsOf, Shown
  <2>2. \A r \in allocated[p] : r.index \in Nat
    BY CryptoWalletsAssumption DEF WalletsInv, CryptoWalletsTypeOK, AddressRows, Indices
  <2> QED
    BY <1>1, <2>1, <2>2 DEF PanelSound
<1>5. k \in 0 .. v.next
  BY <1>2, <1>4, RowsCounted
<1> HIDE DEF k
<1> QED
  BY <1>2, <1>3, <1>5

LEMMA SwitchWalletKeeps == WalletsInv /\ SwitchWallet => WalletsInv'
<1> SUFFICES ASSUME WalletsInv, SwitchWallet PROVE WalletsInv'
  OBVIOUS
<1>1. PICK p \in Panels, on \in BOOLEAN, networks \in SUBSET Networks :
        /\ WalletAt(p) /\ (on => ~cryptoWallet[p].recovery /\ charge = [at |-> p, informed |-> TRUE])
        /\ WalletBecomes(p, [cryptoWallet[p] EXCEPT !.enabled = on, !.networks = @ \union networks])
        /\ UNCHANGED <<history, allocated, exporting, backups, born, given, charge>>
  BY DEF SwitchWallet
<1> DEFINE v == cryptoWallet[p]
           w == [v EXCEPT !.enabled = on, !.networks = @ \union networks]
<1>2. v \in CryptoWallets
  BY <1>1, PanelFacts
<1>3. /\ w \in CryptoWallets /\ w.id = v.id /\ w.next = v.next /\ w.reserved = v.reserved
      /\ w.enabled = on
  BY <1>2 DEF CryptoWallets
<1>4. w \in CryptoWallets \union {NoWallet}
  BY <1>3
<1>5. /\ cryptoWallet' \in [Panels -> CryptoWallets \union {NoWallet}] /\ cryptoWallet'[p] = w
      /\ \A q \in Panels \ {p} : cryptoWallet'[q] = cryptoWallet[q]
  BY <1>1, <1>4, WalletOf
<1>6. v.next \in Int /\ v.reserved \in Int /\ v.next <= v.next
  BY <1>2, CryptoWalletsAssumption DEF CryptoWallets
<1>7. charge \in [at : Panels, informed : BOOLEAN] /\ (on => p = charge.at /\ charge.informed)
  BY <1>1 DEF WalletsInv, CryptoWalletsTypeOK
<1> HIDE DEF w
<1> QED
  BY <1>1, <1>3, <1>5, <1>6, <1>7, FilesKept, WalletEdited

LEMMA ConfirmBackupKeeps == WalletsInv /\ ConfirmBackup => WalletsInv'
<1> SUFFICES ASSUME WalletsInv, ConfirmBackup PROVE WalletsInv'
  OBVIOUS
<1>1. PICK p \in Panels :
        /\ WalletAt(p) /\ WalletBecomes(p, [cryptoWallet[p] EXCEPT !.confirmed = TRUE])
        /\ UNCHANGED <<history, allocated, exporting, backups, born, given, charge>>
  BY DEF ConfirmBackup
<1> DEFINE v == cryptoWallet[p]
           w == [v EXCEPT !.confirmed = TRUE]
<1>2. v \in CryptoWallets
  BY <1>1, PanelFacts
<1>3. /\ w \in CryptoWallets /\ w.id = v.id /\ w.next = v.next /\ w.reserved = v.reserved
      /\ w.enabled = v.enabled
  BY <1>2 DEF CryptoWallets
<1>4. w \in CryptoWallets \union {NoWallet}
  BY <1>3
<1>5. /\ cryptoWallet' \in [Panels -> CryptoWallets \union {NoWallet}] /\ cryptoWallet'[p] = w
      /\ \A q \in Panels \ {p} : cryptoWallet'[q] = cryptoWallet[q]
  BY <1>1, <1>4, WalletOf
<1>6. v.next \in Int /\ v.reserved \in Int /\ v.next <= v.next
  BY <1>2, CryptoWalletsAssumption DEF CryptoWallets
<1>7. charge \in [at : Panels, informed : BOOLEAN] /\ (v.enabled => p = charge.at /\ charge.informed)
  BY <1>1 DEF WalletsInv, CryptoWalletsTypeOK, PanelSound
<1> HIDE DEF w
<1> QED
  BY <1>1, <1>3, <1>5, <1>6, <1>7, FilesKept, WalletEdited

LEMMA AcknowledgeRecoveryKeeps == WalletsInv /\ AcknowledgeRecovery => WalletsInv'
<1> SUFFICES ASSUME WalletsInv, AcknowledgeRecovery PROVE WalletsInv'
  OBVIOUS
<1>1. PICK p \in Panels, n \in 0 .. IndexLimit :
        /\ WalletAt(p) /\ p = charge.at /\ n >= cryptoWallet[p].next
        /\ charge.informed \/ NothingNewer(p, n)
        /\ WalletBecomes(p, [cryptoWallet[p] EXCEPT !.next = n, !.reserved = @ + n - cryptoWallet[p].next,
                                                    !.recovery = FALSE, !.enabled = FALSE])
        /\ charge' = [charge EXCEPT !.informed = TRUE]
        /\ UNCHANGED <<history, allocated, exporting, backups, born, given>>
  BY DEF AcknowledgeRecovery
<1> DEFINE v == cryptoWallet[p]
           reserved == v.reserved + n - v.next
           w == [v EXCEPT !.next = n, !.reserved = reserved, !.recovery = FALSE, !.enabled = FALSE]
<1>2. /\ v \in CryptoWallets /\ v.next \in Int /\ v.reserved \in Int /\ v.next <= n /\ IndexLimit \in Nat
  BY <1>1, PanelFacts, CryptoWalletsAssumption DEF CryptoWallets
<1>3. reserved \in 0 .. IndexLimit /\ n - reserved = v.next - v.reserved
  <2>1. v.reserved >= 0 /\ v.reserved <= v.next
    BY <1>1, ReservedWithin
  <2> QED
    BY <1>2, <2>1
<1>4. WalletBecomes(p, w)
  BY <1>1, <1>2 DEF CryptoWallets
<1> HIDE DEF reserved
<1>5. /\ w \in CryptoWallets /\ w.id = v.id /\ w.next = n /\ w.reserved = reserved
      /\ w.enabled = FALSE
  BY <1>2, <1>3 DEF CryptoWallets
<1>6. w \in CryptoWallets \union {NoWallet}
  BY <1>5
<1> HIDE DEF w
<1>7. /\ cryptoWallet' \in [Panels -> CryptoWallets \union {NoWallet}] /\ cryptoWallet'[p] = w
      /\ \A q \in Panels \ {p} : cryptoWallet'[q] = cryptoWallet[q]
  BY <1>4, <1>6, WalletOf
<1>8. /\ charge' \in [at : Panels, informed : BOOLEAN] /\ charge'.at = charge.at
      /\ charge'.informed
  BY <1>1 DEF WalletsInv, CryptoWalletsTypeOK
<1>9. charge.informed \/ \A q \in Panels \ {p} : Shown(q) <= n
  BY <1>1 DEF NothingNewer
<1> QED
  BY <1>1, <1>2, <1>3, <1>5, <1>7, <1>8, <1>9, FilesKept, WalletEdited

LEMMA ReadBackupKeeps == WalletsInv /\ ReadBackup => WalletsInv'
<1> SUFFICES ASSUME WalletsInv, ReadBackup PROVE WalletsInv'
  OBVIOUS
<1>1. PICK p \in Panels :
        /\ WalletAt(p)
        /\ exporting' = [exporting EXCEPT ![p] =
             [id |-> cryptoWallet[p].id, hot |-> cryptoWallet[p].hot, next |-> cryptoWallet[p].next,
              networks |-> cryptoWallet[p].networks, rows |-> RowsOf(p, cryptoWallet[p].id)]]
        /\ UNCHANGED <<cryptoWallet, history, allocated, backups, born, given, charge>>
  BY DEF ReadBackup
<1> DEFINE v == cryptoWallet[p]
           b == [id |-> v.id, hot |-> v.hot, next |-> v.next, networks |-> v.networks,
                 rows |-> RowsOf(p, v.id)]
<1>2. /\ v \in CryptoWallets /\ v.next \in Int /\ v.reserved \in Int /\ PanelSound(p)
      /\ v.id <= born /\ born \in Nat
  BY <1>1, PanelFacts, CryptoWalletsAssumption DEF CryptoWallets
<1>3. RowsOf(p, v.id) \subseteq allocated[p] /\ allocated[p] \subseteq AddressRows
  BY DEF RowsOf, WalletsInv, CryptoWalletsTypeOK
<1>4. b \in Backups
  BY <1>2, <1>3 DEF CryptoWallets, Backups
<1>5. BackupSound(b) /\ \A r \in b.rows : r \in KnownRows
  <2>1. Shown(p) = v.next
    BY <1>1 DEF Shown
  <2>2. \A r \in RowsOf(p, v.id) : r.index < v.next /\ r.wallet <= born
    BY <1>2, <1>3, <2>1 DEF PanelSound
  <2>3. \A r \in RowsOf(p, v.id) : r \in KnownRows
    BY <1>3, RowIsKnown
  <2> QED
    BY <1>2, <2>2, <2>3 DEF BackupSound
<1> HIDE DEF b
<1>6. DOMAIN exporting' = Panels /\ exporting'[p] = b /\ \A q \in Panels \ {p} : exporting'[q] = exporting[q]
  BY <1>1, FilesKept DEF b
<1>7. /\ charge \in [at : Panels, informed : BOOLEAN]
      /\ cryptoWallet \in [Panels -> CryptoWallets \union {NoWallet}]
      /\ (v.enabled => p = charge.at /\ charge.informed)
  BY <1>2 DEF WalletsInv, CryptoWalletsTypeOK, PanelSound
<1>8. v.next <= v.next
  BY <1>2
<1> QED
  BY <1>1, <1>2, <1>4, <1>5, <1>6, <1>7, <1>8, FilesKept, WalletEdited

LEMMA NoWalletKept == [NoWallet EXCEPT !.exported = FALSE] = NoWallet
<1> DEFINE Blank == [id : {0}, hot : BOOLEAN, enabled : BOOLEAN, next : {0}, reserved : {0},
                     networks : {{}}, exported : BOOLEAN, confirmed : BOOLEAN, recovery : BOOLEAN]
<1>1. NoWallet \in Blank /\ NoWallet.exported = FALSE
  BY DEF NoWallet
<1>2. \A r \in Blank : r.exported = FALSE => [r EXCEPT !.exported = FALSE] = r
  OBVIOUS
<1> QED
  BY <1>1, <1>2

LEMMA MarkBackupKeeps == WalletsInv /\ MarkBackup => WalletsInv'
<1> SUFFICES ASSUME WalletsInv, MarkBackup PROVE WalletsInv'
  OBVIOUS
<1>1. PICK p \in Panels, arrives \in BOOLEAN :
        /\ exporting[p] # NoBackup
        /\ cryptoWallet' = [cryptoWallet EXCEPT ![p].exported = @ \/ cryptoWallet[p].id = exporting[p].id]
        /\ backups' = IF arrives THEN backups \union {exporting[p]} ELSE backups
        /\ exporting' = [exporting EXCEPT ![p] = NoBackup]
        /\ UNCHANGED <<history, allocated, born, given, charge>>
  BY DEF MarkBackup
<1> DEFINE v == cryptoWallet[p]
           exported == v.exported \/ v.id = exporting[p].id
           w == [v EXCEPT !.exported = exported]
<1>2. /\ v \in CryptoWallets \union {NoWallet} /\ exporting[p] \in Backups
      /\ DOMAIN exporting = Panels /\ cryptoWallet \in [Panels -> CryptoWallets \union {NoWallet}]
      /\ charge \in [at : Panels, informed : BOOLEAN]
      /\ (v.enabled => p = charge.at /\ charge.informed)
  BY <1>1, FilesKept DEF WalletsInv, CryptoWalletsTypeOK, PanelSound
<1>3. cryptoWallet' = [cryptoWallet EXCEPT ![p] = w]
  BY <1>1, <1>2
<1>4. exported \in BOOLEAN
  BY <1>2 DEF CryptoWallets, NoWallet
<1>5. /\ w \in CryptoWallets \union {NoWallet} /\ w.id = v.id /\ w.next = v.next
      /\ w.reserved = v.reserved /\ w.enabled = v.enabled
  <2>1. CASE v \in CryptoWallets
    <3> HIDE DEF exported
    <3> QED
      BY <1>4, <2>1 DEF CryptoWallets
  <2>2. CASE v = NoWallet
    <3>1. exporting[p].id > 0 /\ v.id = 0 /\ v.exported = FALSE
      BY <1>2, <2>2, CryptoWalletsAssumption DEF Backups, WalletIds, NoWallet
    <3>2. exported = FALSE
      BY <1>2, <3>1
    <3> HIDE DEF exported
    <3>3. w = [NoWallet EXCEPT !.exported = FALSE]
      BY <2>2, <3>2
    <3>4. [NoWallet EXCEPT !.exported = FALSE] = NoWallet
      BY NoWalletKept
    <3> QED
      BY <2>2, <3>3, <3>4
  <2> QED
    BY <1>2, <2>1, <2>2
<1> HIDE DEF w
<1>6. /\ cryptoWallet' \in [Panels -> CryptoWallets \union {NoWallet}] /\ cryptoWallet'[p] = w
      /\ \A q \in Panels \ {p} : cryptoWallet'[q] = cryptoWallet[q]
  BY <1>2, <1>3, <1>5
<1>7. /\ DOMAIN exporting' = Panels /\ exporting'[p] = NoBackup
      /\ \A q \in Panels \ {p} : exporting'[q] = exporting[q]
  BY <1>1, <1>2
<1>8. v.next \in Int /\ v.reserved \in Int /\ v.next <= v.next
  BY <1>2, CryptoWalletsAssumption DEF CryptoWallets, NoWallet
<1>9. backups' \in SUBSET Backups /\ \A b \in backups' : b \in Files
  BY <1>1, <1>2, FilesKept
<1> QED
  BY <1>1, <1>2, <1>5, <1>6, <1>7, <1>8, <1>9, FilesKept, WalletEdited
-----------------------------------------------------------------------------
(* Wallets that come and go.                                               *)

LEMMA HighWaterNext ==
  ASSUME NEW p \in Panels, \A i \in DOMAIN history'[p] : history'[p][i].next \in WalletNumbers
  PROVE  /\ HighWater(p)' \in WalletNumbers
         /\ \A i \in DOMAIN history'[p] : history'[p][i].next <= HighWater(p)'
<1> PICK h : h = history'[p]
  OBVIOUS
<1>1. \A i \in DOMAIN h : h[i].next \in WalletNumbers
  OBVIOUS
<1>2. HighWater(p)' = Max({0} \union {h[i].next : i \in DOMAIN h})
  BY DEF HighWater
<1>3. LET m == Max({0} \union {h[i].next : i \in DOMAIN h})
      IN /\ m \in WalletNumbers
         /\ \A i \in DOMAIN h : h[i].next <= m
         /\ m > 0 => DOMAIN h # {}
  BY <1>1, HighWaterIs
<1> QED
  BY <1>2, <1>3

LEMMA DeleteWalletKeeps == WalletsInv /\ DeleteWallet => WalletsInv'
<1> SUFFICES ASSUME WalletsInv, DeleteWallet PROVE WalletsInv'
  OBVIOUS
<1>1. PICK p \in Panels :
        /\ WalletAt(p)
        /\ history' = [history EXCEPT ![p][cryptoWallet[p].id] = Buried(@, cryptoWallet[p])]
        /\ WalletBecomes(p, NoWallet)
        /\ UNCHANGED <<allocated, exporting, backups, born, given, charge>>
  BY DEF DeleteWallet
<1> DEFINE v == cryptoWallet[p]
           old == history[p]
           row == Buried(old[v.id], v)
           h == [old EXCEPT ![v.id] = row]
<1>2. /\ v \in CryptoWallets /\ PanelSound(p) /\ v.id \in DOMAIN old /\ old[v.id] \in HistoryRows
      /\ DOMAIN history = Panels /\ DOMAIN allocated = Panels /\ DOMAIN exporting = Panels
  BY <1>1, PanelFacts DEF PanelSound, WalletsInv
<1>3. row \in HistoryRows /\ v.next <= row.next /\ v.next \in WalletNumbers
  BY <1>2, CryptoWalletsAssumption DEF Buried, HistoryRows, Greater, CryptoWallets, WalletNumbers
<1>4. history'[p] = h /\ DOMAIN history' = Panels /\ \A q \in Panels \ {p} : history'[q] = history[q]
  BY <1>1, <1>2
<1> HIDE DEF row
<1>5. /\ DOMAIN h = DOMAIN old /\ h[v.id] = row
      /\ \A i \in DOMAIN h : i \in WalletIds /\ h[i] \in HistoryRows /\ h[i].next \in WalletNumbers
  <2>1. \A i \in DOMAIN old : i \in WalletIds /\ old[i] \in HistoryRows
    BY PanelFacts
  <2>2. \A i \in DOMAIN h : h[i] = IF i = v.id THEN row ELSE old[i]
    OBVIOUS
  <2>3. \A i \in DOMAIN h : h[i] \in HistoryRows /\ i \in WalletIds
    BY <1>3, <2>1, <2>2
  <2>4. \A k \in HistoryRows : k.next \in WalletNumbers
    BY DEF HistoryRows, WalletNumbers
  <2> QED
    BY <1>2, <2>2, <2>3, <2>4
<1> HIDE DEF h
<1>6. HighWater(p)' \in WalletNumbers /\ row.next <= HighWater(p)'
  BY <1>2, <1>4, <1>5, HighWaterNext
<1>7. /\ cryptoWallet' \in [Panels -> CryptoWallets \union {NoWallet}]
      /\ cryptoWallet'[p] = NoWallet /\ \A q \in Panels \ {p} : cryptoWallet'[q] = cryptoWallet[q]
  BY <1>1, WalletOf
<1>8. ~WalletAt(p)' /\ Shown(p)' = HighWater(p)' /\ Shown(p) = v.next
  BY <1>1, <1>7 DEF WalletAt, Shown, NoWallet
<1>9. /\ Shown(p) <= Shown(p)' /\ Shown(p)' \in WalletNumbers
      /\ \A i \in WalletNumbers : i \in Int
  <2>1. \A i \in WalletNumbers : i \in Int
    BY CryptoWalletsAssumption DEF WalletNumbers
  <2>2. row.next \in WalletNumbers
    BY <1>3 DEF HistoryRows, WalletNumbers
  <2> QED
    BY <1>3, <1>6, <1>8, <2>1, <2>2
<1>10. PanelSound(p)'
  <2>1. \A r \in allocated[p] : r.index < Shown(p)' /\ r.wallet <= born
    <3>1. \A r \in allocated[p] : r.index < Shown(p) /\ r.wallet <= born /\ r.index \in Int
      BY <1>2, CryptoWalletsAssumption DEF PanelSound, WalletsInv, CryptoWalletsTypeOK, AddressRows, Indices
    <3>2. Shown(p) \in Int /\ Shown(p)' \in Int
      BY <1>3, <1>8, <1>9
    <3> QED
      BY <1>9, <3>1, <3>2
  <2>2. cryptoWallet'[p].enabled = FALSE
    BY <1>7 DEF NoWallet
  <2> QED
    BY <1>1, <1>2, <1>4, <1>5, <1>8, <2>1, <2>2 DEF PanelSound
<1>11. /\ charge \in [at : Panels, informed : BOOLEAN] /\ born \in born .. MaxWallets
       /\ allocated[p] \in SUBSET AddressRows
  BY CryptoWalletsAssumption DEF WalletsInv, CryptoWalletsTypeOK
<1>12. \A r \in allocated[p] : \E s \in KnownRows : s.index = r.index /\ s.network = r.network
  BY RowIsKnown
<1>13. /\ history'[p] = h /\ DOMAIN h \subseteq WalletIds /\ DOMAIN old = DOMAIN h
       /\ \A i \in DOMAIN h : h[i] \in HistoryRows
  BY <1>4, <1>5
<1> HIDE DEF old
<1>14. DOMAIN history[p] \subseteq DOMAIN history'[p]
  BY <1>13 DEF old
<1> QED
  BY <1>1, <1>2, <1>4, <1>7, <1>9, <1>10, <1>11, <1>12, <1>13, <1>14, FilesKept, WalletStep

(* A panel without a wallet gets one whose next index is no less than all  *)
(* it has had: created, or restored with rows it did not have.             *)
LEMMA WalletComes ==
  ASSUME WalletsInv, NEW p \in Panels, ~WalletAt(p), NEW w \in CryptoWallets, NEW row \in HistoryRows,
         WalletBecomes(p, w), w.id <= born', row.next = w.next, row.deleted = FALSE,
         HighWater(p) <= w.next,
         history' = [history EXCEPT ![p] = Put(@, w.id, row)],
         DOMAIN allocated' = Panels, \A q \in Panels \ {p} : allocated'[q] = allocated[q],
         allocated'[p] \in SUBSET AddressRows,
         \A r, s \in allocated'[p] : r.index = s.index => r = s,
         \A r \in allocated'[p] : r.index < w.next /\ r.wallet <= born',
         \A r \in allocated'[p] : \E s \in KnownRows : s.index = r.index /\ s.network = r.network,
         w.next = w.reserved + Cardinality({r \in allocated'[p] : r.wallet = w.id}),
         w.enabled => p = charge.at /\ charge'.informed,
         UNCHANGED <<exporting, backups, given>>, born' \in born .. MaxWallets,
         charge' \in [at : Panels, informed : BOOLEAN], charge'.at = charge.at,
         charge.informed => charge'.informed,
         charge'.informed => charge.informed \/
           (p = charge.at /\ \A q \in Panels \ {p} : Shown(q) <= w.next)
  PROVE  WalletsInv'
<1>1. /\ cryptoWallet' \in [Panels -> CryptoWallets \union {NoWallet}]
      /\ cryptoWallet'[p] = w /\ \A q \in Panels \ {p} : cryptoWallet'[q] = cryptoWallet[q]
  <2>1. w \in CryptoWallets \union {NoWallet}
    OBVIOUS
  <2> QED
    BY <2>1, WalletOf
<1>2. /\ PanelSound(p) /\ DOMAIN history = Panels /\ DOMAIN exporting = Panels
  BY DEF WalletsInv
<1>3. w.id > 0 /\ w.id \in WalletIds /\ w.next \in WalletNumbers /\ born \in Int /\ born' \in Int
  BY CryptoWalletsAssumption DEF CryptoWallets, WalletIds, WalletNumbers, WalletsInv, CryptoWalletsTypeOK
<1>4. /\ history'[p] = Put(history[p], w.id, row) /\ DOMAIN history' = Panels
      /\ \A q \in Panels \ {p} : history'[q] = history[q]
  BY <1>2
<1>5. /\ DOMAIN history'[p] = DOMAIN history[p] \union {w.id} /\ history'[p][w.id] = row
      /\ \A i \in DOMAIN history'[p] : i \in WalletIds /\ history'[p][i] \in HistoryRows
  <2>1. \A i \in DOMAIN history[p] : i \in WalletIds /\ history[p][i] \in HistoryRows
    BY PanelFacts
  <2> PICK old : old = history[p]
    OBVIOUS
  <2> DEFINE h == Put(old, w.id, row)
  <2>2. /\ DOMAIN h = DOMAIN old \union {w.id} /\ h[w.id] = row
        /\ \A j \in DOMAIN old : j # w.id => h[j] = old[j]
    BY DEF Put
  <2>3. history'[p] = h
    BY <1>4
  <2> HIDE DEF h
  <2>4. \A i \in DOMAIN h : i \in WalletIds /\ h[i] \in HistoryRows
    BY <1>3, <2>1, <2>2
  <2> QED
    BY <2>2, <2>3, <2>4
<1>6. /\ WalletAt(p)' /\ Shown(p)' = w.next /\ Shown(p) = HighWater(p)
  BY <1>1, <1>3 DEF WalletAt, Shown
<1>7. /\ Shown(p) <= Shown(p)' /\ Shown(p)' \in WalletNumbers
  BY <1>3, <1>6
<1>8. PanelSound(p)'
  <2>1. DOMAIN history'[p] \subseteq 1 .. born'
    <3>1. DOMAIN history[p] \subseteq 1 .. born /\ born <= born'
      BY <1>2, <1>3 DEF PanelSound
    <3>2. w.id \in 1 .. born'
      BY <1>3 DEF WalletIds
    <3> QED
      BY <1>3, <1>5, <3>1, <3>2
  <2>2. RowsOf(p, cryptoWallet[p].id)' = {r \in allocated'[p] : r.wallet = w.id}
    BY <1>1 DEF RowsOf
  <2>3. ~history'[p][w.id].deleted
    BY <1>5
  <2>4. w.next = w.reserved + Cardinality(RowsOf(p, cryptoWallet[p].id)')
    BY <2>2
  <2>5. \A r \in allocated'[p] : r.index < Shown(p)' /\ r.wallet <= born'
    BY <1>6
  <2>6. w.enabled => p = charge'.at /\ charge'.informed
    OBVIOUS
  <2> QED
    BY <1>1, <1>5, <2>1, <2>3, <2>4, <2>5, <2>6 DEF PanelSound
<1>9. charge'.informed => charge.informed \/
           (p = charge.at /\ \A q \in Panels \ {p} : Shown(q) <= Shown(p)')
  BY <1>6
<1>10. /\ \A i \in DOMAIN history'[p] : history'[p][i] \in HistoryRows
       /\ DOMAIN history'[p] \subseteq WalletIds /\ DOMAIN history[p] \subseteq DOMAIN history'[p]
  BY <1>5
<1> QED
  BY <1>1, <1>2, <1>4, <1>7, <1>8, <1>9, <1>10, FilesKept, WalletStep

LEMMA CreateWalletKeeps == WalletsInv /\ CreateWallet => WalletsInv'
<1> SUFFICES ASSUME WalletsInv, CreateWallet PROVE WalletsInv'
  OBVIOUS
<1>1. PICK p \in Panels, hot \in BOOLEAN, import \in BOOLEAN,
             networks \in SUBSET Networks \ {{}} :
        LET seen == DOMAIN history[p] # {}
            paused == import \/ seen
        IN /\ born < MaxWallets /\ ~WalletAt(p) /\ (hot \/ "solana" \notin networks)
           /\ import \/ (p = charge.at /\ \A q \in Panels \ {p} : DOMAIN history[q] = {})
           /\ born' = born + 1
           /\ InsertWallet(p, [NoWallet EXCEPT
                !.id = born + 1, !.hot = hot, !.enabled = ~paused, !.recovery = paused,
                !.networks = networks, !.next = HighWater(p), !.confirmed = ~hot])
           /\ UNCHANGED <<allocated, exporting, backups, given, charge>>
  BY DEF CreateWallet
<1> DEFINE n == HighWater(p)
           paused == import \/ DOMAIN history[p] # {}
           v == [NoWallet EXCEPT !.id = born + 1, !.hot = hot, !.enabled = ~paused,
                   !.recovery = paused, !.networks = networks, !.next = n, !.confirmed = ~hot]
           u == [v EXCEPT !.reserved = v.next]
<1>2. /\ n \in WalletNumbers /\ born + 1 \in WalletIds /\ born \in Nat /\ MaxWallets \in Nat
      /\ PanelSound(p) /\ DOMAIN allocated = Panels /\ charge \in [at : Panels, informed : BOOLEAN]
      /\ allocated[p] \in SUBSET AddressRows
  BY <1>1, PanelFacts, CryptoWalletsAssumption DEF WalletsInv, CryptoWalletsTypeOK, WalletIds
<1>3. paused \in BOOLEAN /\ (~paused) \in BOOLEAN /\ (~hot) \in BOOLEAN
  OBVIOUS
<1>4. ~paused => p = charge.at /\ charge.informed
  BY <1>1 DEF WalletsInv, Remembered
<1>5. WalletBecomes(p, u) /\ history' = [history EXCEPT ![p] = Put(@, v.id, [next |-> v.next, deleted |-> FALSE])]
  BY <1>1 DEF InsertWallet
<1> HIDE DEF n, paused
<1>6. /\ v.id = born + 1 /\ v.next = n /\ u \in CryptoWallets /\ u.id = born + 1 /\ u.next = n
      /\ u.reserved = n /\ u.enabled = ~paused
  BY <1>2, <1>3 DEF NoWallet, CryptoWallets, WalletNumbers
<1>7. PICK row \in HistoryRows : row = [next |-> n, deleted |-> FALSE]
  BY <1>2 DEF HistoryRows, WalletNumbers
<1>8. history' = [history EXCEPT ![p] = Put(@, born + 1, row)]
  BY <1>5, <1>6, <1>7
<1> HIDE DEF u
<1>9. PICK w \in CryptoWallets : w = u
  BY <1>6
<1>10. /\ w.id = born + 1 /\ w.next = n /\ w.reserved = n /\ w.enabled = ~paused /\ WalletBecomes(p, w)
       /\ row.next = n /\ row.deleted = FALSE
  BY <1>5, <1>6, <1>7, <1>9
<1>11. /\ HighWater(p) <= n /\ n \in Int
       /\ \A r \in allocated[p] : r.index < n /\ r.wallet <= born /\ r.wallet \in Int
  BY <1>1, <1>2, CryptoWalletsAssumption
     DEF n, WalletNumbers, PanelSound, Shown, AddressRows, WalletIds
<1>12. {r \in allocated[p] : r.wallet = w.id} = {}
  BY <1>2, <1>10, <1>11
<1>13. w.next = w.reserved + Cardinality({r \in allocated'[p] : r.wallet = w.id})
  <2>1. Cardinality({}) = 0
    BY FS_EmptySet
  <2>2. allocated' = allocated
    BY <1>1
  <2>3. {r \in allocated'[p] : r.wallet = w.id} = {}
    BY <1>12, <2>2
  <2>4. Cardinality({r \in allocated'[p] : r.wallet = w.id}) = 0
    BY <2>1, <2>3
  <2> QED
    BY <1>10, <1>11, <2>4
<1>14. \A r \in allocated[p] : \E s \in KnownRows : s.index = r.index /\ s.network = r.network
  BY RowIsKnown
<1>15. /\ born' \in born .. MaxWallets /\ w.id <= born'
       /\ \A r \in allocated[p] : r.wallet <= born'
  BY <1>1, <1>2, <1>10, <1>11
<1>16. \A r, s \in allocated[p] : r.index = s.index => r = s
  BY <1>2 DEF PanelSound
<1>17. history' = [history EXCEPT ![p] = Put(@, w.id, row)] /\ row.next = w.next
  BY <1>8, <1>10
<1>18. allocated' = allocated /\ charge' = charge /\ UNCHANGED <<exporting, backups, given>>
  BY <1>1
<1>19. \A r \in allocated[p] : r.index < w.next
  BY <1>10, <1>11
<1>20. w.enabled => p = charge.at /\ charge.informed
  BY <1>4, <1>10
<1>21. HighWater(p) <= w.next
  BY <1>10, <1>11
<1> HIDE DEF v, n, paused
<1> QED
  BY <1>1, <1>2, <1>10, <1>13, <1>14, <1>15, <1>16, <1>17, <1>18, <1>19, <1>20, <1>21, WalletComes

(* What a restore adds to a panel's rows.                                  *)
RowsKept(rows, id, n) ==
  /\ rows \in SUBSET AddressRows
  /\ \A r, s \in rows : r.index = s.index => r = s
  /\ \A r \in rows : r.index < n /\ r.wallet <= born
  /\ \A r \in rows : \E s \in KnownRows : s.index = r.index /\ s.network = r.network
  /\ Cardinality({r \in rows : r.wallet = id}) \in 0 .. n

LEMMA RestoredRows ==
  ASSUME WalletsInv, NEW p \in Panels, NEW b \in backups, NEW id \in WalletIds, id <= born,
         NEW n \in WalletNumbers, b.next <= n, Shown(p) <= n, Acceptable(p, b, id)
  PROVE  RowsKept(allocated[p] \union Adopted(b, id), id, n)
<1> DEFINE rows == allocated[p] \union Adopted(b, id)
<1>1. /\ PanelSound(p) /\ BackupSound(b) /\ RowsAgree
      /\ b \in Backups /\ allocated[p] \subseteq AddressRows
      /\ born \in Nat /\ IndexLimit \in Nat
      /\ Shown(p) \in Int /\ b \in Files
  <2>1. b \in Files
    BY DEF Files
  <2>2. born \in Nat /\ IndexLimit \in Nat /\ Shown(p) \in Int
    BY PanelFacts DEF WalletNumbers
  <2> QED
    BY <2>1, <2>2 DEF WalletsInv, CryptoWalletsTypeOK
<1>2. n \in Nat /\ b.next \in Int /\ \A r \in AddressRows : r.index \in Nat
  BY <1>1 DEF WalletNumbers, Backups, AddressRows, Indices
<1>3. \A r \in Adopted(b, id) : \E x \in b.rows : r = [x EXCEPT !.wallet = id]
  BY DEF Adopted
<1>4. \A x \in AddressRows : LET r == [x EXCEPT !.wallet = id]
                             IN r \in AddressRows /\ r.wallet = id /\ r.index = x.index
                                /\ r.network = x.network
  BY DEF AddressRows
<1>5. \A x \in b.rows : /\ x \in AddressRows /\ x \in KnownRows /\ x.index < b.next
  BY <1>1, RowIsKnown DEF BackupSound, Backups
<1>6. \A r \in Adopted(b, id) : /\ r \in AddressRows /\ r.wallet = id /\ r.index < n
                                /\ \E s \in KnownRows : s.index = r.index /\ s.network = r.network
  <2> SUFFICES ASSUME NEW r \in Adopted(b, id)
               PROVE  /\ r \in AddressRows /\ r.wallet = id /\ r.index < n
                      /\ \E s \in KnownRows : s.index = r.index /\ s.network = r.network
    OBVIOUS
  <2>1. PICK x \in b.rows : r = [x EXCEPT !.wallet = id]
    BY <1>3
  <2>2. r \in AddressRows /\ r.wallet = id /\ r.index = x.index /\ r.network = x.network
    BY <1>4, <1>5, <2>1
  <2>3. x \in KnownRows /\ x.index < b.next /\ x.index \in Int
    BY <1>2, <1>5
  <2> QED
    BY <1>2, <2>2, <2>3
<1>7. \A r \in allocated[p] : /\ r \in AddressRows /\ r.index < n /\ r.wallet <= born /\ r \in KnownRows
  BY <1>1, <1>2, RowIsKnown DEF PanelSound
<1>8. rows \in SUBSET AddressRows
  BY <1>6, <1>7
<1>9. \A r \in rows : r.index < n /\ r.wallet <= born
  BY <1>6, <1>7
<1>10. \A r \in rows : \E s \in KnownRows : s.index = r.index /\ s.network = r.network
  BY <1>6, <1>7
<1>11. ASSUME NEW r \in rows, NEW s \in rows, r.index = s.index PROVE r = s
  <2>1. r.network = s.network
    BY <1>1, <1>10, <1>11 DEF RowsAgree
  <2>2. CASE r \in allocated[p] /\ s \in allocated[p]
    BY <1>1, <1>11, <2>2 DEF PanelSound
  <2>3. CASE r \in Adopted(b, id) /\ s \in Adopted(b, id)
    BY <1>6, <1>11, <2>1, <2>3 DEF AddressRows
  <2>4. ASSUME NEW x \in allocated[p], NEW y \in Adopted(b, id), x.index = y.index, x.network = y.network
        PROVE  x = y
    BY <1>1, <2>4 DEF Acceptable, PanelSound
  <2> QED
    BY <1>11, <2>1, <2>2, <2>3, <2>4
<1>12. Cardinality({r \in rows : r.wallet = id}) \in 0 .. n
  <2> DEFINE S == {r \in rows : r.wallet = id}
  <2>1. /\ \A r, s \in S : r.index = s.index => r = s
        /\ \A r \in S : r.index \in Nat /\ r.index < n
    BY <1>2, <1>8, <1>9, <1>11
  <2> HIDE DEF S
  <2>2. Cardinality(S) \in 0 .. n
    BY <1>2, <2>1, RowsCounted
  <2> QED
    BY <2>2 DEF S
<1>13. \A r, s \in rows : r.index = s.index => r = s
  BY <1>11
<1> QED
  BY <1>8, <1>9, <1>10, <1>12, <1>13 DEF RowsKept

(* What the one in charge learns from a backup.                            *)
LEMMA StaysInformed ==
  ASSUME NEW p \in Panels, NEW b, Informs(p, b), charge \in [at : Panels, informed : BOOLEAN]
  PROVE  /\ charge' \in [at : Panels, informed : BOOLEAN] /\ charge'.at = charge.at
         /\ charge.informed => charge'.informed
         /\ charge'.informed => charge.informed \/
              (p = charge.at /\ \A q \in Panels \ {p} : Shown(q) <= b.next)
<1> DEFINE news == charge.informed \/ (p = charge.at /\ NothingNewer(p, b.next))
<1>1. charge' = [charge EXCEPT !.informed = news] /\ news \in BOOLEAN
  BY DEF Informs
<1>2. charge.informed => news
  OBVIOUS
<1>3. news => charge.informed \/ (p = charge.at /\ \A q \in Panels \ {p} : Shown(q) <= b.next)
  BY DEF NothingNewer
<1> HIDE DEF news
<1>4. charge' \in [at : Panels, informed : BOOLEAN] /\ charge'.at = charge.at /\ charge'.informed = news
  BY <1>1
<1> QED
  BY <1>2, <1>3, <1>4

LEMMA RestoreOverKeeps == WalletsInv /\ RestoreOver => WalletsInv'
<1> SUFFICES ASSUME WalletsInv, RestoreOver PROVE WalletsInv'
  OBVIOUS
<1>1. PICK p \in Panels, b \in backups :
        /\ WalletAt(p) /\ Restored(p, RaisedIndex(cryptoWallet[p], b), b)
        /\ Informs(p, b)
        /\ UNCHANGED <<history, exporting, backups, born, given>>
  BY DEF RestoreOver
<1> DEFINE v == cryptoWallet[p]
           n == Greater(v.next, b.next)
           rows == allocated[p] \union Adopted(b, v.id)
           mine == Cardinality({r \in rows : r.wallet = v.id})
           u == [v EXCEPT !.next = n, !.confirmed = TRUE, !.reserved = n - mine]
<1>2. /\ v \in CryptoWallets /\ v.id \in WalletIds /\ v.id <= born /\ born \in Nat /\ PanelSound(p)
      /\ Shown(p) = v.next /\ v.next \in Nat /\ v.next \in WalletNumbers
      /\ (v.enabled => p = charge.at /\ charge.informed)
      /\ DOMAIN history = Panels /\ DOMAIN allocated = Panels /\ DOMAIN exporting = Panels
      /\ charge \in [at : Panels, informed : BOOLEAN]
  BY <1>1, PanelFacts DEF CryptoWallets, WalletAt, Shown, PanelSound, WalletNumbers, WalletsInv,
                          CryptoWalletsTypeOK
<1>3. /\ n \in WalletNumbers /\ n \in Nat /\ v.next <= n /\ b.next <= n /\ IndexLimit \in Nat
      /\ b.next \in Nat
  BY <1>2, CryptoWalletsAssumption DEF Greater, WalletNumbers, WalletsInv, CryptoWalletsTypeOK, Backups
<1>4. RaisedIndex(v, b) = [v EXCEPT !.next = n, !.confirmed = TRUE]
  BY DEF RaisedIndex
<1> HIDE DEF n
<1>5. /\ RaisedIndex(v, b).id = v.id /\ RaisedIndex(v, b).next = n
      /\ [RaisedIndex(v, b) EXCEPT !.reserved = n - mine] = u
  BY <1>2, <1>4 DEF CryptoWallets
<1>6. /\ Acceptable(p, b, v.id) /\ allocated' = [allocated EXCEPT ![p] = rows]
      /\ WalletBecomes(p, u)
  BY <1>1, <1>5 DEF Restored
<1>7. PICK m : m = n
  OBVIOUS
<1>8. PICK id \in WalletIds : id = v.id
  BY <1>2
<1>9. LET all == allocated[p] \union Adopted(b, id)
      IN /\ all \in SUBSET AddressRows
         /\ \A r, s \in all : r.index = s.index => r = s
         /\ \A r \in all : r.index < m /\ r.wallet <= born
         /\ \A r \in all : \E s \in KnownRows : s.index = r.index /\ s.network = r.network
         /\ Cardinality({r \in all : r.wallet = id}) \in 0 .. m
  <2>1. /\ id <= born /\ m \in WalletNumbers /\ b.next <= m /\ Shown(p) <= m /\ Acceptable(p, b, id)
    BY <1>2, <1>3, <1>6, <1>7, <1>8
  <2>2. RowsKept(allocated[p] \union Adopted(b, id), id, m)
    BY <2>1, RestoredRows
  <2> QED
    BY <2>2 DEF RowsKept
<1>10. /\ rows \in SUBSET AddressRows
       /\ \A r, s \in rows : r.index = s.index => r = s
       /\ \A r \in rows : r.index < n /\ r.wallet <= born
       /\ \A r \in rows : \E s \in KnownRows : s.index = r.index /\ s.network = r.network
       /\ mine \in 0 .. n
  BY <1>7, <1>8, <1>9
<1> HIDE DEF mine
<1>11. n - mine \in 0 .. IndexLimit /\ n = (n - mine) + mine
  BY <1>3, <1>10 DEF WalletNumbers
<1> DEFINE k == n - mine
<1>12. k \in 0 .. IndexLimit /\ n = k + mine /\ u = [v EXCEPT !.next = n, !.confirmed = TRUE, !.reserved = k]
  BY <1>11
<1> HIDE DEF k, u
<1>13. /\ u \in CryptoWallets \union {NoWallet} /\ u.id = v.id /\ u.next = n /\ u.reserved = k
       /\ u.enabled = v.enabled
  BY <1>2, <1>3, <1>12 DEF CryptoWallets, WalletNumbers
<1>14. PICK w \in CryptoWallets \union {NoWallet} : w = u
  BY <1>13
<1>15. /\ cryptoWallet' \in [Panels -> CryptoWallets \union {NoWallet}] /\ cryptoWallet'[p] = w
       /\ \A q \in Panels \ {p} : cryptoWallet'[q] = cryptoWallet[q]
  <2>1. WalletBecomes(p, w)
    BY <1>6, <1>14
  <2> QED
    BY <2>1, WalletOf
<1>16. /\ DOMAIN allocated' = Panels /\ allocated'[p] = rows
       /\ \A q \in Panels \ {p} : allocated'[q] = allocated[q]
  BY <1>2, <1>6
<1> HIDE DEF rows
<1>17. /\ WalletAt(p)' /\ Shown(p)' = n /\ w.id = v.id /\ w.next = n /\ w.enabled = v.enabled
       /\ w.reserved = k
  BY <1>1, <1>13, <1>14, <1>15 DEF WalletAt, Shown
<1>18. /\ charge' \in [at : Panels, informed : BOOLEAN] /\ charge'.at = charge.at
       /\ charge.informed => charge'.informed
       /\ charge'.informed => charge.informed \/
            (p = charge.at /\ \A q \in Panels \ {p} : Shown(q) <= b.next)
  BY <1>1, <1>2, StaysInformed
<1>19. charge'.informed => charge.informed \/
            (p = charge.at /\ \A q \in Panels \ {p} : Shown(q) <= Shown(p)')
  <2>1. \A q \in Panels : Shown(q) \in Int
    BY <1>3, PanelFacts DEF WalletNumbers
  <2>2. ASSUME NEW q \in Panels, Shown(q) <= b.next PROVE Shown(q) <= Shown(p)'
    BY <1>3, <1>17, <2>1, <2>2
  <2> QED
    BY <1>18, <2>2
<1>20. PanelSound(p)'
  <2>1. RowsOf(p, cryptoWallet[p].id)' = {r \in rows : r.wallet = v.id}
    BY <1>15, <1>16, <1>17 DEF RowsOf
  <2>2. w.next = w.reserved + Cardinality(RowsOf(p, cryptoWallet[p].id)')
    BY <1>12, <1>17, <2>1 DEF mine
  <2>3. \A r \in rows : r.index < Shown(p)' /\ r.wallet <= born'
    BY <1>1, <1>10, <1>17
  <2>4. w.enabled => p = charge'.at /\ charge'.informed
    BY <1>2, <1>17, <1>18
  <2>5. w.id \in DOMAIN history[p] /\ ~history[p][w.id].deleted
    BY <1>1, <1>2, <1>17 DEF PanelSound
  <2> QED
    BY <1>1, <1>2, <1>10, <1>15, <1>16, <2>2, <2>3, <2>4, <2>5 DEF PanelSound
<1>21. /\ DOMAIN history[p] \subseteq WalletIds /\ \A i \in DOMAIN history[p] : history[p][i] \in HistoryRows
       /\ born \in born .. MaxWallets
  BY PanelFacts
<1>22. allocated'[p] \in SUBSET AddressRows /\ Shown(p)' \in WalletNumbers /\ Shown(p) <= Shown(p)'
  BY <1>2, <1>3, <1>10, <1>16, <1>17
<1>23. \A r \in allocated'[p] : \E s \in KnownRows : s.index = r.index /\ s.network = r.network
  BY <1>10, <1>16
<1>24. UNCHANGED <<history, exporting, backups, born, given>>
  BY <1>1
<1> HIDE DEF v
<1> QED
  BY <1>2, <1>15, <1>16, <1>18, <1>19, <1>20, <1>21, <1>22, <1>23, <1>24, FilesKept, WalletStep

LEMMA RestoreAnewKeeps == WalletsInv /\ RestoreAnew => WalletsInv'
<1> SUFFICES ASSUME WalletsInv, RestoreAnew PROVE WalletsInv'
  OBVIOUS
<1>1. PICK p \in Panels, b \in backups :
        LET next == Greater(b.next, HighWater(p))
            w == [NoWallet EXCEPT !.id = b.id, !.hot = b.hot, !.networks = b.networks, !.next = next,
                                  !.exported = TRUE, !.confirmed = TRUE, !.recovery = TRUE]
        IN /\ ~WalletAt(p) /\ Restored(p, w, b)
           /\ history' = [history EXCEPT ![p] = Put(@, b.id, [next |-> next, deleted |-> FALSE])]
           /\ Informs(p, b)
           /\ UNCHANGED <<exporting, backups, born, given>>
  BY DEF RestoreAnew
<1> DEFINE n == Greater(b.next, HighWater(p))
           v == [NoWallet EXCEPT !.id = b.id, !.hot = b.hot, !.networks = b.networks, !.next = n,
                                 !.exported = TRUE, !.confirmed = TRUE, !.recovery = TRUE]
           rows == allocated[p] \union Adopted(b, v.id)
           mine == Cardinality({r \in rows : r.wallet = v.id})
           u == [v EXCEPT !.reserved = v.next - mine]
<1>2. /\ b \in Backups /\ BackupSound(b) /\ born \in Nat
      /\ Shown(p) = HighWater(p) /\ HighWater(p) \in WalletNumbers
      /\ DOMAIN history = Panels /\ DOMAIN allocated = Panels /\ DOMAIN exporting = Panels
      /\ charge \in [at : Panels, informed : BOOLEAN] /\ born \in born .. MaxWallets
  <2>1. b \in Files
    BY DEF Files
  <2> QED
    BY <1>1, <2>1, PanelFacts DEF Shown, WalletsInv, CryptoWalletsTypeOK
<1>3. /\ n \in WalletNumbers /\ n \in Nat /\ HighWater(p) <= n /\ b.next <= n /\ IndexLimit \in Nat
      /\ b.next \in Nat /\ b.id \in WalletIds /\ b.id <= born /\ b.id > 0
  BY <1>2, CryptoWalletsAssumption DEF Greater, WalletNumbers, Backups, BackupSound, WalletIds
<1>4. /\ Acceptable(p, b, v.id) /\ allocated' = [allocated EXCEPT ![p] = rows] /\ WalletBecomes(p, u)
      /\ history' = [history EXCEPT ![p] = Put(@, b.id, [next |-> n, deleted |-> FALSE])]
      /\ ~WalletAt(p) /\ Informs(p, b) /\ UNCHANGED <<exporting, backups, born, given>>
  BY <1>1 DEF Restored
<1> HIDE DEF n
<1> DEFINE Blank == [id : WalletIds \union {0}, hot : BOOLEAN, enabled : BOOLEAN,
                     next : 0 .. IndexLimit, reserved : 0 .. IndexLimit,
                     networks : SUBSET Networks, exported : BOOLEAN, confirmed : BOOLEAN,
                     recovery : BOOLEAN]
<1>5. NoWallet \in Blank /\ NoWallet.enabled = FALSE
  BY <1>3 DEF NoWallet
<1>6. v \in CryptoWallets /\ v.id = b.id /\ v.next = n /\ v.enabled = FALSE
  BY <1>2, <1>3, <1>5 DEF CryptoWallets, Backups, WalletNumbers
<1> HIDE DEF v
<1>7. PICK m \in WalletNumbers : m = n
  BY <1>3
<1>8. PICK id \in WalletIds : id = b.id
  BY <1>3
<1>9. LET all == allocated[p] \union Adopted(b, id)
      IN /\ all \in SUBSET AddressRows
         /\ \A r, s \in all : r.index = s.index => r = s
         /\ \A r \in all : r.index < m /\ r.wallet <= born
         /\ \A r \in all : \E s \in KnownRows : s.index = r.index /\ s.network = r.network
         /\ Cardinality({r \in all : r.wallet = id}) \in 0 .. m
  <2>1. id <= born /\ b.next <= m /\ Shown(p) <= m /\ Acceptable(p, b, id)
    BY <1>2, <1>3, <1>4, <1>6, <1>7, <1>8
  <2>2. RowsKept(allocated[p] \union Adopted(b, id), id, m)
    BY <2>1, RestoredRows
  <2> QED
    BY <2>2 DEF RowsKept
<1>10. /\ rows \in SUBSET AddressRows
       /\ \A r, s \in rows : r.index = s.index => r = s
       /\ \A r \in rows : r.index < m /\ r.wallet <= born
       /\ \A r \in rows : \E s \in KnownRows : s.index = r.index /\ s.network = r.network
       /\ mine \in 0 .. m
  BY <1>6, <1>8, <1>9
<1>11. mine = Cardinality({r \in rows : r.wallet = id})
  BY <1>6, <1>8
<1> HIDE DEF mine
<1> DEFINE k == m - mine
<1>12. k \in 0 .. IndexLimit /\ m = k + mine
  BY <1>3, <1>7, <1>10 DEF WalletNumbers
<1>13. u = [v EXCEPT !.reserved = k]
  BY <1>6, <1>7
<1> HIDE DEF k, u
<1>14. /\ u \in CryptoWallets /\ u.id = id /\ u.next = m /\ u.reserved = k /\ u.enabled = FALSE
  BY <1>6, <1>7, <1>8, <1>12, <1>13 DEF CryptoWallets
<1>15. PICK w \in CryptoWallets : w = u
  BY <1>14
<1>16. PICK row \in HistoryRows : row = [next |-> m, deleted |-> FALSE]
  BY <1>7 DEF HistoryRows, WalletNumbers
<1>17. /\ WalletBecomes(p, w) /\ w.id = id /\ w.next = m /\ w.reserved = k /\ w.enabled = FALSE
       /\ history' = [history EXCEPT ![p] = Put(@, w.id, row)]
       /\ row.next = w.next /\ row.deleted = FALSE
  BY <1>4, <1>7, <1>8, <1>14, <1>15, <1>16
<1>18. /\ DOMAIN allocated' = Panels /\ allocated'[p] = rows
       /\ \A q \in Panels \ {p} : allocated'[q] = allocated[q]
  BY <1>2, <1>4
<1> HIDE DEF rows
<1>19. w.next = w.reserved + Cardinality({r \in allocated'[p] : r.wallet = w.id})
  BY <1>11, <1>12, <1>17, <1>18
<1>20. /\ charge' \in [at : Panels, informed : BOOLEAN] /\ charge'.at = charge.at
       /\ charge.informed => charge'.informed
       /\ charge'.informed => charge.informed \/
            (p = charge.at /\ \A q \in Panels \ {p} : Shown(q) <= b.next)
  BY <1>2, <1>4, StaysInformed
<1>21. charge'.informed => charge.informed \/
            (p = charge.at /\ \A q \in Panels \ {p} : Shown(q) <= w.next)
  <2>1. \A q \in Panels : Shown(q) \in Int
    BY <1>3, PanelFacts DEF WalletNumbers
  <2>2. ASSUME NEW q \in Panels, Shown(q) <= b.next PROVE Shown(q) <= w.next
    BY <1>3, <1>7, <1>17, <2>1, <2>2
  <2> QED
    BY <1>20, <2>2
<1>22. HighWater(p) <= w.next /\ w.id <= born' /\ born' \in born .. MaxWallets
  BY <1>2, <1>3, <1>4, <1>7, <1>8, <1>17
<1>23. /\ allocated'[p] \in SUBSET AddressRows
       /\ \A r, s \in allocated'[p] : r.index = s.index => r = s
       /\ \A r \in allocated'[p] : r.index < w.next /\ r.wallet <= born'
       /\ \A r \in allocated'[p] : \E s \in KnownRows : s.index = r.index /\ s.network = r.network
  BY <1>4, <1>10, <1>17, <1>18
<1>24. w.enabled => p = charge.at /\ charge'.informed
  BY <1>17
<1>25. ~WalletAt(p) /\ UNCHANGED <<exporting, backups, given>>
  BY <1>4
<1> QED
  BY <1>17, <1>18, <1>19, <1>20, <1>21, <1>22, <1>23, <1>24, <1>25, WalletComes

(* Only the panel in charge has an enabled wallet: nobody has when it is   *)
(* handed over.                                                            *)
LEMMA TakeOverKeeps == WalletsInv /\ TakeOver => WalletsInv'
<1> SUFFICES ASSUME WalletsInv, TakeOver PROVE WalletsInv'
  OBVIOUS
<1>1. PICK q \in Panels \ {charge.at} :
        /\ ~cryptoWallet[charge.at].enabled
        /\ charge' = [at |-> q, informed |-> NothingNewer(q, Shown(q))]
        /\ UNCHANGED <<cryptoWallet, history, allocated, exporting, backups, born, given>>
  BY DEF TakeOver
<1>2. /\ CryptoWalletsTypeOK /\ RowsAgree /\ Remembered /\ IndexGivenOnce
      /\ \A p \in Panels : PanelSound(p) /\ Shown(p) \in Nat
      /\ \A b \in Files : BackupSound(b)
  BY PanelFacts DEF WalletsInv, WalletNumbers
<1>3. /\ charge'.at = q /\ charge'.informed = NothingNewer(q, Shown(q))
      /\ charge' \in [at : Panels, informed : BOOLEAN]
  <2>1. NothingNewer(q, Shown(q)) \in BOOLEAN
    BY DEF NothingNewer
  <2> QED
    BY <1>1, <2>1
<1>4. \A p \in Panels : Shown(p)' = Shown(p)
  BY <1>1 DEF Shown, WalletAt, HighWater
<1>5. CryptoWalletsTypeOK'
  BY <1>1, <1>2, <1>3 DEF CryptoWalletsTypeOK
<1>6. Remembered'
  <2>1. ASSUME NEW i \in Indices, given[i] > 0 PROVE \E p \in Panels : i < Shown(p)'
    BY <1>2, <1>4, <2>1 DEF Remembered
  <2>2. ASSUME NEW i \in Indices, given[i] > 0, charge'.informed PROVE i < Shown(q)'
    <3>1. PICK p \in Panels : i < Shown(p)
      BY <1>2, <2>2 DEF Remembered
    <3>2. Shown(p) <= Shown(q)
      <4>1. NothingNewer(q, Shown(q))
        BY <1>3, <2>2
      <4>2. \A r \in Panels \ {q} : Shown(r) <= Shown(q)
        BY <4>1 DEF NothingNewer
      <4>3. Shown(q) <= Shown(q)
        BY <1>2
      <4> QED
        BY <4>2, <4>3
    <3>3. i \in Int
      BY CryptoWalletsAssumption DEF Indices
    <3> QED
      BY <1>2, <1>4, <3>1, <3>2, <3>3
  <2>3. ASSUME ~charge'.informed PROVE \E p \in Panels \ {q} : DOMAIN history[p] # {}
    <3>1. PICK p \in Panels \ {q} : ~(Shown(p) <= Shown(q))
      BY <1>3, <2>3 DEF NothingNewer
    <3>2. Shown(p) > 0
      BY <1>2, <3>1
    <3> QED
      BY <3>2, PanelFacts
  <2> QED
    BY <1>1, <1>3, <2>1, <2>2, <2>3 DEF Remembered
<1>7. ASSUME NEW p \in Panels PROVE PanelSound(p)'
  <2>1. ~cryptoWallet[p].enabled
    BY <1>1, <1>2 DEF PanelSound
  <2>2. /\ WalletAt(p)' <=> WalletAt(p)
        /\ RowsOf(p, cryptoWallet[p].id)' = RowsOf(p, cryptoWallet[p].id)
    BY <1>1 DEF WalletAt, RowsOf
  <2> QED
    BY <1>1, <1>2, <1>4, <2>1, <2>2 DEF PanelSound
<1>8. Files' = Files /\ KnownRows' = KnownRows
  BY <1>1 DEF Files, KnownRows
<1> QED
  BY <1>1, <1>2, <1>5, <1>6, <1>7, <1>8 DEF WalletsInv, RowsAgree, IndexGivenOnce, BackupSound

(* The panel that gives an address is in charge and knows what was given,  *)
(* so its next index is one that nobody has.                               *)
LEMMA AllocateAddressKeeps == WalletsInv /\ AllocateAddress => WalletsInv'
<1> SUFFICES ASSUME WalletsInv, AllocateAddress PROVE WalletsInv'
  OBVIOUS
<1>1. PICK p \in Panels, network \in Networks :
        /\ Ready(cryptoWallet[p]) /\ network \in cryptoWallet[p].networks
        /\ allocated' = [allocated EXCEPT ![p] = @ \union
             {[wallet |-> cryptoWallet[p].id, index |-> cryptoWallet[p].next, network |-> network]}]
        /\ WalletBecomes(p, [cryptoWallet[p] EXCEPT !.next = @ + 1])
        /\ given' = [given EXCEPT ![cryptoWallet[p].next] = @ + 1]
        /\ UNCHANGED <<history, exporting, backups, born, charge>>
  BY DEF AllocateAddress
<1> DEFINE v == cryptoWallet[p]
           i == v.next
           row == [wallet |-> v.id, index |-> i, network |-> network]
           u == [v EXCEPT !.next = i + 1]
<1>2. /\ CryptoWalletsTypeOK /\ RowsAgree /\ Remembered /\ IndexGivenOnce
      /\ \A q \in Panels : PanelSound(q) /\ Shown(q) \in Nat
      /\ \A b \in Files : BackupSound(b)
      /\ DOMAIN allocated = Panels /\ born \in Nat /\ IndexLimit \in Nat
  BY PanelFacts DEF WalletsInv, WalletNumbers
<1>3. WalletAt(p) /\ v \in CryptoWallets /\ v.enabled /\ i < IndexLimit - 1
  BY <1>1, PanelFacts DEF Ready, NoWallet
<1>4. /\ i \in Indices /\ i \in Nat /\ i + 1 \in 0 .. IndexLimit /\ v.id \in WalletIds /\ v.id <= born
      /\ v.id > 0 /\ Shown(p) = i
  BY <1>2, <1>3, PanelFacts DEF CryptoWallets, Indices, Shown, WalletAt
<1>5. p = charge.at /\ charge.informed
  BY <1>2, <1>3 DEF PanelSound
<1>6. given[i] = 0
  <2>1. ~(given[i] > 0)
    BY <1>2, <1>4, <1>5 DEF Remembered
  <2> QED
    BY <1>2, <1>4, <2>1 DEF CryptoWalletsTypeOK
<1>7. /\ given' \in [Indices -> 0 .. 2] /\ given'[i] = 1
      /\ \A j \in Indices : j # i => given'[j] = given[j]
  BY <1>1, <1>2, <1>4, <1>6 DEF CryptoWalletsTypeOK
<1>8. /\ row \in AddressRows /\ row.index = i /\ row.wallet = v.id
  BY <1>4 DEF AddressRows
<1>9. /\ DOMAIN allocated' = Panels /\ allocated'[p] = allocated[p] \union {row}
      /\ \A q \in Panels \ {p} : allocated'[q] = allocated[q]
  BY <1>1, <1>2
<1> HIDE DEF row
<1>10. /\ u \in CryptoWallets \union {NoWallet} /\ u.id = v.id /\ u.next = i + 1
       /\ u.reserved = v.reserved /\ u.enabled = v.enabled
  BY <1>3, <1>4 DEF CryptoWallets
<1>11. WalletBecomes(p, u)
  BY <1>1
<1> HIDE DEF u
<1>12. PICK w \in CryptoWallets \union {NoWallet} : w = u
  BY <1>10
<1>13. /\ cryptoWallet' \in [Panels -> CryptoWallets \union {NoWallet}] /\ cryptoWallet'[p] = w
       /\ \A q \in Panels \ {p} : cryptoWallet'[q] = cryptoWallet[q]
  BY <1>11, <1>12, WalletOf
<1>14. /\ WalletAt(p)' /\ Shown(p)' = i + 1
       /\ \A q \in Panels \ {p} : Shown(q)' = Shown(q)
       /\ \A q \in Panels : Shown(q)' \in Nat /\ Shown(q) <= Shown(q)'
  <2>1. WalletAt(p)' /\ Shown(p)' = i + 1
    BY <1>4, <1>10, <1>12, <1>13 DEF WalletAt, Shown
  <2>2. \A q \in Panels \ {p} : Shown(q)' = Shown(q)
    BY <1>1, <1>13 DEF WalletAt, Shown, HighWater
  <2>3. \A q \in Panels : q = p \/ q \in Panels \ {p}
    OBVIOUS
  <2> HIDE DEF i, v
  <2> QED
    BY <1>2, <1>4, <2>1, <2>2, <2>3
<1>15. CryptoWalletsTypeOK'
  <2>1. ASSUME NEW q \in Panels PROVE allocated'[q] \subseteq AddressRows
    BY <1>2, <1>8, <1>9 DEF CryptoWalletsTypeOK
  <2> QED
    BY <1>1, <1>2, <1>7, <1>13, <2>1 DEF CryptoWalletsTypeOK
<1>16. Files' = Files
  BY <1>1 DEF Files
<1>17. \A r \in KnownRows' : r \in KnownRows \/ r = row
  <2> SUFFICES ASSUME NEW r \in KnownRows', r # row PROVE r \in KnownRows
    OBVIOUS
  <2>1. (\E q \in Panels : r \in allocated'[q]) \/ (\E b \in Files : r \in b.rows)
    BY <1>16, RowIsKnown
  <2>2. (\E q \in Panels : r \in allocated[q]) \/ (\E b \in Files : r \in b.rows)
    BY <1>9, <2>1
  <2> QED
    BY <2>2, RowIsKnown
<1>18. \A r \in KnownRows : given[r.index] > 0 /\ r.index \in Indices /\ r.index # i
  <2> SUFFICES ASSUME NEW r \in KnownRows PROVE given[r.index] > 0 /\ r.index \in Indices /\ r.index # i
    OBVIOUS
  <2>1. given[r.index] > 0
    BY <1>2 DEF RowsAgree
  <2>2. (\E q \in Panels : r \in allocated[q]) \/ (\E b \in Files : r \in b.rows)
    BY RowIsKnown
  <2>3. r \in AddressRows
    BY <1>2, <2>2 DEF CryptoWalletsTypeOK, Files, Backups, NoBackup
  <2> HIDE DEF i
  <2> QED
    BY <1>6, <2>1, <2>3 DEF AddressRows
<1>19. RowsAgree'
  <2>1. \A r \in KnownRows' : given'[r.index] > 0
    BY <1>7, <1>8, <1>17, <1>18
  <2>2. \A r, s \in KnownRows' : r.index = s.index => r.network = s.network
    BY <1>2, <1>8, <1>17, <1>18 DEF RowsAgree
  <2> QED
    BY <2>1, <2>2 DEF RowsAgree
<1>20. Remembered'
  <2>1. \A j \in Indices : j \in Int
    BY <1>2 DEF Indices
  <2>2. ASSUME NEW j \in Indices, given'[j] > 0 PROVE j < Shown(p)'
    <3>1. CASE j = i
      BY <1>4, <1>14, <3>1
    <3>2. CASE j # i
      <4>1. j < Shown(p)
        BY <1>2, <1>5, <1>7, <2>2, <3>2 DEF Remembered
      <4> QED
        BY <1>2, <1>14, <2>1, <4>1
    <3> QED
      BY <3>1, <3>2
  <2> QED
    BY <1>1, <1>5, <2>2 DEF Remembered
<1>21. PanelSound(p)'
  <2>1. /\ \A r, s \in allocated[p] : r.index = s.index => r = s
        /\ \A r \in allocated[p] : r.index < i /\ r.wallet <= born /\ r.index \in Nat
    BY <1>2, <1>4 DEF PanelSound, CryptoWalletsTypeOK, AddressRows, Indices
  <2>2. \A r, s \in allocated'[p] : r.index = s.index => r = s
    BY <1>8, <1>9, <2>1, <1>4
  <2>3. \A r \in allocated'[p] : r.index < Shown(p)' /\ r.wallet <= born
    <3>1. \A r \in allocated[p] : r.index < i + 1 /\ r.wallet <= born
      BY <1>4, <2>1
    <3>2. row.index < i + 1 /\ row.wallet <= born
      BY <1>4, <1>8
    <3> QED
      BY <1>9, <1>14, <3>1, <3>2
  <2> DEFINE mine == RowsOf(p, v.id)
  <2>4. IsFiniteSet(mine) /\ Cardinality(mine) \in Nat /\ row \notin mine
    <3>1. /\ \A r, s \in mine : r.index = s.index => r = s
          /\ \A r \in mine : r.index \in Nat /\ r.index < i
      BY <2>1 DEF RowsOf
    <3>2. row \notin mine
      BY <1>4, <1>8, <3>1
    <3> HIDE DEF mine, i
    <3>3. IsFiniteSet(mine) /\ Cardinality(mine) \in 0 .. i
      BY <1>4, <3>1, RowsCounted
    <3> QED
      BY <1>4, <3>2, <3>3
  <2>5. RowsOf(p, cryptoWallet[p].id)' = mine \union {row}
    BY <1>8, <1>9, <1>10, <1>12, <1>13 DEF RowsOf
  <2>6. v.next = v.reserved + Cardinality(mine) /\ v.reserved \in Nat
    BY <1>2, <1>3 DEF PanelSound, CryptoWallets
  <2> HIDE DEF mine
  <2>7. Cardinality(mine \union {row}) = Cardinality(mine) + 1
    BY <2>4, FS_AddElement
  <2>8. w.next = w.reserved + Cardinality(RowsOf(p, cryptoWallet[p].id)')
    <3> DEFINE c == Cardinality(mine)
               d == Cardinality(mine \union {row})
    <3>1. i = v.reserved + c /\ v.reserved \in Nat /\ c \in Nat /\ d = c + 1
      BY <2>4, <2>6, <2>7
    <3>2. w.next = i + 1 /\ w.reserved = v.reserved
      BY <1>10, <1>12
    <3> HIDE DEF c, d, v, i
    <3>3. w.next = w.reserved + d
      BY <3>1, <3>2
    <3> QED
      BY <2>5, <3>3 DEF d
  <2>9. w.id \in DOMAIN history[p] /\ ~history[p][w.id].deleted /\ DOMAIN history[p] \subseteq 1 .. born
    BY <1>2, <1>3, <1>10, <1>12 DEF PanelSound
  <2> HIDE DEF v, i
  <2> QED
    BY <1>1, <1>5, <1>13, <2>2, <2>3, <2>8, <2>9 DEF PanelSound
<1>22. ASSUME NEW q \in Panels \ {p} PROVE PanelSound(q)'
  <2>1. PanelSound(q)
    BY <1>2
  <2>2. /\ cryptoWallet'[q] = cryptoWallet[q] /\ history'[q] = history[q]
        /\ allocated'[q] = allocated[q] /\ Shown(q)' = Shown(q)
    BY <1>1, <1>9, <1>13, <1>14
  <2>3. /\ WalletAt(q)' <=> WalletAt(q)
        /\ RowsOf(q, cryptoWallet[q].id)' = RowsOf(q, cryptoWallet[q].id)
    BY <2>2 DEF WalletAt, RowsOf
  <2> QED
    BY <1>1, <2>1, <2>2, <2>3 DEF PanelSound
<1>23. \A q \in Panels : PanelSound(q)'
  BY <1>21, <1>22
<1>24. \A b \in Files' : BackupSound(b)'
  BY <1>1, <1>2, <1>16 DEF BackupSound
<1>25. IndexGivenOnce'
  <2>1. DOMAIN given = Indices /\ DOMAIN given' = Indices
    BY <1>2, <1>7 DEF CryptoWalletsTypeOK
  <2> QED
    BY <1>2, <1>7, <2>1 DEF IndexGivenOnce
<1>26. DOMAIN history' = Panels /\ DOMAIN exporting' = Panels
  BY <1>1 DEF WalletsInv
<1> QED
  BY <1>9, <1>15, <1>19, <1>20, <1>23, <1>24, <1>25, <1>26 DEF WalletsInv
-----------------------------------------------------------------------------
LEMMA WalletsStepInv == WalletsInv /\ [CryptoWalletsNext]_WalletVars => WalletsInv'
<1> SUFFICES ASSUME WalletsInv, [CryptoWalletsNext]_WalletVars PROVE WalletsInv'
  OBVIOUS
<1>1. CASE CryptoWalletsNext
  BY <1>1, CreateWalletKeeps, AllocateAddressKeeps, SwitchWalletKeeps, ConfirmBackupKeeps,
     AcknowledgeRecoveryKeeps, ReadBackupKeeps, MarkBackupKeeps, RestoreOverKeeps,
     RestoreAnewKeeps, DeleteWalletKeeps, TakeOverKeeps DEF CryptoWalletsNext
<1>2. CASE UNCHANGED WalletVars
  <2>1. /\ Files' = Files /\ KnownRows' = KnownRows /\ \A p \in Panels : PanelSound(p)' = PanelSound(p)
    BY <1>2 DEF WalletVars, Files, KnownRows, PanelSound, Shown, WalletAt, HighWater, RowsOf
  <2>2. Remembered' = Remembered
    BY <1>2 DEF WalletVars, Remembered, Shown, WalletAt, HighWater
  <2> QED
    BY <1>2, <2>1, <2>2 DEF WalletsInv, WalletVars, CryptoWalletsTypeOK, IndexGivenOnce, RowsAgree, BackupSound
<1> QED
  BY <1>1, <1>2

(* The inductive invariant of the wallets.                                 *)
THEOREM WalletsSafe == CryptoWalletsSpec => []WalletsInv
<1> QED
  BY WalletsInitInv, WalletsStepInv, PTL DEF CryptoWalletsSpec

(* No index of a branch goes to two customers, for any panels and wallets: *)
(* allocateCryptoAddressTx.                                                *)
THEOREM WalletsGiveOnce == CryptoWalletsSpec => []IndexGivenOnce
<1>1. WalletsInv => IndexGivenOnce
  BY WalletsInvMeans
<1> QED
  BY <1>1, WalletsSafe, PTL

(* The rows of a branch are distinct and under its next index, and its     *)
(* reserved indices and rows add up.                                       *)
THEOREM WalletsStayIntact == CryptoWalletsSpec => []WalletsIntact
<1>1. WalletsInv => WalletsIntact
  BY WalletsInvMeans
<1> QED
  BY <1>1, WalletsSafe, PTL
-----------------------------------------------------------------------------
(* Sweeps.  The invariant says what the tables show of every item, what a   *)
(* worker who still holds its job knows of it, and that an open job has its *)
(* network to itself.  Of an item: the states of its transfers.             *)
EvmOK(item, gas, move) ==
  /\ move # {} => gas \subseteq {"confirmed"}
  /\ item \in {NotAsked, "queued"} => gas = {} /\ move = {}
  /\ item = "gas_pending" => gas # {} /\ "reverted" \notin gas /\ move = {}
  /\ item = "sweep_pending" => move # {} /\ move \subseteq {"signed", "pending"}
  /\ item = "complete" => move = {"confirmed"}
  /\ item = "failed" => "reverted" \in gas \union move
SolanaOK(item, gas, move) ==
  /\ gas = {}
  /\ item # "gas_pending"
  /\ item \in {NotAsked, "queued"} => move = {}
  /\ item = "sweep_pending" =>
       move # {} /\ move \subseteq {"signed", "pending", "expired_unknown"}
  /\ item = "complete" => move = {"confirmed"}
  /\ item = "failed" => move = {"reverted"}
ItemOK(family, item, gas, move) ==
  IF family = "evm" THEN EvmOK(item, gas, move) ELSE SolanaOK(item, gas, move)
JobOK(state, item, states) ==
  /\ state = "complete" => item \in {NotAsked, "complete"}
  /\ state = "queued" => item \in {NotAsked, "queued"}
  /\ state = "cancelled" => states \subseteq Settled

SameTransfer(a, b) == /\ signed[a].job = signed[b].job
                      /\ signed[a].source = signed[b].source
                      /\ signed[a].kind = signed[b].kind
OneEachTransfer == \A a, b \in Txs : SameTransfer(a, b) => a = b
ItemsAgree ==
  \A j \in 1..Len(sweeps) :
    /\ sweeps[j].state = "running" <=> sweeps[j].lease # NoLease
    /\ \A s \in Sources :
         LET gas == TransferStates(j, s, "gas")
             move == TransferStates(j, s, "sweep")
         IN /\ ItemOK(sweeps[j].family, sweeps[j].items[s], gas, move)
            /\ JobOK(sweeps[j].state, sweeps[j].items[s], gas \union move)

SweepType == [family : Families, state : SweepStates,
              lease : SweepWorkers \union {NoLease}, live : BOOLEAN,
              dry : SUBSET Sources, items : [Sources -> ItemStates]]
TxStates == {"signed", "pending", "expired_unknown"} \union Settled
TxType == [job : 1..MaxSweeps, source : Sources, kind : {"gas", "sweep"},
           nonce : Nat, state : TxStates]
Fates == {"unseen", "mempool", "late", "lapsed"} \union Final
TablesTyped ==
  /\ sweeps \in Seq(SweepType) /\ Len(sweeps) <= MaxSweeps
  /\ signed \in Seq(TxType)
  /\ \A i \in Txs : signed[i].job \in 1..Len(sweeps)
  /\ fate \in Seq(Fates) /\ Len(fate) = Len(signed)
  /\ DOMAIN sweeping = SweepWorkers

Payer(d) == IF d.kind = "gas" THEN "funding" ELSE d.source

(* What a worker who still holds its job knows of its item.                 *)
HolderKnows(d) ==
  LET item == sweeps[d.job].items[d.source]
      gas == TransferStates(d.job, d.source, "gas")
  IN /\ d.step = "stage" /\ d.kind = "gas" => item = "queued"
     /\ d.step = "stage" /\ d.kind = "sweep" =>
          item = "queued" \/ (item = "gas_pending" /\ gas \subseteq {"confirmed"})
     /\ d.step # "stage" => item = PendingItem(d.kind)
     /\ d.step = "sent" /\ d.kind = "gas" => gas \intersect Settled = {}
WorkerTyped(d) ==
  /\ d.job \in 1..Len(sweeps) /\ d.source \in Sources /\ d.kind \in {"gas", "sweep"}
  /\ d.step \in {"stage", "send", "post", "sent"}
  /\ d.kind = "gas" => sweeps[d.job].family = "evm"
  /\ d.step = "post" => d.kind = "sweep"
  /\ d.step = "stage" => d.nonce \in Nat /\ d.gas \in Int
  /\ d.step # "stage" => TransferStates(d.job, d.source, d.kind) # {}
WorkersKnow ==
  \A w \in SweepWorkers : sweeping[w] # Resting =>
    WorkerTyped(sweeping[w]) /\ (Holds(w) => HolderKnows(sweeping[w]))

OneOpenSweep ==
  \A j, k \in 1..Len(sweeps) :
    sweeps[j].family = sweeps[k].family /\ sweeps[j].state \notin Ended
      /\ sweeps[k].state \notin Ended => j = k
DryIsEvm == \A j \in 1..Len(sweeps) : sweeps[j].dry # {} => sweeps[j].family = "evm"
Recorded == \A i \in Txs : /\ signed[i].state = "confirmed" => fate[i] = "ok"
                           /\ signed[i].state = "reverted" => fate[i] = "reverted"
SweepsInv == /\ TablesTyped /\ OneEachTransfer /\ ItemsAgree
             /\ WorkersKnow /\ OneOpenSweep /\ DryIsEvm /\ Recorded

-----------------------------------------------------------------------------
(* The tables.                                                              *)

LEMMA TxRows ==
  ASSUME TablesTyped
  PROVE  /\ Len(signed) \in Nat /\ Len(sweeps) \in Nat /\ Txs = DOMAIN signed /\ Txs = 1..Len(signed)
         /\ \A i \in Txs : signed[i] \in TxType /\ signed[i].job \in 1..Len(sweeps)
         /\ \A i \in Txs : fate[i] \in Fates
         /\ \A j \in 1..Len(sweeps) : sweeps[j] \in SweepType
         /\ DOMAIN sweeps = 1..Len(sweeps) /\ DOMAIN fate = Txs
<1>1. /\ signed \in Seq(TxType) /\ sweeps \in Seq(SweepType) /\ fate \in Seq(Fates)
      /\ Len(fate) = Len(signed)
  BY DEF TablesTyped
<1>2. Len(signed) \in Nat /\ Len(sweeps) \in Nat /\ DOMAIN sweeps = 1..Len(sweeps)
      /\ DOMAIN signed = 1..Len(signed) /\ DOMAIN fate = 1..Len(signed)
  BY <1>1, LenProperties
<1>3. \A i \in 1..Len(signed) : signed[i] \in TxType /\ fate[i] \in Fates
  BY <1>1, ElementOfSeq
<1>4. \A j \in 1..Len(sweeps) : sweeps[j] \in SweepType
  BY <1>1, ElementOfSeq
<1> QED
  BY <1>2, <1>3, <1>4 DEF Txs, TablesTyped

(* A transfer is added.                                                     *)
Of(t, j, s, k) == t.job = j /\ t.source = s /\ t.kind = k

LEMMA TransferAdded ==
  ASSUME TablesTyped, NEW t \in TxType, t.job \in 1..Len(sweeps), signed' = Append(signed, t)
  PROVE  /\ signed' \in Seq(TxType) /\ Len(signed') = Len(signed) + 1
         /\ Txs' = Txs \union {Len(signed) + 1} /\ Len(signed) + 1 \notin Txs
         /\ signed'[Len(signed) + 1] = t /\ \A i \in Txs : signed'[i] = signed[i]
         /\ \A j, s, k : TransferStates(j, s, k)' = TransferStates(j, s, k)
                                    \union (IF Of(t, j, s, k) THEN {t.state} ELSE {})
<1> DEFINE n == Len(signed)
<1>1. signed \in Seq(TxType) /\ n \in Nat /\ Txs = 1..n
  BY TxRows DEF TablesTyped
<1>2. /\ signed' \in Seq(TxType) /\ Len(signed') = n + 1
      /\ signed'[n + 1] = t /\ \A i \in 1..n : signed'[i] = signed[i]
  BY <1>1, AppendProperties
<1>3. Txs' = 1..n + 1
  BY <1>2 DEF Txs
<1>4. Txs' = Txs \union {n + 1} /\ n + 1 \notin Txs
  BY <1>1, <1>3
<1> HIDE DEF n
<1>5. ASSUME NEW j, NEW s, NEW k
      PROVE  TransferStates(j, s, k)' = TransferStates(j, s, k)
                                  \union (IF Of(t, j, s, k) THEN {t.state} ELSE {})
  BY <1>1, <1>2, <1>4 DEF TransferStates, Stored, Of
<1> QED
  BY <1>1, <1>2, <1>4, <1>5 DEF n

(* The state of one is written.                                             *)
LEMMA TransferMarked ==
  ASSUME TablesTyped, OneEachTransfer, NEW x \in Txs, NEW st \in TxStates, signed' = Marked(x, st)
  PROVE  /\ signed' \in Seq(TxType) /\ Len(signed') = Len(signed) /\ Txs' = Txs
         /\ \A i \in Txs : /\ signed'[i].job = signed[i].job /\ signed'[i].source = signed[i].source
                           /\ signed'[i].kind = signed[i].kind /\ signed'[i].nonce = signed[i].nonce
                           /\ signed'[i].state = IF i = x THEN st ELSE signed[i].state
         /\ OneEachTransfer'
         /\ \A j, s, k : TransferStates(j, s, k)' =
              IF Of(signed[x], j, s, k) THEN {st} ELSE TransferStates(j, s, k)
<1> DEFINE t == [signed[x] EXCEPT !.state = st]
<1>1. signed \in Seq(TxType) /\ Txs = DOMAIN signed /\ Txs = 1..Len(signed) /\ signed[x] \in TxType
  BY TxRows DEF TablesTyped
<1>2. /\ t \in TxType /\ t.job = signed[x].job /\ t.source = signed[x].source
      /\ t.kind = signed[x].kind /\ t.nonce = signed[x].nonce /\ t.state = st
  BY <1>1 DEF TxType
<1>3. signed' = [signed EXCEPT ![x] = t]
  BY DEF Marked
<1> HIDE DEF t
<1>4. signed' \in Seq(TxType) /\ Len(signed') = Len(signed)
  BY <1>1, <1>2, <1>3, ExceptSeq
<1>5. Txs' = Txs
  BY <1>4 DEF Txs
<1>6. \A i \in Txs : signed'[i] = IF i = x THEN t ELSE signed[i]
  BY <1>1, <1>3
<1>7. \A i \in Txs : /\ signed'[i].job = signed[i].job /\ signed'[i].source = signed[i].source
                     /\ signed'[i].kind = signed[i].kind /\ signed'[i].nonce = signed[i].nonce
                     /\ signed'[i].state = IF i = x THEN st ELSE signed[i].state
  BY <1>2, <1>6
<1>8. OneEachTransfer'
  BY <1>5, <1>7 DEF OneEachTransfer, SameTransfer
<1>9. ASSUME NEW j, NEW s, NEW k
      PROVE  TransferStates(j, s, k)' =
               IF Of(signed[x], j, s, k) THEN {st} ELSE TransferStates(j, s, k)
  <2>1. Stored(j, s, k)' = Stored(j, s, k)
    BY <1>5, <1>7 DEF Stored
  <2>2. CASE Of(signed[x], j, s, k)
    <3>1. Stored(j, s, k) = {x}
      BY <2>2 DEF Stored, Of, OneEachTransfer, SameTransfer
    <3> QED
      BY <1>7, <2>1, <2>2, <3>1 DEF TransferStates
  <2>3. CASE ~Of(signed[x], j, s, k)
    <3>1. \A i \in Stored(j, s, k) : i \in Txs /\ i # x
      BY <2>3 DEF Stored, Of
    <3> QED
      BY <1>7, <2>1, <2>3, <3>1 DEF TransferStates
  <2> QED
    BY <2>2, <2>3
<1> QED
  BY <1>4, <1>5, <1>7, <1>8, <1>9

(* The transfer a worker handles.                                           *)
LEMMA TheTransfer ==
  ASSUME OneEachTransfer, NEW j, NEW s, NEW k, TransferStates(j, s, k) # {}
  PROVE  /\ TheTx(j, s, k) \in Txs /\ Of(signed[TheTx(j, s, k)], j, s, k)
         /\ TransferStates(j, s, k) = {signed[TheTx(j, s, k)].state}
<1>1. Stored(j, s, k) # {}
  BY DEF TransferStates
<1>2. TheTx(j, s, k) \in Stored(j, s, k)
  BY <1>1 DEF TheTx
<1>3. Stored(j, s, k) = {TheTx(j, s, k)}
  BY <1>2 DEF Stored, OneEachTransfer, SameTransfer
<1> QED
  BY <1>2, <1>3 DEF TransferStates, Stored, Of

LEMMA StatesKept ==
  signed' = signed => /\ Txs' = Txs /\ (OneEachTransfer => OneEachTransfer')
                      /\ \A j, s, k : TransferStates(j, s, k)' = TransferStates(j, s, k)
  BY DEF Txs, OneEachTransfer, SameTransfer, TransferStates, Stored

-----------------------------------------------------------------------------
(* Jobs.                                                                    *)

(* Only job j changes, and no job what it is a sweep of.                    *)
OnlyJob(j) ==
  /\ sweeps' \in Seq(SweepType) /\ Len(sweeps') = Len(sweeps)
  /\ \A k \in 1..Len(sweeps) : /\ sweeps'[k].family = sweeps[k].family
                               /\ sweeps'[k].dry = sweeps[k].dry
                               /\ k # j => sweeps'[k] = sweeps[k]

LEMMA JobChanged ==
  ASSUME TablesTyped, NEW j \in 1..Len(sweeps), NEW v \in SweepType,
         v.family = sweeps[j].family, v.dry = sweeps[j].dry, sweeps' = [sweeps EXCEPT ![j] = v]
  PROVE  OnlyJob(j) /\ sweeps'[j] = v
<1>1. sweeps \in Seq(SweepType) /\ DOMAIN sweeps = 1..Len(sweeps)
  BY TxRows DEF TablesTyped
<1>2. sweeps' \in Seq(SweepType) /\ Len(sweeps') = Len(sweeps)
  BY <1>1, ExceptSeq
<1>3. \A k \in 1..Len(sweeps) : sweeps'[k] = IF k = j THEN v ELSE sweeps[k]
  BY <1>1
<1> QED
  BY <1>2, <1>3 DEF OnlyJob

Is(v, st, lease, live) == v.state = st /\ v.lease = lease /\ v.live = live

LEMMA JobReleased ==
  ASSUME TablesTyped, NEW j \in 1..Len(sweeps), NEW st \in SweepStates, sweeps' = Released(j, st)
  PROVE  OnlyJob(j) /\ Is(sweeps'[j], st, NoLease, FALSE) /\ sweeps'[j].items = sweeps[j].items
<1> DEFINE v == [sweeps[j] EXCEPT !.state = st, !.lease = NoLease, !.live = FALSE]
<1>1. sweeps[j] \in SweepType
  BY TxRows
<1>2. /\ v \in SweepType /\ v.family = sweeps[j].family /\ v.dry = sweeps[j].dry
      /\ v.items = sweeps[j].items /\ v.state = st /\ v.lease = NoLease /\ v.live = FALSE
  BY <1>1 DEF SweepType
<1>3. sweeps' = [sweeps EXCEPT ![j] = v]
  BY DEF Released
<1> HIDE DEF v
<1> QED
  BY <1>2, <1>3, JobChanged DEF Is

LEMMA JobClaimed ==
  ASSUME TablesTyped, NEW j \in 1..Len(sweeps), NEW w \in SweepWorkers,
         sweeps' = [sweeps EXCEPT ![j].state = "running", ![j].lease = w, ![j].live = TRUE]
  PROVE  OnlyJob(j) /\ Is(sweeps'[j], "running", w, TRUE) /\ sweeps'[j].items = sweeps[j].items
<1> DEFINE v == [sweeps[j] EXCEPT !.state = "running", !.lease = w, !.live = TRUE]
<1>1. sweeps[j] \in SweepType
  BY TxRows
<1>2. /\ v \in SweepType /\ v.family = sweeps[j].family /\ v.dry = sweeps[j].dry
      /\ v.items = sweeps[j].items /\ v.state = "running" /\ v.lease = w /\ v.live = TRUE
  BY <1>1 DEF SweepType, SweepStates
<1>3. sweeps' = [sweeps EXCEPT ![j] = v]
  OBVIOUS
<1> HIDE DEF v
<1> QED
  BY <1>2, <1>3, JobChanged DEF Is

LEMMA JobExpires ==
  ASSUME TablesTyped, NEW j \in 1..Len(sweeps), sweeps' = [sweeps EXCEPT ![j].live = FALSE]
  PROVE  /\ OnlyJob(j) /\ Is(sweeps'[j], sweeps[j].state, sweeps[j].lease, FALSE)
         /\ sweeps'[j].items = sweeps[j].items
<1> DEFINE v == [sweeps[j] EXCEPT !.live = FALSE]
<1>1. sweeps[j] \in SweepType
  BY TxRows
<1>2. /\ v \in SweepType /\ v.family = sweeps[j].family /\ v.dry = sweeps[j].dry
      /\ v.items = sweeps[j].items /\ v.state = sweeps[j].state /\ v.lease = sweeps[j].lease /\ v.live = FALSE
  BY <1>1 DEF SweepType
<1>3. sweeps' = [sweeps EXCEPT ![j] = v]
  OBVIOUS
<1> HIDE DEF v
<1> QED
  BY <1>2, <1>3, JobChanged DEF Is

(* An item of a job moves, and the job stays as it is or is released.       *)
LEMMA ItemMoved ==
  ASSUME TablesTyped, NEW j \in 1..Len(sweeps), NEW s \in Sources, NEW item \in ItemStates,
         sweeps' = [sweeps EXCEPT ![j].items[s] = item]
  PROVE  /\ OnlyJob(j) /\ Is(sweeps'[j], sweeps[j].state, sweeps[j].lease, sweeps[j].live)
         /\ sweeps'[j].items = [sweeps[j].items EXCEPT ![s] = item]
<1> DEFINE v == [sweeps[j] EXCEPT !.items = [sweeps[j].items EXCEPT ![s] = item]]
<1>1. sweeps[j] \in SweepType
  BY TxRows
<1>2. /\ v \in SweepType /\ v.family = sweeps[j].family /\ v.dry = sweeps[j].dry
      /\ v.items = [sweeps[j].items EXCEPT ![s] = item]
      /\ v.state = sweeps[j].state /\ v.lease = sweeps[j].lease /\ v.live = sweeps[j].live
  BY <1>1 DEF SweepType
<1>3. sweeps' = [sweeps EXCEPT ![j] = v]
  OBVIOUS
<1> HIDE DEF v
<1> QED
  BY <1>2, <1>3, JobChanged DEF Is

LEMMA ItemMovedAndReleased ==
  ASSUME TablesTyped, NEW j \in 1..Len(sweeps), NEW s \in Sources, NEW item \in ItemStates,
         NEW st \in SweepStates, NEW u, u = [sweeps EXCEPT ![j].items[s] = item],
         sweeps' = [u EXCEPT ![j].state = st, ![j].lease = NoLease, ![j].live = FALSE]
  PROVE  /\ OnlyJob(j) /\ Is(sweeps'[j], st, NoLease, FALSE)
         /\ sweeps'[j].items = [sweeps[j].items EXCEPT ![s] = item]
<1> DEFINE v == [sweeps[j] EXCEPT !.items = [sweeps[j].items EXCEPT ![s] = item],
                                  !.state = st, !.lease = NoLease, !.live = FALSE]
<1>1. sweeps[j] \in SweepType /\ DOMAIN sweeps = 1..Len(sweeps)
  BY TxRows
<1>2. /\ v \in SweepType /\ v.family = sweeps[j].family /\ v.dry = sweeps[j].dry
      /\ v.items = [sweeps[j].items EXCEPT ![s] = item]
      /\ v.state = st /\ v.lease = NoLease /\ v.live = FALSE
  BY <1>1 DEF SweepType
<1>3. sweeps' = [sweeps EXCEPT ![j] = v]
  BY <1>1
<1> HIDE DEF v
<1> QED
  BY <1>2, <1>3, JobChanged DEF Is
-----------------------------------------------------------------------------
(* What a step keeps.                                                       *)

HoldsJob(j, w) == sweeps[j].state = "running" /\ sweeps[j].lease = w /\ sweeps[j].live
WorkerKnows(w) == sweeping[w] # Resting =>
                    WorkerTyped(sweeping[w]) /\ (Holds(w) => HolderKnows(sweeping[w]))

(* A worker that does nothing knows what it knew: it holds its job as       *)
(* before, and what it holds has not moved.                                 *)
LEMMA OthersKnow ==
  ASSUME NEW w, WorkerKnows(w), sweeping'[w] = sweeping[w],
         \A k \in 1..Len(sweeps) : k \in 1..Len(sweeps') /\ sweeps'[k].family = sweeps[k].family,
         \A j, s, k : TransferStates(j, s, k) # {} => TransferStates(j, s, k)' # {},
         \A j \in 1..Len(sweeps) : HoldsJob(j, w)' =>
           /\ HoldsJob(j, w) /\ sweeps'[j].items = sweeps[j].items
           /\ \A s : TransferStates(j, s, "gas")' = TransferStates(j, s, "gas")
  PROVE  WorkerKnows(w)'
<1> SUFFICES ASSUME sweeping[w] # Resting
             PROVE  WorkerTyped(sweeping[w])' /\ (Holds(w)' => HolderKnows(sweeping[w])')
  BY DEF WorkerKnows
<1> DEFINE d == sweeping[w]
<1>1. WorkerTyped(d) /\ (Holds(w) => HolderKnows(d)) /\ sweeping'[w] = d
  BY DEF WorkerKnows
<1>2. d.job \in 1..Len(sweeps)
  BY <1>1 DEF WorkerTyped
<1>3. Holds(w) = HoldsJob(d.job, w) /\ Holds(w)' = HoldsJob(d.job, w)'
  BY <1>1 DEF Holds, HoldsJob
<1>4. WorkerTyped(sweeping[w])'
  BY <1>1, <1>2 DEF WorkerTyped
<1>5. ASSUME Holds(w)' PROVE HolderKnows(sweeping[w])'
  <2>1. /\ HolderKnows(d) /\ sweeps'[d.job].items = sweeps[d.job].items
        /\ TransferStates(d.job, d.source, "gas")' = TransferStates(d.job, d.source, "gas")
    BY <1>1, <1>2, <1>3, <1>5
  <2>2. HolderKnows(d)'
    BY <1>1, <2>1 DEF HolderKnows
  <2> QED
    BY <1>1, <2>2 DEF HolderKnows
<1> QED
  BY <1>4, <1>5

LEMMA AllKnow == WorkersKnow <=> \A w \in SweepWorkers : WorkerKnows(w)
  BY DEF WorkersKnow, WorkerKnows

(* No transfer moves, and at most the state and the lease of a job.         *)
JobStep(j) ==
  /\ OnlyJob(j) /\ sweeps'[j].items = sweeps[j].items
  /\ sweeps'[j].state = "running" <=> sweeps'[j].lease # NoLease
  /\ \/ sweeps'[j].state = sweeps[j].state
     \/ /\ sweeps[j].state \notin Ended
        /\ \/ sweeps'[j].state \notin Ended \union {"queued"}
           \/ sweeps'[j].state = "complete" /\ Complete(j)
           \/ sweeps'[j].state = "cancelled" /\ Outstanding(j) = {}

LEMMA JobStepAgrees ==
  ASSUME SweepsInv, signed' = signed, NEW j \in 1..Len(sweeps), JobStep(j)
  PROVE  OneEachTransfer' /\ ItemsAgree' /\ OneOpenSweep' /\ DryIsEvm'
<1>1. /\ OneEachTransfer' /\ \A k, s, x : TransferStates(k, s, x)' = TransferStates(k, s, x)
  BY StatesKept DEF SweepsInv
<1>2. /\ Len(sweeps') = Len(sweeps)
      /\ \A k \in 1..Len(sweeps) : /\ sweeps'[k].family = sweeps[k].family
                                   /\ sweeps'[k].dry = sweeps[k].dry
                                   /\ sweeps'[k].items = sweeps[k].items
                                   /\ k # j => sweeps'[k] = sweeps[k]
  BY DEF JobStep, OnlyJob
<1>3. \A k \in 1..Len(sweeps) : sweeps'[k].state \notin Ended => sweeps[k].state \notin Ended
  BY <1>2 DEF JobStep
<1>4. OneOpenSweep' /\ DryIsEvm'
  BY <1>2, <1>3 DEF OneOpenSweep, DryIsEvm, SweepsInv
<1>5. \A k \in 1..Len(sweeps) : sweeps'[k].state = "running" <=> sweeps'[k].lease # NoLease
  BY <1>2 DEF JobStep, SweepsInv, ItemsAgree
<1>6. ASSUME NEW k \in 1..Len(sweeps), NEW s \in Sources
      PROVE  JobOK(sweeps'[k].state, sweeps'[k].items[s],
                   TransferStates(k, s, "gas") \union TransferStates(k, s, "sweep"))
  <2>1. JobOK(sweeps[k].state, sweeps[k].items[s],
              TransferStates(k, s, "gas") \union TransferStates(k, s, "sweep"))
    BY DEF SweepsInv, ItemsAgree
  <2>2. CASE sweeps'[k].state = sweeps[k].state
    BY <1>2, <2>1, <2>2
  <2>3. CASE k = j /\ sweeps'[j].state \notin Ended \union {"queued"}
    BY <2>3 DEF JobOK, Ended
  <2>4. CASE k = j /\ sweeps'[j].state = "complete" /\ Complete(j)
    BY <1>2, <2>4 DEF JobOK, Complete
  <2>5. CASE k = j /\ sweeps'[j].state = "cancelled" /\ Outstanding(j) = {}
    <3>1. \A x : TransferStates(j, s, x) \subseteq Settled
      BY <2>5 DEF TransferStates, Stored, Outstanding
    <3> QED
      BY <2>5, <3>1 DEF JobOK
  <2> QED
    BY <1>2, <2>2, <2>3, <2>4, <2>5 DEF JobStep
<1>7. ItemsAgree'
  BY <1>1, <1>2, <1>5, <1>6 DEF ItemsAgree, SweepsInv
<1> QED
  BY <1>1, <1>4, <1>7

(* Of job j, which does not end, the item of source s moves.                *)
LEMMA ItemStepAgrees ==
  ASSUME SweepsInv, NEW j \in 1..Len(sweeps), NEW s \in Sources, OnlyJob(j),
         \A k, y, x : k # j \/ y # s => TransferStates(k, y, x)' = TransferStates(k, y, x),
         \A y \in Sources \ {s} : sweeps'[j].items[y] = sweeps[j].items[y],
         sweeps'[j].state = "running" <=> sweeps'[j].lease # NoLease,
         sweeps[j].state \notin Ended,
         sweeps'[j].state \notin Ended \union {"queued"},
         ItemOK(sweeps[j].family, sweeps'[j].items[s],
                TransferStates(j, s, "gas")', TransferStates(j, s, "sweep")')
  PROVE  ItemsAgree' /\ OneOpenSweep' /\ DryIsEvm'
<1>2. /\ Len(sweeps') = Len(sweeps)
      /\ \A k \in 1..Len(sweeps) : /\ sweeps'[k].family = sweeps[k].family
                                   /\ sweeps'[k].dry = sweeps[k].dry
                                   /\ k # j => sweeps'[k] = sweeps[k]
  BY DEF OnlyJob
<1>3. \A k \in 1..Len(sweeps) : sweeps'[k].state \notin Ended => sweeps[k].state \notin Ended
  BY <1>2
<1>4. OneOpenSweep' /\ DryIsEvm'
  BY <1>2, <1>3 DEF OneOpenSweep, DryIsEvm, SweepsInv
<1>5. \A k \in 1..Len(sweeps) : sweeps'[k].state = "running" <=> sweeps'[k].lease # NoLease
  BY <1>2 DEF SweepsInv, ItemsAgree
<1>6. ASSUME NEW k \in 1..Len(sweeps), NEW y \in Sources
      PROVE  /\ ItemOK(sweeps'[k].family, sweeps'[k].items[y],
                       TransferStates(k, y, "gas")', TransferStates(k, y, "sweep")')
             /\ JobOK(sweeps'[k].state, sweeps'[k].items[y],
                      TransferStates(k, y, "gas")' \union TransferStates(k, y, "sweep")')
  <2>1. /\ ItemOK(sweeps[k].family, sweeps[k].items[y],
                  TransferStates(k, y, "gas"), TransferStates(k, y, "sweep"))
        /\ JobOK(sweeps[k].state, sweeps[k].items[y],
                 TransferStates(k, y, "gas") \union TransferStates(k, y, "sweep"))
    BY DEF SweepsInv, ItemsAgree
  <2>2. CASE k # j
    <3>1. /\ TransferStates(k, y, "gas")' = TransferStates(k, y, "gas")
          /\ TransferStates(k, y, "sweep")' = TransferStates(k, y, "sweep")
      BY <2>2
    <3> QED
      BY <1>2, <2>1, <2>2, <3>1
  <2>3. CASE k = j
    <3>1. \A item, states : JobOK(sweeps'[j].state, item, states)
      BY DEF JobOK, Ended
    <3> QED
      BY <1>2, <2>1, <2>3, <3>1
  <2> QED
    BY <2>2, <2>3
<1>7. ItemsAgree'
  BY <1>2, <1>5, <1>6 DEF ItemsAgree
<1> QED
  BY <1>4, <1>7

(* The end of a round.                                                      *)
LEMMA RoundEnds ==
  ASSUME SweepsInv, NEW w \in SweepWorkers, sweeping[w] # Resting,
         NEW st \in {"waiting", "failed", "fee_review_required"}, Finish(w, st, sweeps)
  PROVE  /\ sweeping' = [sweeping EXCEPT ![w] = Resting]
         /\ \/ sweeps' = sweeps
            \/ /\ JobStep(sweeping[w].job) /\ Is(sweeps'[sweeping[w].job], st, NoLease, FALSE)
<1>1. TablesTyped /\ sweeping[w].job \in 1..Len(sweeps)
  BY DEF SweepsInv, WorkersKnow, WorkerTyped
<1>2. CASE sweeps[sweeping[w].job].lease # w
  BY <1>2 DEF Finish
<1>3. CASE sweeps[sweeping[w].job].lease = w
  <2>1. sweeps' = Released(sweeping[w].job, st)
    BY <1>3 DEF Finish, Released
  <2>2. st \in SweepStates /\ st \notin Ended \union {"queued", "running"}
    BY DEF SweepStates, Ended
  <2>3. sweeps[sweeping[w].job].state = "running"
    BY <1>1, <1>3, SweepNamesAssumption DEF SweepsInv, ItemsAgree
  <2>4. OnlyJob(sweeping[w].job) /\ Is(sweeps'[sweeping[w].job], st, NoLease, FALSE)
        /\ sweeps'[sweeping[w].job].items = sweeps[sweeping[w].job].items
    BY <1>1, <2>1, <2>2, JobReleased
  <2> QED
    BY <2>2, <2>3, <2>4 DEF JobStep, Is, Finish, Ended
<1> QED
  BY <1>2, <1>3 DEF Finish

(* A step that moves no transfer: what is left to show is what its worker   *)
(* learns.                                                                  *)
LEMMA QuietStep ==
  ASSUME SweepsInv, signed' = signed, fate' \in Seq(Fates), Len(fate') = Len(fate), Recorded',
         NEW w, DOMAIN sweeping' = SweepWorkers,
         \A v \in SweepWorkers \ {w} : sweeping'[v] = sweeping[v],
         \/ sweeps' = sweeps
         \/ \E j \in 1..Len(sweeps) : /\ JobStep(j)
                                      /\ \A v \in SweepWorkers \ {w} : HoldsJob(j, v)' => HoldsJob(j, v),
         w \in SweepWorkers => WorkerKnows(w)'
  PROVE  SweepsInv'
<1> DEFINE Jobs ==
      /\ sweeps' \in Seq(SweepType) /\ Len(sweeps') = Len(sweeps)
      /\ OneEachTransfer' /\ ItemsAgree' /\ OneOpenSweep' /\ DryIsEvm'
      /\ \A k \in 1..Len(sweeps) : sweeps'[k].family = sweeps[k].family /\ sweeps'[k].items = sweeps[k].items
      /\ \A v \in SweepWorkers \ {w}, k \in 1..Len(sweeps) : HoldsJob(k, v)' => HoldsJob(k, v)
<1>1. \A k, s, x : TransferStates(k, s, x)' = TransferStates(k, s, x)
  BY StatesKept
<1>2. Jobs
  <2>1. CASE sweeps' = sweeps
    BY <1>1, <2>1, StatesKept DEF SweepsInv, TablesTyped, ItemsAgree, OneOpenSweep, DryIsEvm, HoldsJob
  <2>2. ASSUME NEW j \in 1..Len(sweeps), JobStep(j),
               \A v \in SweepWorkers \ {w} : HoldsJob(j, v)' => HoldsJob(j, v)
        PROVE  Jobs
    <3>1. OneEachTransfer' /\ ItemsAgree' /\ OneOpenSweep' /\ DryIsEvm'
      BY <2>2, JobStepAgrees
    <3> QED
      BY <2>2, <3>1 DEF JobStep, OnlyJob, HoldsJob
  <2> QED
    BY <2>1, <2>2
<1>3. TablesTyped'
  BY <1>2 DEF SweepsInv, TablesTyped, Txs
<1>4. ASSUME NEW v \in SweepWorkers, v # w PROVE WorkerKnows(v)'
  <2>1. WorkerKnows(v)
    BY AllKnow DEF SweepsInv
  <2> QED
    BY <1>1, <1>2, <1>4, <2>1, OthersKnow
<1>5. WorkersKnow'
  BY <1>4 DEF WorkersKnow, WorkerKnows
<1> QED
  BY <1>2, <1>3, <1>5 DEF SweepsInv
-----------------------------------------------------------------------------
(* Jobs, and rounds that change no transfer.                                *)

LEMMA CostType ==
  ASSUME TablesTyped
  PROVE  /\ IsFiniteSet(Txs)
         /\ \A T \in SUBSET Txs : IsFiniteSet(T) /\ CostOf(T) \in Nat /\ Cardinality(T) \in Nat
<1> DEFINE f == [i \in Txs |-> Cost(signed[i])]
<1>1. Txs = 1..Len(signed) /\ Len(signed) \in Nat
  BY TxRows
<1>2. IsFiniteSet(Txs)
  BY <1>1, FS_Interval
<1>3. \A i \in Txs : f[i] \in Nat
  BY DEF Cost
<1>4. \A T \in SUBSET Txs : CostOf(T) = SumFunctionOnSet(f, T)
  BY DEF CostOf
<1> HIDE DEF f
<1>5. \A T \in SUBSET Txs : SumFunctionOnSet(f, T) \in Nat
  BY <1>2, <1>3, SumOfNaturals
<1>6. \A T \in SUBSET Txs : IsFiniteSet(T) /\ Cardinality(T) \in Nat
  BY <1>2, FS_Subset, FS_CardinalityType
<1> QED
  BY <1>2, <1>4, <1>5, <1>6

LEMMA GasType == ASSUME TablesTyped, NEW from PROVE Gas(from) \in Int
<1> DEFINE executed == {i \in Sent(from) : fate[i] \in Final}
           got == {i \in Txs : signed[i].kind = "gas" /\ signed[i].source = from /\ fate[i] = "ok"}
           first == IF from = "funding" THEN FundingGas ELSE IF from \in Dry THEN 0 ELSE MaxSweeps
<1>1. executed \in SUBSET Txs /\ got \in SUBSET Txs
  BY DEF Sent
<1>2. Gas(from) = first + Cardinality(got) - CostOf(executed)
  BY DEF Gas
<1>3. first \in Nat
  BY SweepsAssumption
<1> HIDE DEF executed, got, first
<1>4. Cardinality(got) \in Nat /\ CostOf(executed) \in Nat
  BY <1>1, CostType
<1> QED
  BY <1>2, <1>3, <1>4

LEMMA StagingKnown ==
  ASSUME SweepsInv, NEW j \in 1..Len(sweeps), NEW s \in Sources, NEW k \in {"gas", "sweep"},
         NEW read \in Nat, k = "gas" => sweeps[j].family = "evm", NEW d, d = Staging(j, s, k, read)
  PROVE  WorkerTyped(d) /\ d.job = j /\ d.source = s /\ d.kind = k /\ d.step = "stage" /\ d.nonce = read
         /\ d.gas = Gas(Payer(d))
<1>1. /\ d.job = j /\ d.source = s /\ d.kind = k /\ d.step = "stage" /\ d.nonce = read
      /\ d.gas = Gas(IF k = "gas" THEN "funding" ELSE s)
  BY DEF Staging
<1>2. d.gas \in Int
  BY <1>1, GasType DEF SweepsInv
<1> QED
  BY <1>1, <1>2 DEF WorkerTyped, Payer

LEMMA JobSteps ==
  ASSUME SweepsInv, NEW j \in 1..Len(sweeps),
         CancelSweep(j) \/ RetrySweep(j) \/ EndSweep(j) \/ LeaseEnds(j)
  PROVE  /\ signed' = signed /\ fate' = fate /\ sweeping' = sweeping
         /\ JobStep(j) /\ \A v \in SweepWorkers : HoldsJob(j, v)' => HoldsJob(j, v)
<1>1. /\ signed' = signed /\ fate' = fate /\ sweeping' = sweeping /\ TablesTyped
  BY DEF CancelSweep, RetrySweep, EndSweep, LeaseEnds, SweepsInv
<1>2. sweeps[j] \in SweepType /\ (sweeps[j].state = "running" <=> sweeps[j].lease # NoLease)
  BY <1>1, TxRows DEF SweepsInv, ItemsAgree
<1>3. JobStep(j) /\ \A v \in SweepWorkers : HoldsJob(j, v)' => HoldsJob(j, v)
  <2>1. CASE CancelSweep(j)
    <3>1. OnlyJob(j) /\ Is(sweeps'[j], "cancelled", NoLease, FALSE) /\ sweeps'[j].items = sweeps[j].items
      BY <1>1, <2>1, JobReleased DEF CancelSweep, SweepStates
    <3> QED
      BY <2>1, <3>1 DEF CancelSweep, JobStep, Is, HoldsJob
  <2>2. CASE RetrySweep(j)
    <3>1. OnlyJob(j) /\ Is(sweeps'[j], "waiting", NoLease, FALSE) /\ sweeps'[j].items = sweeps[j].items
      BY <1>1, <2>2, JobReleased DEF RetrySweep, SweepStates
    <3> QED
      BY <2>2, <3>1 DEF RetrySweep, JobStep, Is, HoldsJob, Ended
  <2>3. CASE EndSweep(j)
    <3>1. PICK st \in {"complete", "failed"} :
            sweeps' = Released(j, st) /\ (st = "complete" => Complete(j))
      BY <2>3 DEF EndSweep
    <3>2. OnlyJob(j) /\ Is(sweeps'[j], st, NoLease, FALSE) /\ sweeps'[j].items = sweeps[j].items
      BY <1>1, <3>1, JobReleased DEF SweepStates
    <3>3. sweeps[j].state \notin Ended
      BY <2>3 DEF EndSweep, Claimable, Ended
    <3> QED
      BY <3>1, <3>2, <3>3 DEF JobStep, Is, HoldsJob, Ended
  <2>4. CASE LeaseEnds(j)
    <3>1. /\ OnlyJob(j) /\ Is(sweeps'[j], sweeps[j].state, sweeps[j].lease, FALSE)
          /\ sweeps'[j].items = sweeps[j].items
      BY <1>1, <2>4, JobExpires DEF LeaseEnds
    <3> QED
      BY <1>2, <3>1 DEF JobStep, Is, HoldsJob
  <2> QED
    BY <2>1, <2>2, <2>3, <2>4
<1> QED
  BY <1>1, <1>3

LEMMA CancelStep ==
  ASSUME SweepsInv, NEW j \in 1..Len(sweeps),
         CancelSweep(j) \/ RetrySweep(j) \/ EndSweep(j) \/ LeaseEnds(j)
  PROVE  SweepsInv'
<1>1. /\ signed' = signed /\ fate' = fate /\ sweeping' = sweeping
      /\ JobStep(j) /\ \A v \in SweepWorkers : HoldsJob(j, v)' => HoldsJob(j, v)
  BY JobSteps
<1>2. Recorded' /\ fate' \in Seq(Fates) /\ Len(fate') = Len(fate) /\ DOMAIN sweeping' = SweepWorkers
  BY <1>1 DEF SweepsInv, Recorded, Txs, TablesTyped
<1> QED
  BY <1>1, <1>2, QuietStep, SweepNamesAssumption

(* The network.                                                             *)
LEMMA FateMoves ==
  ASSUME TablesTyped, NEW i \in Txs, NEW f \in Fates, fate' = [fate EXCEPT ![i] = f]
  PROVE  /\ fate' \in Seq(Fates) /\ Len(fate') = Len(fate)
         /\ \A x \in Txs : fate'[x] = IF x = i THEN f ELSE fate[x]
<1>1. fate \in Seq(Fates) /\ DOMAIN fate = Txs
  BY TxRows DEF TablesTyped
<1> QED
  BY <1>1, ExceptSeq

LEMMA NetworkSteps ==
  ASSUME SweepsInv, NEW i \in Txs, NEW f \in Fates, fate[i] \notin Final,
         fate' = [fate EXCEPT ![i] = f], UNCHANGED <<sweeps, signed, sweeping>>
  PROVE  SweepsInv'
<1>1. /\ fate' \in Seq(Fates) /\ Len(fate') = Len(fate)
      /\ \A x \in Txs : fate'[x] = IF x = i THEN f ELSE fate[x]
  BY FateMoves DEF SweepsInv
<1>2. Recorded'
  BY <1>1 DEF SweepsInv, Recorded, Txs, Final
<1>3. DOMAIN sweeping' = SweepWorkers
  BY DEF SweepsInv, TablesTyped
<1> QED
  BY <1>1, <1>2, <1>3, QuietStep, SweepNamesAssumption

(* A new job.                                                               *)
LEMMA CreateStep ==
  ASSUME SweepsInv, NEW f \in Families, NEW c \in SUBSET Sources, CreateSweep(f, c)
  PROVE  SweepsInv'
<1> DEFINE v == [family |-> f, state |-> "queued", lease |-> NoLease, live |-> FALSE,
                 dry |-> Topups(f, c),
                 items |-> [s \in Sources |-> IF s \in c THEN "queued" ELSE NotAsked]]
           n == Len(sweeps)
<1>1. /\ TablesTyped /\ sweeps \in Seq(SweepType) /\ n \in Nat /\ DOMAIN sweeps = 1..n
      /\ MaxSweeps \in Nat /\ n <= MaxSweeps
  BY TxRows, SweepsAssumption DEF SweepsInv, TablesTyped
<1>2. sweeps' = Append(sweeps, v) /\ UNCHANGED <<signed, fate, sweeping>> /\ n < MaxSweeps
  BY DEF CreateSweep
<1>3. /\ v \in SweepType /\ v.family = f /\ v.state = "queued" /\ v.lease = NoLease /\ v.live = FALSE
      /\ v.dry = Topups(f, c) /\ \A s \in Sources : v.items[s] \in {NotAsked, "queued"}
  <2>1. [s \in Sources |-> IF s \in c THEN "queued" ELSE NotAsked] \in [Sources -> ItemStates]
    BY DEF ItemStates
  <2>2. Topups(f, c) \in SUBSET Sources
    BY DEF Topups
  <2> QED
    BY <2>1, <2>2 DEF SweepType, SweepStates
<1> HIDE DEF v
<1>4. /\ sweeps' \in Seq(SweepType) /\ Len(sweeps') = n + 1
      /\ sweeps'[n + 1] = v /\ \A k \in 1..n : sweeps'[k] = sweeps[k]
  BY <1>1, <1>2, <1>3, AppendProperties
<1>5. \A k, s, x : TransferStates(k, s, x)' = TransferStates(k, s, x)
  BY <1>2, StatesKept
<1>6. \A s, x : TransferStates(n + 1, s, x) = {}
  <2>1. \A i \in Txs : signed[i].job \in 1..n
    BY <1>1, TxRows
  <2>2. n + 1 \notin 1..n
    BY <1>1
  <2> HIDE DEF n
  <2> QED
    BY <2>1, <2>2 DEF TransferStates, Stored
<1>7. 1..n + 1 = (1..n) \union {n + 1} /\ n + 1 \notin 1..n /\ n + 1 <= MaxSweeps
  BY <1>1, <1>2
<1>8. TablesTyped'
  <2>1. Txs' = Txs
    BY <1>2 DEF Txs
  <2>2. 1..n \subseteq 1..Len(sweeps')
    BY <1>4, <1>7
  <2>3. \A i \in Txs : signed[i].job \in 1..n
    BY <1>1, TxRows
  <2> HIDE DEF n
  <2> QED
    BY <1>1, <1>2, <1>4, <1>7, <2>1, <2>2, <2>3 DEF TablesTyped
<1> HIDE DEF n
<1>9. OneEachTransfer' /\ Recorded'
  BY <1>2, StatesKept DEF SweepsInv, Recorded, Txs
<1>10. ItemsAgree'
  <2> SUFFICES ASSUME NEW k \in 1..n + 1
               PROVE  /\ sweeps'[k].state = "running" <=> sweeps'[k].lease # NoLease
                      /\ \A s \in Sources :
                           /\ ItemOK(sweeps'[k].family, sweeps'[k].items[s],
                                     TransferStates(k, s, "gas"), TransferStates(k, s, "sweep"))
                           /\ JobOK(sweeps'[k].state, sweeps'[k].items[s],
                                    TransferStates(k, s, "gas") \union TransferStates(k, s, "sweep"))
    BY <1>4, <1>5 DEF ItemsAgree
  <2>1. CASE k \in 1..n
    BY <1>4, <2>1 DEF SweepsInv, ItemsAgree, n
  <2>2. CASE k = n + 1
    BY <1>3, <1>4, <1>6, <2>2 DEF ItemOK, EvmOK, SolanaOK, JobOK, NotAsked, Families
  <2> QED
    BY <1>7, <2>1, <2>2
<1>11. OneOpenSweep' /\ DryIsEvm'
  <2>1. \A k \in 1..n : sweeps[k].family = f => sweeps[k].state \in Ended
    BY DEF CreateSweep, n
  <2>2. v.dry # {} => f = "evm"
    BY <1>3 DEF Topups
  <2> QED
    BY <1>3, <1>4, <1>7, <2>1, <2>2 DEF OneOpenSweep, DryIsEvm, SweepsInv, n
<1>12. ASSUME NEW w \in SweepWorkers PROVE WorkerKnows(w)'
  <2>1. WorkerKnows(w) /\ sweeping'[w] = sweeping[w]
    BY <1>2, AllKnow DEF SweepsInv
  <2>2. \A k \in 1..n : k \in 1..Len(sweeps') /\ sweeps'[k].family = sweeps[k].family
    BY <1>4, <1>7
  <2>3. \A k \in 1..n : HoldsJob(k, w)' => HoldsJob(k, w) /\ sweeps'[k].items = sweeps[k].items
    BY <1>4 DEF HoldsJob
  <2> QED
    BY <1>5, <2>1, <2>2, <2>3, OthersKnow DEF n
<1>13. WorkersKnow'
  BY <1>12 DEF WorkersKnow, WorkerKnows
<1> QED
  BY <1>8, <1>9, <1>10, <1>11, <1>13 DEF SweepsInv
LEMMA NonceType ==
  ASSUME TablesTyped, NEW from, NEW read \in Nat
  PROVE  /\ NextNonce(from, read) \in Nat /\ NextNonce(from, read) >= read
         /\ \A i \in Sent(from) : signed[i].nonce < NextNonce(from, read)
         /\ NextNonce(from, read) = read \/ \E i \in Sent(from) : NextNonce(from, read) = signed[i].nonce + 1
<1> DEFINE taken == {signed[i].nonce : i \in Sent(from)}
<1>1. /\ IsFiniteSet(Sent(from)) /\ Sent(from) \subseteq Txs
  BY CostType DEF Sent
<1>2. \A i \in Sent(from) : signed[i].nonce \in Nat
  BY <1>1, TxRows DEF TxType
<1>4. NextNonce(from, read) = IF taken # {} /\ read <= Max(taken) THEN Max(taken) + 1 ELSE read
  BY DEF NextNonce
<1>5. taken # {} => Max(taken) \in taken /\ \A n \in taken : n <= Max(taken)
  <2> SUFFICES ASSUME taken # {}
               PROVE  Max(taken) \in taken /\ \A n \in taken : n <= Max(taken)
    OBVIOUS
  <2> DEFINE f == [i \in Txs |-> signed[i].nonce]
  <2>1. IsFiniteSet(Txs) /\ \A i \in Txs : f[i] \in Nat
    BY CostType, TxRows DEF TxType
  <2> HIDE DEF f
  <2>2. PICK n \in Nat : \A i \in Txs : f[i] <= n
    BY <2>1, SumOfNaturals
  <2>3. taken \in SUBSET (0..n)
    BY <1>1, <1>2, <2>2 DEF f
  <2> HIDE DEF taken
  <2> QED
    BY <2>3, GreatestOf
<1>6. \A m \in taken : m \in Nat
  BY <1>2
<1>7. \A i \in Sent(from) : signed[i].nonce \in taken
  OBVIOUS
<1>8. \A m \in taken : \E i \in Sent(from) : m = signed[i].nonce
  OBVIOUS
<1> DEFINE next == NextNonce(from, read)
           most == Max(taken)
<1> HIDE DEF taken, next, most
<1>9. next = IF taken # {} /\ read <= most THEN most + 1 ELSE read
  BY <1>4 DEF next, most
<1>10. taken # {} => most \in taken /\ \A m \in taken : m <= most
  BY <1>5 DEF most
<1>11. next \in Nat /\ next >= read /\ \A m \in taken : m < next
  BY <1>6, <1>9, <1>10
<1>12. next = read \/ \E m \in taken : next = m + 1
  BY <1>9, <1>10
<1> QED
  BY <1>7, <1>8, <1>11, <1>12 DEF next
-----------------------------------------------------------------------------
(* Rounds.                                                                  *)

LEMMA WorkerFacts ==
  ASSUME SweepsInv, NEW w \in SweepWorkers, sweeping[w] # Resting
  PROVE  /\ TablesTyped /\ OneEachTransfer /\ WorkerTyped(sweeping[w])
         /\ sweeping[w].job \in 1..Len(sweeps) /\ sweeping[w].source \in Sources
         /\ sweeping[w].kind \in {"gas", "sweep"}
         /\ sweeps[sweeping[w].job] \in SweepType
         /\ Holds(w) => HolderKnows(sweeping[w]) /\ HoldsJob(sweeping[w].job, w)
         /\ ItemOK(sweeps[sweeping[w].job].family, sweeps[sweeping[w].job].items[sweeping[w].source],
                   TransferStates(sweeping[w].job, sweeping[w].source, "gas"),
                   TransferStates(sweeping[w].job, sweeping[w].source, "sweep"))
<1>1. TablesTyped /\ OneEachTransfer /\ WorkerTyped(sweeping[w]) /\ (Holds(w) => HolderKnows(sweeping[w]))
  BY DEF SweepsInv, WorkersKnow
<1>2. /\ sweeping[w].job \in 1..Len(sweeps) /\ sweeping[w].source \in Sources
      /\ sweeping[w].kind \in {"gas", "sweep"}
  BY <1>1 DEF WorkerTyped
<1>3. sweeps[sweeping[w].job] \in SweepType
  BY <1>1, <1>2, TxRows
<1> QED
  BY <1>1, <1>2, <1>3 DEF SweepsInv, ItemsAgree, Holds, HoldsJob

LEMMA FateKept == SweepsInv /\ fate' = fate => fate' \in Seq(Fates) /\ Len(fate') = Len(fate)
  BY DEF SweepsInv, TablesTyped

LEMMA RecordedKept ==
  SweepsInv /\ signed' = signed
    /\ (\A i \in Txs : fate[i] \in Final => fate'[i] = fate[i]) => Recorded'
  BY DEF SweepsInv, Recorded, Txs, Final

(* A round that ends, and does nothing but what its end does; the network   *)
(* may have heard of its transfer.                                          *)
LEMMA RoundEndsHeard ==
  ASSUME SweepsInv, NEW w \in SweepWorkers, sweeping[w] # Resting,
         NEW st \in {"waiting", "failed", "fee_review_required"}, Finish(w, st, sweeps),
         signed' = signed, fate' \in Seq(Fates), Len(fate') = Len(fate),
         \A i \in Txs : fate[i] \in Final => fate'[i] = fate[i]
  PROVE  SweepsInv'
<1>1. /\ sweeping' = [sweeping EXCEPT ![w] = Resting]
      /\ sweeps' = sweeps \/ (JobStep(sweeping[w].job) /\ Is(sweeps'[sweeping[w].job], st, NoLease, FALSE))
  BY RoundEnds
<1>2. DOMAIN sweeping' = SweepWorkers /\ sweeping'[w] = Resting
      /\ \A v \in SweepWorkers \ {w} : sweeping'[v] = sweeping[v]
  BY <1>1 DEF SweepsInv, TablesTyped
<1>3. WorkerKnows(w)'
  BY <1>2 DEF WorkerKnows
<1>4. Recorded'
  BY RecordedKept
<1>5. \/ sweeps' = sweeps
      \/ \E j \in 1..Len(sweeps) : /\ JobStep(j)
                                   /\ \A v \in SweepWorkers \ {w} : HoldsJob(j, v)' => HoldsJob(j, v)
  <2>1. PICK j \in 1..Len(sweeps) : j = sweeping[w].job
    BY WorkerFacts
  <2>2. Is(sweeps'[j], st, NoLease, FALSE) => \A v : ~HoldsJob(j, v)'
    BY DEF Is, HoldsJob
  <2> QED
    BY <1>1, <2>1, <2>2
<1> QED
  BY <1>2, <1>3, <1>4, <1>5, QuietStep

LEMMA OnlyEnds ==
  ASSUME SweepsInv, NEW w \in SweepWorkers, sweeping[w] # Resting,
         NEW st \in {"waiting", "failed", "fee_review_required"}, Finish(w, st, sweeps),
         signed' = signed, fate' = fate
  PROVE  SweepsInv'
<1>1. fate' \in Seq(Fates) /\ Len(fate') = Len(fate) /\ \A i \in Txs : fate'[i] = fate[i]
  BY FateKept
<1> QED
  BY <1>1, RoundEndsHeard

(* A worker goes on by itself.                                              *)
LEMMA OnlyWorker ==
  ASSUME SweepsInv, NEW w \in SweepWorkers, NEW d, sweeping' = [sweeping EXCEPT ![w] = d],
         sweeps' = sweeps, signed' = signed, fate' \in Seq(Fates), Len(fate') = Len(fate),
         \A i \in Txs : fate[i] \in Final => fate'[i] = fate[i],
         d # Resting => WorkerTyped(d) /\ (HoldsJob(d.job, w) => HolderKnows(d))
  PROVE  SweepsInv'
<1>1. DOMAIN sweeping' = SweepWorkers /\ sweeping'[w] = d
      /\ \A v \in SweepWorkers \ {w} : sweeping'[v] = sweeping[v]
  BY DEF SweepsInv, TablesTyped
<1>2. WorkerKnows(w)'
  <2> SUFFICES ASSUME d # Resting PROVE WorkerTyped(d)' /\ (HoldsJob(d.job, w)' => HolderKnows(d)')
    BY <1>1 DEF WorkerKnows, Holds, HoldsJob, WorkerTyped, HolderKnows
  <2>1. \A j, s, k : TransferStates(j, s, k)' = TransferStates(j, s, k)
    BY StatesKept
  <2> QED
    BY <2>1 DEF WorkerTyped, HolderKnows, HoldsJob
<1> QED
  BY <1>1, <1>2, RecordedKept, QuietStep

LEMMA ClaimStep ==
  ASSUME SweepsInv, NEW w \in SweepWorkers, NEW j \in 1..Len(sweeps), NEW s \in Sources,
         NEW read \in Nat, ClaimSweep(w, j, s, read)
  PROVE  SweepsInv'
<1> DEFINE d == FirstStep(j, s, read)
           item == sweeps[j].items[s]
           gas == TransferStates(j, s, "gas")
           move == TransferStates(j, s, "sweep")
<1>1. /\ TablesTyped /\ sweeps[j] \in SweepType /\ sweeping' = [sweeping EXCEPT ![w] = d]
      /\ signed' = signed /\ fate' = fate
  BY TxRows DEF ClaimSweep, SweepsInv
<1>2. /\ OnlyJob(j) /\ Is(sweeps'[j], "running", w, TRUE) /\ sweeps'[j].items = sweeps[j].items
  BY <1>1, JobClaimed DEF ClaimSweep
<1>3. item \in {"queued", "gas_pending", "sweep_pending"} /\ ItemOK(sweeps[j].family, item, gas, move)
  BY <1>1 DEF ClaimSweep, SweepType, ItemStates, SweepsInv, ItemsAgree
<1>4. (Stored(j, s, "sweep") = {} <=> move = {}) /\ (Stored(j, s, "gas") = {} <=> gas = {})
  BY DEF TransferStates
<1>5. /\ JobStep(j) /\ \A v \in SweepWorkers \ {w} : HoldsJob(j, v)' => HoldsJob(j, v)
  BY <1>2, SweepNamesAssumption DEF JobStep, Is, HoldsJob, ClaimSweep, Claimable, Ended
<1>6. WorkerTyped(d) /\ HolderKnows(d)
  <2>1. CASE move # {}
    <3>1. d = Doing(j, s, "sweep", "send")
      BY <1>4, <2>1 DEF FirstStep
    <3>2. d.job = j /\ d.source = s /\ d.kind = "sweep" /\ d.step = "send"
      BY <3>1 DEF Doing
    <3>3. item = "sweep_pending"
      BY <1>3, <2>1 DEF ItemOK, EvmOK, SolanaOK
    <3> HIDE DEF d
    <3> QED
      BY <2>1, <3>2, <3>3 DEF WorkerTyped, HolderKnows, PendingItem
  <2>2. CASE move = {} /\ gas # {}
    <3>1. d = Doing(j, s, "gas", "send")
      BY <1>4, <2>2 DEF FirstStep
    <3>2. d.job = j /\ d.source = s /\ d.kind = "gas" /\ d.step = "send"
      BY <3>1 DEF Doing
    <3>3. item = "gas_pending" /\ sweeps[j].family = "evm"
      BY <1>1, <1>3, <2>2 DEF ItemOK, EvmOK, SolanaOK
    <3> HIDE DEF d
    <3> QED
      BY <2>2, <3>2, <3>3 DEF WorkerTyped, HolderKnows, PendingItem
  <2>3. CASE move = {} /\ gas = {}
    <3>1. PICK k \in {"gas", "sweep"} : d = Staging(j, s, k, read) /\ (k = "gas" => s \in sweeps[j].dry)
      BY <1>4, <2>3 DEF FirstStep
    <3>2. k = "gas" => sweeps[j].family = "evm"
      BY <3>1 DEF SweepsInv, DryIsEvm
    <3>3. item = "queued"
      BY <1>3, <2>3 DEF ItemOK, EvmOK, SolanaOK
    <3> HIDE DEF d
    <3>4. WorkerTyped(d) /\ d.job = j /\ d.source = s /\ d.kind = k /\ d.step = "stage"
      BY <3>1, <3>2, StagingKnown
    <3> QED
      BY <3>3, <3>4 DEF HolderKnows
  <2> QED
    BY <2>1, <2>2, <2>3
<1>e. PICK e : e = d
  OBVIOUS
<1> HIDE DEF d
<1>7. DOMAIN sweeping' = SweepWorkers /\ sweeping'[w] = e
      /\ \A v \in SweepWorkers \ {w} : sweeping'[v] = sweeping[v]
  BY <1>1, <1>e DEF TablesTyped
<1>8. WorkerKnows(w)'
  <2>1. \A k, y, x : TransferStates(k, y, x)' = TransferStates(k, y, x)
    BY <1>1, StatesKept
  <2>2. /\ Len(sweeps') = Len(sweeps)
        /\ \A k \in 1..Len(sweeps) : /\ sweeps'[k].family = sweeps[k].family
                                     /\ sweeps'[k].items = sweeps[k].items
    BY <1>5 DEF JobStep, OnlyJob
  <2>3. WorkerTyped(e)' /\ HolderKnows(e)'
    BY <1>6, <1>e, <2>1, <2>2 DEF WorkerTyped, HolderKnows
  <2> QED
    BY <1>7, <2>3 DEF WorkerKnows, WorkerTyped, HolderKnows
<1>9. Recorded' /\ fate' \in Seq(Fates) /\ Len(fate') = Len(fate)
  BY <1>1, RecordedKept, FateKept
<1> QED
  BY <1>1, <1>5, <1>7, <1>8, <1>9, QuietStep

(* Gas came: the round goes on to the transfer.                             *)
LEMMA GasCame ==
  ASSUME SweepsInv, NEW w \in SweepWorkers, sweeping[w] # Resting, NEW read \in Nat, NEW d,
         d = Staging(sweeping[w].job, sweeping[w].source, "sweep", read)
  PROVE  /\ WorkerTyped(d) /\ d.job = sweeping[w].job /\ d.source = sweeping[w].source
         /\ d.kind = "sweep" /\ d.step = "stage"
  BY WorkerFacts, StagingKnown

LEMMA KnownSweepStep ==
  ASSUME SweepsInv, NEW w \in SweepWorkers, NEW read \in Nat, Known(w, read)
  PROVE  SweepsInv'
<1> DEFINE i == Handled(w)
           j == sweeping[w].job
           s == sweeping[w].source
<1>1. sweeping[w] # Resting /\ sweeping[w].step = "send" /\ UNCHANGED <<signed, fate>>
  BY DEF Known, MaySend
<1>2. /\ WorkerTyped(sweeping[w]) /\ OneEachTransfer /\ (Holds(w) => HolderKnows(sweeping[w]))
      /\ (HoldsJob(j, w) => Holds(w))
  BY <1>1, WorkerFacts DEF Holds, HoldsJob
<1>3. CASE signed[i].state = "confirmed" /\ signed[i].kind = "gas"
  <2>1. PICK d : d = Staging(j, s, "sweep", read)
    OBVIOUS
  <2>2. sweeping' = [sweeping EXCEPT ![w] = d] /\ sweeps' = sweeps
    BY <1>3, <2>1 DEF Known, GoOn
  <2>3. WorkerTyped(d) /\ d.job = j /\ d.source = s /\ d.kind = "sweep" /\ d.step = "stage"
    BY <1>1, <2>1, GasCame
  <2>4. sweeping[w].kind = "gas" /\ TransferStates(j, s, "gas") = {"confirmed"}
    <3>1. TransferStates(j, s, sweeping[w].kind) # {}
      BY <1>1, <1>2 DEF WorkerTyped
    <3>2. Of(signed[i], j, s, sweeping[w].kind)
          /\ TransferStates(j, s, sweeping[w].kind) = {signed[i].state}
      BY <1>2, <3>1, TheTransfer DEF Handled
    <3> QED
      BY <1>3, <3>2 DEF Of
  <2>5. HoldsJob(j, w) => HolderKnows(d)
    BY <1>1, <1>2, <2>3, <2>4 DEF HolderKnows, PendingItem
  <2>6. fate' \in Seq(Fates) /\ Len(fate') = Len(fate)
    BY <1>1, FateKept
  <2> QED
    BY <1>1, <2>2, <2>3, <2>5, <2>6, OnlyWorker
<1>4. CASE ~(signed[i].state = "confirmed" /\ signed[i].kind = "gas")
  <2>1. PICK st \in {"waiting", "failed"} : Finish(w, st, sweeps)
    BY <1>4 DEF Known
  <2> QED
    BY <1>1, <2>1, OnlyEnds
<1> QED
  BY <1>3, <1>4

(* What the network hears changes nothing it has decided.                   *)
LEMMA HeardFate ==
  ASSUME TablesTyped, NEW w, NEW heard \in BOOLEAN, Handled(w) \in Txs, Broadcast(w, heard)
  PROVE  /\ fate' \in Seq(Fates) /\ Len(fate') = Len(fate)
         /\ \A x \in Txs : fate[x] \in Final \/ fate'[x] \in Final => fate'[x] = fate[x]
<1> DEFINE i == Handled(w)
<1>1. CASE heard /\ fate[i] = "unseen"
  <2>1. fate' = [fate EXCEPT ![i] = "mempool"] /\ "mempool" \in Fates
    BY <1>1 DEF Broadcast, Fates
  <2>2. /\ fate' \in Seq(Fates) /\ Len(fate') = Len(fate)
        /\ \A x \in Txs : fate'[x] = IF x = i THEN "mempool" ELSE fate[x]
    BY <2>1, FateMoves
  <2> QED
    BY <1>1, <2>2 DEF Final
<1>2. CASE ~(heard /\ fate[i] = "unseen")
  <2>1. fate' = fate
    BY <1>2 DEF Broadcast
  <2> QED
    BY <2>1 DEF TablesTyped
<1> QED
  BY <1>1, <1>2

(* The transfer a worker handles.                                           *)
LEMMA HandledTx ==
  ASSUME SweepsInv, NEW w \in SweepWorkers, sweeping[w] # Resting, sweeping[w].step # "stage"
  PROVE  /\ Handled(w) \in Txs /\ signed[Handled(w)].job = sweeping[w].job
         /\ TransferStates(sweeping[w].job, sweeping[w].source, sweeping[w].kind)
              = {signed[Handled(w)].state}
<1>1. OneEachTransfer /\ TransferStates(sweeping[w].job, sweeping[w].source, sweeping[w].kind) # {}
  BY WorkerFacts DEF WorkerTyped
<1> QED
  BY <1>1, TheTransfer DEF Handled, Of

(* The round goes on to send, or has sent.                                  *)
LEMMA TurnsStep ==
  ASSUME SweepsInv, NEW w \in SweepWorkers, sweeping[w] # Resting,
         NEW step \in {"post", "sent"}, sweeping[w].step \in {"send", "post"},
         TurnsTo(w, step), signed' = signed, sweeps' = sweeps,
         fate' \in Seq(Fates), Len(fate') = Len(fate),
         \A x \in Txs : fate[x] \in Final => fate'[x] = fate[x],
         step = "post" => sweeping[w].kind = "sweep",
         sweeping[w].kind = "gas" => signed[Handled(w)].state \notin Settled
  PROVE  SweepsInv'
<1> DEFINE j == sweeping[w].job
           s == sweeping[w].source
           k == sweeping[w].kind
           d == Doing(j, s, k, step)
<1>1. /\ WorkerTyped(sweeping[w]) /\ (HoldsJob(j, w) => HolderKnows(sweeping[w]))
      /\ TransferStates(j, s, k) = {signed[Handled(w)].state}
  BY WorkerFacts, HandledTx DEF Holds, HoldsJob
<1>2. sweeping' = [sweeping EXCEPT ![w] = d]
  BY DEF TurnsTo, SweepsInv, TablesTyped
<1>3. PICK e : e = d
  OBVIOUS
<1>4. e.job = j /\ e.source = s /\ e.kind = k /\ e.step = step
  BY <1>3 DEF Doing
<1> HIDE DEF d
<1>5. WorkerTyped(e)
  BY <1>1, <1>4 DEF WorkerTyped
<1>6. HoldsJob(j, w) => HolderKnows(e)
  BY <1>1, <1>4 DEF HolderKnows
<1> QED
  BY <1>2, <1>3, <1>4, <1>5, <1>6, OnlyWorker

LEMMA QuietRounds ==
  ASSUME SweepsInv, NEW w \in SweepWorkers,
         \/ DropSweep(w) \/ Unrecorded(w)
         \/ RefuseToSign(w, "waiting") \/ RefuseToSign(w, "fee_review_required")
         \/ CheckSolana(w)
         \/ \E heard, answered \in BOOLEAN :
              BroadcastEvm(w, heard) \/ BroadcastSolana(w, heard, answered)
  PROVE  SweepsInv'
<1>1. CASE DropSweep(w)
  <2>1. fate' \in Seq(Fates) /\ Len(fate') = Len(fate)
    BY <1>1, FateKept DEF DropSweep
  <2> QED
    BY <1>1, <2>1, OnlyWorker DEF DropSweep
<1>2. CASE Unrecorded(w) \/ RefuseToSign(w, "waiting") \/ RefuseToSign(w, "fee_review_required")
  <2>1. sweeping[w] # Resting /\ UNCHANGED <<signed, fate>>
        /\ \E st \in {"waiting", "fee_review_required"} : Finish(w, st, sweeps)
    BY <1>2 DEF Unrecorded, Executed, MaySend, RefuseToSign
  <2> QED
    BY <2>1, OnlyEnds
<1>3. ASSUME NEW heard \in BOOLEAN, BroadcastEvm(w, heard) PROVE SweepsInv'
  <2>1. /\ sweeping[w] # Resting /\ sweeping[w].step = "send" /\ signed' = signed /\ sweeps' = sweeps
        /\ signed[Handled(w)].state \notin Settled /\ TurnsTo(w, "sent") /\ Broadcast(w, heard)
    BY <1>3 DEF BroadcastEvm, MayBroadcast, MaySend
  <2>2. TablesTyped /\ Handled(w) \in Txs
    BY <2>1, HandledTx DEF SweepsInv
  <2>3. /\ fate' \in Seq(Fates) /\ Len(fate') = Len(fate)
        /\ \A x \in Txs : fate[x] \in Final => fate'[x] = fate[x]
    BY <2>1, <2>2, HeardFate
  <2> QED
    BY <2>1, <2>3, TurnsStep
<1>4. CASE CheckSolana(w)
  <2>1. /\ sweeping[w] # Resting /\ sweeping[w].step = "send" /\ signed' = signed /\ fate' = fate
        /\ sweeps[signed[Handled(w)].job].family = "solana"
    BY <1>4 DEF CheckSolana, MayBroadcast, MaySend
  <2>2. sweeping[w].kind = "sweep"
    BY <2>1, HandledTx, WorkerFacts DEF WorkerTyped
  <2>3. /\ fate' \in Seq(Fates) /\ Len(fate') = Len(fate)
        /\ \A x \in Txs : fate[x] \in Final => fate'[x] = fate[x]
    BY <2>1, FateKept
  <2>4. CASE Holds(w)
    <3>1. TurnsTo(w, "post") /\ sweeps' = sweeps
      BY <1>4, <2>4 DEF CheckSolana
    <3> QED
      BY <2>1, <2>2, <2>3, <3>1, TurnsStep
  <2>5. CASE ~Holds(w)
    <3>1. Finish(w, "waiting", sweeps)
      BY <1>4, <2>5 DEF CheckSolana
    <3> QED
      BY <2>1, <3>1, OnlyEnds
  <2> QED
    BY <2>4, <2>5
<1>5. ASSUME NEW heard \in BOOLEAN, NEW answered \in BOOLEAN, BroadcastSolana(w, heard, answered)
      PROVE  SweepsInv'
  <2>1. sweeping[w] # Resting /\ sweeping[w].step = "post" /\ signed' = signed /\ Broadcast(w, heard)
    BY <1>5 DEF BroadcastSolana, MaySend
  <2>2. TablesTyped /\ Handled(w) \in Txs /\ sweeping[w].kind = "sweep"
    BY <2>1, HandledTx, WorkerFacts DEF SweepsInv, WorkerTyped
  <2>3. /\ fate' \in Seq(Fates) /\ Len(fate') = Len(fate)
        /\ \A x \in Txs : fate[x] \in Final => fate'[x] = fate[x]
    BY <2>1, <2>2, HeardFate
  <2>4. CASE answered
    <3>1. TurnsTo(w, "sent") /\ sweeps' = sweeps
      BY <1>5, <2>4 DEF BroadcastSolana
    <3> QED
      BY <2>1, <2>2, <2>3, <3>1, TurnsStep
  <2>5. CASE ~answered
    <3>1. Finish(w, "waiting", sweeps)
      BY <1>5, <2>5 DEF BroadcastSolana
    <3> QED
      BY <2>1, <2>3, <3>1, RoundEndsHeard
  <2> QED
    BY <2>4, <2>5
<1> QED
  BY <1>1, <1>2, <1>3, <1>4, <1>5
-----------------------------------------------------------------------------
(* Steps that add or mark a transfer.                                       *)

(* Of job j the item and the transfers of source s move: of every other     *)
(* worker what it knows stays true, or it has lost the job.                 *)
LEMMA MovingStep ==
  ASSUME SweepsInv, NEW w \in SweepWorkers, NEW j \in 1..Len(sweeps), NEW s \in Sources,
         OnlyJob(j), TablesTyped', OneEachTransfer', Recorded',
         \A k, y, x : k # j \/ y # s => TransferStates(k, y, x)' = TransferStates(k, y, x),
         \A x : TransferStates(j, s, x) # {} => TransferStates(j, s, x)' # {},
         \A y \in Sources \ {s} : sweeps'[j].items[y] = sweeps[j].items[y],
         sweeps'[j].state = "running" <=> sweeps'[j].lease # NoLease,
         sweeps[j].state \notin Ended,
         sweeps'[j].state \notin Ended \union {"queued"},
         ItemOK(sweeps[j].family, sweeps'[j].items[s],
                TransferStates(j, s, "gas")', TransferStates(j, s, "sweep")'),
         \A v \in SweepWorkers \ {w} :
           /\ sweeping'[v] = sweeping[v]
           /\ HoldsJob(j, v)' => /\ HoldsJob(j, v) /\ sweeps'[j].items = sweeps[j].items
                                 /\ TransferStates(j, s, "gas")' = TransferStates(j, s, "gas"),
         WorkerKnows(w)'
  PROVE  SweepsInv'
<1>1. ItemsAgree' /\ OneOpenSweep' /\ DryIsEvm'
  BY ItemStepAgrees
<1>2. /\ Len(sweeps') = Len(sweeps)
      /\ \A k \in 1..Len(sweeps) : /\ sweeps'[k].family = sweeps[k].family
                                   /\ k # j => sweeps'[k] = sweeps[k]
  BY DEF OnlyJob
<1>3. ASSUME NEW v \in SweepWorkers, v # w PROVE WorkerKnows(v)'
  <2>1. WorkerKnows(v) /\ sweeping'[v] = sweeping[v]
    BY <1>3, AllKnow DEF SweepsInv
  <2>2. \A k \in 1..Len(sweeps) : k \in 1..Len(sweeps') /\ sweeps'[k].family = sweeps[k].family
    BY <1>2
  <2>3. \A k, y, x : TransferStates(k, y, x) # {} => TransferStates(k, y, x)' # {}
    OBVIOUS
  <2>4. ASSUME NEW k \in 1..Len(sweeps), HoldsJob(k, v)'
        PROVE  /\ HoldsJob(k, v) /\ sweeps'[k].items = sweeps[k].items
               /\ \A y : TransferStates(k, y, "gas")' = TransferStates(k, y, "gas")
    BY <1>2, <1>3, <2>4 DEF HoldsJob
  <2> QED
    BY <2>1, <2>2, <2>3, <2>4, OthersKnow
<1>4. WorkersKnow'
  BY <1>3 DEF WorkersKnow, WorkerKnows
<1> QED
  BY <1>1, <1>4 DEF SweepsInv

(* What holds of the item a worker stages.                                  *)
LEMMA StagedItem ==
  ASSUME SweepsInv, NEW w \in SweepWorkers, sweeping[w] # Resting, sweeping[w].step = "stage", Holds(w)
  PROVE  /\ TransferStates(sweeping[w].job, sweeping[w].source, sweeping[w].kind) = {}
         /\ ItemOK(sweeps[sweeping[w].job].family, PendingItem(sweeping[w].kind),
              IF sweeping[w].kind = "gas" THEN {"signed"}
              ELSE TransferStates(sweeping[w].job, sweeping[w].source, "gas"),
              IF sweeping[w].kind = "gas"
              THEN TransferStates(sweeping[w].job, sweeping[w].source, "sweep") ELSE {"signed"})
<1>1. /\ WorkerTyped(sweeping[w]) /\ HolderKnows(sweeping[w])
      /\ sweeping[w].kind \in {"gas", "sweep"}
      /\ sweeps[sweeping[w].job].family \in {"evm", "solana"}
      /\ ItemOK(sweeps[sweeping[w].job].family, sweeps[sweeping[w].job].items[sweeping[w].source],
                TransferStates(sweeping[w].job, sweeping[w].source, "gas"),
                TransferStates(sweeping[w].job, sweeping[w].source, "sweep"))
  BY WorkerFacts DEF SweepType, Families
<1>2. CASE sweeping[w].kind = "gas"
  BY <1>1, <1>2 DEF WorkerTyped, HolderKnows, ItemOK, EvmOK, PendingItem, NotAsked
<1>3. CASE sweeping[w].kind = "sweep"
  BY <1>1, <1>3 DEF HolderKnows, ItemOK, EvmOK, SolanaOK, PendingItem, NotAsked
<1> QED
  BY <1>1, <1>2, <1>3

LEMMA StagesStep ==
  ASSUME SweepsInv, NEW w \in SweepWorkers, sweeping[w] # Resting, sweeping[w].step = "stage", Holds(w),
         NEW t \in TxType, Of(t, sweeping[w].job, sweeping[w].source, sweeping[w].kind), t.state = "signed",
         Store(sweeping[w], t, PendingItem(sweeping[w].kind)), TurnsTo(w, "send")
  PROVE  SweepsInv'
<1>1. PICK j \in 1..Len(sweeps), s \in Sources, k \in {"gas", "sweep"} :
        j = sweeping[w].job /\ s = sweeping[w].source /\ k = sweeping[w].kind
  BY WorkerFacts
<1>2. PICK d : d = Doing(j, s, k, "send")
  OBVIOUS
<1>3. /\ d.job = j /\ d.source = s /\ d.kind = k /\ d.step = "send"
      /\ sweeping' = [sweeping EXCEPT ![w] = d]
  BY <1>1, <1>2 DEF Doing, TurnsTo
<1>4. /\ TablesTyped /\ OneEachTransfer /\ WorkerTyped(sweeping[w]) /\ HoldsJob(j, w)
      /\ sweeps[j] \in SweepType
  BY <1>1, WorkerFacts
<1>5. /\ TransferStates(j, s, k) = {}
      /\ ItemOK(sweeps[j].family, PendingItem(k),
                IF k = "gas" THEN {"signed"} ELSE TransferStates(j, s, "gas"),
                IF k = "gas" THEN TransferStates(j, s, "sweep") ELSE {"signed"})
  BY <1>1, StagedItem
<1>6. /\ signed' = Append(signed, t) /\ fate' = Append(fate, "unseen")
      /\ sweeps' = [sweeps EXCEPT ![j].items[s] = PendingItem(k)]
  <2>1. Stored(j, s, k) = {}
    BY <1>5 DEF TransferStates
  <2> QED
    BY <1>1, <2>1 DEF Store
<1>7. PendingItem(k) \in ItemStates
  BY DEF PendingItem, ItemStates
<1>8. /\ OnlyJob(j) /\ Is(sweeps'[j], sweeps[j].state, sweeps[j].lease, sweeps[j].live)
      /\ sweeps'[j].items = [sweeps[j].items EXCEPT ![s] = PendingItem(k)]
  BY <1>4, <1>6, <1>7, ItemMoved
<1>9. sweeps'[j].items[s] = PendingItem(k) /\ \A y \in Sources \ {s} : sweeps'[j].items[y] = sweeps[j].items[y]
  BY <1>4, <1>8 DEF SweepType
<1>10. Of(t, j, s, k) /\ t.job \in 1..Len(sweeps)
  BY <1>1 DEF Of
<1>11. /\ signed' \in Seq(TxType) /\ Len(signed') = Len(signed) + 1
       /\ Txs' = Txs \union {Len(signed) + 1} /\ Len(signed) + 1 \notin Txs
       /\ signed'[Len(signed) + 1] = t /\ \A i \in Txs : signed'[i] = signed[i]
       /\ \A x, y, z : TransferStates(x, y, z)' = TransferStates(x, y, z)
                            \union (IF Of(t, x, y, z) THEN {"signed"} ELSE {})
  <2>1. \A x, y, z : TransferStates(x, y, z)' = TransferStates(x, y, z)
                            \union (IF Of(t, x, y, z) THEN {t.state} ELSE {})
    BY <1>4, <1>6, <1>10, TransferAdded
  <2>2. t.state = "signed"
    OBVIOUS
  <2> QED
    BY <1>4, <1>6, <1>10, <2>1, <2>2, TransferAdded
<1>12. \A x, y, z : Of(t, x, y, z) <=> x = j /\ y = s /\ z = k
  BY <1>10 DEF Of
<1>13. TablesTyped'
  <2>1. fate \in Seq(Fates) /\ "unseen" \in Fates /\ Len(fate) = Len(signed)
    BY <1>4 DEF TablesTyped, Fates
  <2>2. fate' \in Seq(Fates) /\ Len(fate') = Len(fate) + 1
    BY <1>6, <2>1, AppendProperties
  <2>3. DOMAIN sweeping' = SweepWorkers
    BY <1>3, <1>4 DEF TablesTyped
  <2>4. sweeps' \in Seq(SweepType) /\ Len(sweeps') = Len(sweeps)
    BY <1>8 DEF OnlyJob
  <2>5. \A i \in Txs' : signed'[i].job \in 1..Len(sweeps)
    BY <1>4, <1>10, <1>11, TxRows
  <2> QED
    BY <1>4, <1>11, <2>1, <2>2, <2>3, <2>4, <2>5 DEF TablesTyped
<1>14. OneEachTransfer'
  <2>1. \A i \in Txs : ~(signed[i].job = j /\ signed[i].source = s /\ signed[i].kind = k)
    BY <1>5 DEF TransferStates, Stored
  <2> QED
    BY <1>4, <1>10, <1>11, <2>1 DEF OneEachTransfer, SameTransfer, Of
<1>15. Recorded'
  <2>1. fate \in Seq(Fates) /\ Len(fate) = Len(signed) /\ Txs = 1..Len(signed) /\ "unseen" \in Fates
    BY <1>4, TxRows DEF TablesTyped, Fates
  <2>2. \A i \in Txs : fate'[i] = fate[i]
    BY <1>6, <2>1, AppendProperties
  <2> QED
    BY <1>11, <2>2 DEF SweepsInv, Recorded
<1>16. HoldsJob(j, w)' /\ (sweeps'[j].state = "running" <=> sweeps'[j].lease # NoLease)
       /\ sweeps[j].state = "running" /\ sweeps'[j].state = "running"
  BY <1>4, <1>8, SweepNamesAssumption DEF HoldsJob, Is
<1>17. \A v \in SweepWorkers \ {w} : sweeping'[v] = sweeping[v] /\ ~HoldsJob(j, v)'
  BY <1>3, <1>16 DEF HoldsJob
<1>18. WorkerKnows(w)'
  <2>1. sweeping'[w] = d
    BY <1>3, <1>4 DEF TablesTyped
  <2>2. WorkerTyped(d)'
    <3>1. TransferStates(j, s, k)' # {}
      BY <1>11, <1>12
    <3> QED
      BY <1>1, <1>3, <1>4, <1>8, <3>1 DEF WorkerTyped, OnlyJob
  <2>3. HolderKnows(d)'
    BY <1>3, <1>9 DEF HolderKnows
  <2> QED
    BY <2>1, <2>2, <2>3 DEF WorkerKnows, WorkerTyped, HolderKnows
<1>19. ItemOK(sweeps[j].family, sweeps'[j].items[s],
              TransferStates(j, s, "gas")', TransferStates(j, s, "sweep")')
  <2>1. CASE k = "gas"
    <3>1. TransferStates(j, s, "gas")' = {"signed"} /\ TransferStates(j, s, "sweep")' = TransferStates(j, s, "sweep")
      BY <1>5, <1>11, <1>12, <2>1
    <3> QED
      BY <1>5, <1>9, <2>1, <3>1
  <2>2. CASE k = "sweep"
    <3>1. TransferStates(j, s, "gas")' = TransferStates(j, s, "gas") /\ TransferStates(j, s, "sweep")' = {"signed"}
      BY <1>5, <1>11, <1>12, <2>2
    <3> QED
      BY <1>5, <1>9, <2>2, <3>1
  <2> QED
    BY <2>1, <2>2
<1>20. /\ \A x, y, z : x # j \/ y # s => TransferStates(x, y, z)' = TransferStates(x, y, z)
       /\ \A z : TransferStates(j, s, z) # {} => TransferStates(j, s, z)' # {}
  BY <1>11, <1>12
<1> QED
  BY <1>8, <1>9, <1>13, <1>14, <1>15, <1>16, <1>17, <1>18, <1>19, <1>20, MovingStep DEF Ended

LEMMA SignStep ==
  ASSUME SweepsInv, NEW w \in SweepWorkers, SignEvm(w) \/ SignSolana(w)
  PROVE  SweepsInv'
<1> DEFINE d == sweeping[w]
           from == IF d.kind = "gas" THEN "funding" ELSE d.source
           t(n) == [job |-> d.job, source |-> d.source, kind |-> d.kind, nonce |-> n, state |-> "signed"]
<1>1. d # Resting /\ d.step = "stage"
  BY DEF SignEvm, SignSolana, MayStage
<1>2. /\ TablesTyped /\ WorkerTyped(d) /\ d.job \in 1..Len(sweeps) /\ d.source \in Sources
      /\ d.kind \in {"gas", "sweep"} /\ d.nonce \in Nat
  BY <1>1, WorkerFacts DEF WorkerTyped
<1>3. \A n \in Nat : t(n) \in TxType /\ Of(t(n), d.job, d.source, d.kind) /\ t(n).state = "signed"
  <2>1. d.job \in 1..MaxSweeps
    <3>1. Len(sweeps) <= MaxSweeps /\ Len(sweeps) \in Nat /\ MaxSweeps \in Nat
      BY <1>2, TxRows, SweepsAssumption DEF TablesTyped
    <3> HIDE DEF d
    <3> QED
      BY <1>2, <3>1
  <2> HIDE DEF d
  <2> QED
    BY <1>2, <2>1 DEF TxType, TxStates, Of
<1>4. NextNonce(from, d.nonce) \in Nat
  BY <1>1, <1>2, NonceType
<1>5. \/ \E n \in Nat : Holds(w) /\ Store(d, t(n), PendingItem(d.kind)) /\ TurnsTo(w, "send")
      \/ Finish(w, "waiting", sweeps) /\ UNCHANGED <<signed, fate>>
  <2>1. CASE SignEvm(w)
    BY <1>4, <2>1 DEF SignEvm
  <2>2. CASE SignSolana(w)
    <3>1. d.kind = "sweep"
      BY <1>2, <2>2 DEF SignSolana, MayStage, WorkerTyped
    <3> QED
      BY <2>2, <3>1 DEF SignSolana, PendingItem
  <2> QED
    BY <2>1, <2>2
<1>6. CASE Finish(w, "waiting", sweeps) /\ UNCHANGED <<signed, fate>>
  BY <1>1, <1>6, OnlyEnds
<1>7. ASSUME NEW n \in Nat, Holds(w), Store(d, t(n), PendingItem(d.kind)), TurnsTo(w, "send")
      PROVE  SweepsInv'
  <2>1. PICK x : x = t(n)
    OBVIOUS
  <2> QED
    BY <1>1, <1>3, <1>7, <2>1, StagesStep
<1> QED
  BY <1>5, <1>6, <1>7
(* The transfer a worker handles is marked.                                 *)
LEMMA Marks ==
  ASSUME SweepsInv, NEW w \in SweepWorkers, sweeping[w] # Resting, sweeping[w].step # "stage",
         NEW st \in TxStates, signed' = Marked(Handled(w), st), fate' = fate,
         st \in Settled => fate[Handled(w)] = IF st = "confirmed" THEN "ok" ELSE "reverted",
         NEW j, NEW s, NEW k, j = sweeping[w].job, s = sweeping[w].source, k = sweeping[w].kind
  PROVE  /\ Handled(w) \in Txs /\ TransferStates(j, s, k) = {signed[Handled(w)].state}
         /\ Of(signed[Handled(w)], j, s, k)
         /\ signed' \in Seq(TxType) /\ Len(signed') = Len(signed) /\ OneEachTransfer' /\ Recorded'
         /\ \A i \in Txs' : signed'[i].job \in 1..Len(sweeps)
         /\ \A x, y, z : TransferStates(x, y, z)' =
              IF x = j /\ y = s /\ z = k THEN {st} ELSE TransferStates(x, y, z)
<1> DEFINE h == Handled(w)
<1>1. TablesTyped /\ OneEachTransfer /\ WorkerTyped(sweeping[w]) /\ Recorded
  BY WorkerFacts DEF SweepsInv
<1>2. TransferStates(j, s, k) # {}
  BY <1>1 DEF WorkerTyped
<1>3. /\ h \in Txs /\ TransferStates(j, s, k) = {signed[h].state} /\ Of(signed[h], j, s, k)
  BY <1>1, <1>2, TheTransfer DEF Handled
<1>4. PICK x \in Txs : x = h
  BY <1>3
<1> HIDE DEF h
<1>5. signed' = Marked(x, st)
  BY <1>4 DEF h
<1>6. /\ signed' \in Seq(TxType) /\ Len(signed') = Len(signed) /\ Txs' = Txs
      /\ \A i \in Txs : /\ signed'[i].job = signed[i].job
                        /\ signed'[i].state = IF i = x THEN st ELSE signed[i].state
      /\ OneEachTransfer'
      /\ \A a, b, c : TransferStates(a, b, c)' =
              IF Of(signed[x], a, b, c) THEN {st} ELSE TransferStates(a, b, c)
  BY <1>1, <1>5, TransferMarked
<1>7. \A a, b, c : Of(signed[x], a, b, c) <=> a = j /\ b = s /\ c = k
  BY <1>3, <1>4 DEF Of
<1>8. Recorded'
  BY <1>1, <1>4, <1>6 DEF Recorded, Settled, h
<1>9. \A i \in Txs' : signed'[i].job \in 1..Len(sweeps)
  BY <1>1, <1>6, TxRows
<1> QED
  BY <1>3, <1>6, <1>7, <1>8, <1>9 DEF h

(* ... and the round ends, or goes on.                                      *)
LEMMA MarksStep ==
  ASSUME SweepsInv, NEW w \in SweepWorkers, sweeping[w] # Resting, sweeping[w].step # "stage",
         NEW st \in TxStates, signed' = Marked(Handled(w), st), fate' = fate,
         st \in Settled => fate[Handled(w)] = IF st = "confirmed" THEN "ok" ELSE "reverted",
         NEW j \in 1..Len(sweeps), NEW s \in Sources, NEW k \in {"gas", "sweep"},
         j = sweeping[w].job, s = sweeping[w].source, k = sweeping[w].kind,
         OnlyJob(j),
         \A y \in Sources \ {s} : sweeps'[j].items[y] = sweeps[j].items[y],
         sweeps'[j].state = "running" <=> sweeps'[j].lease # NoLease,
         sweeps[j].state \notin Ended,
         sweeps'[j].state \notin Ended \union {"queued"},
         ItemOK(sweeps[j].family, sweeps'[j].items[s],
                IF k = "gas" THEN {st} ELSE TransferStates(j, s, "gas"),
                IF k = "sweep" THEN {st} ELSE TransferStates(j, s, "sweep")),
         \A v \in SweepWorkers \ {w} :
           HoldsJob(j, v)' => /\ HoldsJob(j, v) /\ sweeps'[j].items = sweeps[j].items /\ k = "sweep",
         NEW d, sweeping' = [sweeping EXCEPT ![w] = d],
         d # Resting => /\ k = "gas" /\ st = "confirmed" /\ sweeps' = sweeps
                        /\ WorkerTyped(d) /\ d.job = j /\ d.source = s /\ d.kind = "sweep" /\ d.step = "stage"
                        /\ sweeps[j].items[s] = "gas_pending"
  PROVE  SweepsInv'
<1>1. /\ signed' \in Seq(TxType) /\ Len(signed') = Len(signed) /\ OneEachTransfer' /\ Recorded'
      /\ TransferStates(j, s, k) # {}
      /\ \A i \in Txs' : signed'[i].job \in 1..Len(sweeps)
      /\ \A x, y, z : TransferStates(x, y, z)' =
              IF x = j /\ y = s /\ z = k THEN {st} ELSE TransferStates(x, y, z)
  <2>1. /\ TransferStates(j, s, k) = {signed[Handled(w)].state}
        /\ signed' \in Seq(TxType) /\ Len(signed') = Len(signed) /\ OneEachTransfer' /\ Recorded'
        /\ \A i \in Txs' : signed'[i].job \in 1..Len(sweeps)
        /\ \A x, y, z : TransferStates(x, y, z)' =
              IF x = j /\ y = s /\ z = k THEN {st} ELSE TransferStates(x, y, z)
    BY Marks, SMTT(120)
  <2> QED
    BY <2>1
<1>2. TablesTyped
  BY DEF SweepsInv
<1>3. DOMAIN sweeping' = SweepWorkers /\ sweeping'[w] = d
      /\ \A v \in SweepWorkers \ {w} : sweeping'[v] = sweeping[v]
  BY <1>2 DEF TablesTyped
<1>4. TablesTyped'
  BY <1>1, <1>2, <1>3 DEF TablesTyped, OnlyJob
<1>5. WorkerKnows(w)'
  <2> SUFFICES ASSUME d # Resting PROVE WorkerTyped(d)' /\ HolderKnows(d)'
    BY <1>3 DEF WorkerKnows, WorkerTyped, HolderKnows
  <2>1. WorkerTyped(d)'
    BY DEF WorkerTyped
  <2>2. TransferStates(j, s, "gas")' = {"confirmed"}
    BY <1>1
  <2>3. HolderKnows(d)'
    BY <2>2 DEF HolderKnows
  <2> QED
    BY <2>1, <2>3
<1>6. ItemOK(sweeps[j].family, sweeps'[j].items[s],
             TransferStates(j, s, "gas")', TransferStates(j, s, "sweep")')
  <2>1. /\ TransferStates(j, s, "gas")' = (IF k = "gas" THEN {st} ELSE TransferStates(j, s, "gas"))
        /\ TransferStates(j, s, "sweep")' = (IF k = "sweep" THEN {st} ELSE TransferStates(j, s, "sweep"))
    BY <1>1
  <2> QED
    BY <2>1
<1>7. /\ \A x, y, z : x # j \/ y # s => TransferStates(x, y, z)' = TransferStates(x, y, z)
      /\ \A z : TransferStates(j, s, z) # {} => TransferStates(j, s, z)' # {}
      /\ k = "sweep" => TransferStates(j, s, "gas")' = TransferStates(j, s, "gas")
  BY <1>1
<1>8. \A v \in SweepWorkers \ {w} :
           /\ sweeping'[v] = sweeping[v]
           /\ HoldsJob(j, v)' => /\ HoldsJob(j, v) /\ sweeps'[j].items = sweeps[j].items
                                 /\ TransferStates(j, s, "gas")' = TransferStates(j, s, "gas")
  BY <1>3, <1>7
<1> QED
  BY <1>1, <1>4, <1>5, <1>6, <1>7, <1>8, MovingStep, ZenonT(120)

(* The round of a holder that records what the network did ends.            *)
LEMMA RecordStep ==
  ASSUME SweepsInv, NEW w \in SweepWorkers, RecordFailure(w) \/ RecordTransfer(w)
  PROVE  SweepsInv'
<1> DEFINE h == Handled(w)
<1>1. /\ sweeping[w] # Resting /\ sweeping[w].step = "send" /\ Holds(w) /\ fate' = fate
  BY DEF RecordFailure, RecordTransfer, Executed, MaySend
<1>2. PICK j \in 1..Len(sweeps), s \in Sources, k \in {"gas", "sweep"} :
        j = sweeping[w].job /\ s = sweeping[w].source /\ k = sweeping[w].kind
  BY <1>1, WorkerFacts
<1>3. /\ TablesTyped /\ HoldsJob(j, w) /\ HolderKnows(sweeping[w]) /\ sweeps[j] \in SweepType
      /\ WorkerTyped(sweeping[w])
      /\ ItemOK(sweeps[j].family, sweeps[j].items[s], TransferStates(j, s, "gas"), TransferStates(j, s, "sweep"))
  BY <1>1, <1>2, WorkerFacts
<1>4. sweeps[j].items[s] = PendingItem(k) /\ (k = "gas" => sweeps[j].family = "evm")
  BY <1>1, <1>2, <1>3 DEF HolderKnows, WorkerTyped
<1>5. PICK st \in Settled, item \in {"failed", "complete"}, end \in {"failed", "waiting"} :
        /\ signed' = Marked(h, st) /\ Finish(w, end, WithItem(w, item))
        /\ IF st = "reverted" THEN item = "failed" /\ fate[h] = "reverted"
           ELSE item = "complete" /\ fate[h] = "ok" /\ k = "sweep"
  <2>1. CASE RecordFailure(w)
    BY <2>1 DEF RecordFailure, Settled
  <2>2. CASE RecordTransfer(w)
    BY <1>2, <2>2 DEF RecordTransfer, Settled
  <2> QED
    BY <2>1, <2>2
<1>6. PICK u : u = [sweeps EXCEPT ![j].items[s] = item]
  OBVIOUS
<1>7. /\ sweeps' = [u EXCEPT ![j].state = end, ![j].lease = NoLease, ![j].live = FALSE]
      /\ sweeping' = [sweeping EXCEPT ![w] = Resting]
  <2>1. WithItem(w, item) = u
    BY <1>2, <1>6 DEF WithItem
  <2>2. u[j].lease = w
    <3>1. DOMAIN sweeps = 1..Len(sweeps)
      BY <1>3, TxRows
    <3> QED
      BY <1>3, <1>6, <3>1 DEF HoldsJob, SweepType
  <2> QED
    BY <1>2, <1>5, <2>1, <2>2 DEF Finish
<1>8. /\ OnlyJob(j) /\ Is(sweeps'[j], end, NoLease, FALSE)
      /\ sweeps'[j].items = [sweeps[j].items EXCEPT ![s] = item]
  <2>1. item \in ItemStates /\ end \in SweepStates
    BY DEF ItemStates, SweepStates
  <2> QED
    BY <1>3, <1>6, <1>7, <2>1, ItemMovedAndReleased, ZenonT(120)
<1>9. sweeps'[j].items[s] = item /\ \A y \in Sources \ {s} : sweeps'[j].items[y] = sweeps[j].items[y]
  BY <1>3, <1>8 DEF SweepType
<1>10. /\ \A v \in SweepWorkers \ {w} : ~HoldsJob(j, v)'
       /\ sweeps[j].state \notin Ended /\ sweeps'[j].state \notin Ended \union {"queued"}
       /\ sweeps'[j].state = "running" <=> sweeps'[j].lease # NoLease
  BY <1>3, <1>8 DEF Is, HoldsJob, Ended
<1>11. ItemOK(sweeps[j].family, item,
                IF k = "gas" THEN {st} ELSE TransferStates(j, s, "gas"),
                IF k = "sweep" THEN {st} ELSE TransferStates(j, s, "sweep"))
  <2>1. CASE k = "gas"
    BY <1>3, <1>4, <1>5, <2>1 DEF ItemOK, EvmOK, PendingItem, NotAsked, Settled
  <2>2. CASE k = "sweep"
    BY <1>3, <1>4, <1>5, <2>2 DEF ItemOK, EvmOK, SolanaOK, PendingItem, NotAsked, Settled
  <2> QED
    BY <2>1, <2>2
<1>12. st \in TxStates /\ (st \in Settled => fate[h] = IF st = "confirmed" THEN "ok" ELSE "reverted")
  BY <1>5 DEF Settled, TxStates
<1>13. \A v \in SweepWorkers \ {w} :
         HoldsJob(j, v)' => /\ HoldsJob(j, v) /\ sweeps'[j].items = sweeps[j].items /\ k = "sweep"
  BY <1>10
<1>14. sweeping[w].step # "stage" /\ signed' = Marked(Handled(w), st) /\ st \in TxStates
       /\ (st \in Settled => fate[Handled(w)] = IF st = "confirmed" THEN "ok" ELSE "reverted")
  BY <1>1, <1>5, <1>12
<1>15. ItemOK(sweeps[j].family, sweeps'[j].items[s],
                IF k = "gas" THEN {st} ELSE TransferStates(j, s, "gas"),
                IF k = "sweep" THEN {st} ELSE TransferStates(j, s, "sweep"))
  BY <1>9, <1>11
<1>16. PICK d : d = Resting
  OBVIOUS
<1>17. sweeping' = [sweeping EXCEPT ![w] = d]
  BY <1>7, <1>16
<1>18. sweeping[w] # Resting /\ fate' = fate /\ OnlyJob(j)
  BY <1>1, <1>8
<1> HIDE DEF h
<1> QED
  BY <1>16, <1>17, <1>18, <1>2, <1>9, <1>10, <1>13, <1>14, <1>15, MarksStep, ZenonT(120)

LEMMA RecordGasStep ==
  ASSUME SweepsInv, NEW w \in SweepWorkers, NEW read \in Nat, RecordGas(w, read)
  PROVE  SweepsInv'
<1> DEFINE h == Handled(w)
<1>1. /\ sweeping[w] # Resting /\ sweeping[w].step = "send" /\ Holds(w) /\ fate' = fate
      /\ sweeps' = sweeps /\ signed' = Marked(h, "confirmed") /\ sweeping[w].kind = "gas" /\ fate[h] = "ok"
  BY DEF RecordGas, Executed, MaySend
<1>2. PICK j \in 1..Len(sweeps), s \in Sources :
        j = sweeping[w].job /\ s = sweeping[w].source
  BY <1>1, WorkerFacts
<1>3. /\ TablesTyped /\ HoldsJob(j, w) /\ HolderKnows(sweeping[w]) /\ sweeps[j] \in SweepType
      /\ WorkerTyped(sweeping[w]) /\ TransferStates(j, s, "gas") # {}
      /\ ItemOK(sweeps[j].family, sweeps[j].items[s], TransferStates(j, s, "gas"), TransferStates(j, s, "sweep"))
  BY <1>1, <1>2, WorkerFacts DEF WorkerTyped
<1>4. sweeps[j].items[s] = "gas_pending" /\ sweeps[j].family = "evm"
  BY <1>1, <1>2, <1>3 DEF HolderKnows, WorkerTyped, PendingItem
<1>5. PICK d : d = Staging(j, s, "sweep", read)
  OBVIOUS
<1>6. sweeping' = [sweeping EXCEPT ![w] = d]
  BY <1>2, <1>5 DEF RecordGas, GoOn
<1>7. WorkerTyped(d) /\ d.job = j /\ d.source = s /\ d.kind = "sweep" /\ d.step = "stage"
  BY <1>1, <1>2, <1>5, GasCame
<1>8. OnlyJob(j)
  BY <1>1, <1>3 DEF OnlyJob, TablesTyped
<1>9. /\ \A v \in SweepWorkers \ {w} : ~HoldsJob(j, v)'
      /\ sweeps[j].state = "running" /\ (sweeps[j].state = "running" <=> sweeps[j].lease # NoLease)
  BY <1>1, <1>3 DEF HoldsJob, SweepsInv, ItemsAgree
<1>10. ItemOK(sweeps[j].family, sweeps[j].items[s], {"confirmed"}, TransferStates(j, s, "sweep"))
  BY <1>3, <1>4 DEF ItemOK, EvmOK, NotAsked
<1>11. "confirmed" \in TxStates
  BY DEF TxStates, Settled
<1> QED
  BY <1>1, <1>2, <1>4, <1>6, <1>7, <1>8, <1>9, <1>10, <1>11, MarksStep DEF Ended
(* A round ends that marked its transfer as sent or as expired.             *)
LEMMA MarksAndEnds ==
  ASSUME SweepsInv, NEW w \in SweepWorkers, sweeping[w] # Resting, sweeping[w].step # "stage",
         NEW st \in {"pending", "expired_unknown"}, signed' = Marked(Handled(w), st), fate' = fate,
         Finish(w, "waiting", sweeps),
         NEW j \in 1..Len(sweeps), NEW s \in Sources, NEW k \in {"gas", "sweep"},
         j = sweeping[w].job, s = sweeping[w].source, k = sweeping[w].kind,
         sweeps[j].state \notin Ended \union {"queued"},
         k = "gas" => HoldsJob(j, w),
         ItemOK(sweeps[j].family, sweeps[j].items[s],
                IF k = "gas" THEN {st} ELSE TransferStates(j, s, "gas"),
                IF k = "sweep" THEN {st} ELSE TransferStates(j, s, "sweep"))
  PROVE  SweepsInv'
<1>1. /\ TablesTyped /\ (sweeps[j].state = "running" <=> sweeps[j].lease # NoLease)
  BY DEF SweepsInv, ItemsAgree
<1>2. /\ sweeping' = [sweeping EXCEPT ![w] = Resting]
      /\ sweeps' = sweeps \/ (JobStep(j) /\ Is(sweeps'[j], "waiting", NoLease, FALSE))
  <2>1. "waiting" \in {"waiting", "failed", "fee_review_required"}
    OBVIOUS
  <2> QED
    BY <2>1, RoundEnds
<1>3. /\ OnlyJob(j) /\ sweeps'[j].items = sweeps[j].items
      /\ sweeps'[j].state = "running" <=> sweeps'[j].lease # NoLease
      /\ sweeps[j].state \notin Ended /\ sweeps'[j].state \notin Ended \union {"queued"}
      /\ \A v \in SweepWorkers \ {w} : HoldsJob(j, v)' => HoldsJob(j, v) /\ k = "sweep"
  <2>1. CASE sweeps' = sweeps
    <3>1. OnlyJob(j)
      BY <1>1, <2>1 DEF OnlyJob, TablesTyped
    <3> QED
      BY <1>1, <2>1, <3>1 DEF HoldsJob
  <2>2. CASE JobStep(j) /\ Is(sweeps'[j], "waiting", NoLease, FALSE)
    BY <2>2 DEF JobStep, Is, HoldsJob, Ended
  <2> QED
    BY <1>2, <2>1, <2>2
<1>4. st \in TxStates /\ (st \in Settled => fate[Handled(w)] = IF st = "confirmed" THEN "ok" ELSE "reverted")
  BY DEF TxStates, Settled
<1>5. \A v \in SweepWorkers \ {w} :
         HoldsJob(j, v)' => /\ HoldsJob(j, v) /\ sweeps'[j].items = sweeps[j].items /\ k = "sweep"
  BY <1>3
<1>6. ItemOK(sweeps[j].family, sweeps'[j].items[s],
                IF k = "gas" THEN {st} ELSE TransferStates(j, s, "gas"),
                IF k = "sweep" THEN {st} ELSE TransferStates(j, s, "sweep"))
  BY <1>3
<1>7. \A y \in Sources \ {s} : sweeps'[j].items[y] = sweeps[j].items[y]
  BY <1>3
<1>8. PICK d : d = Resting
  OBVIOUS
<1>9. sweeping' = [sweeping EXCEPT ![w] = d]
  BY <1>2, <1>8
<1> QED
  BY <1>3, <1>4, <1>5, <1>6, <1>7, <1>8, <1>9, MarksStep

LEMMA MarkSentStep ==
  ASSUME SweepsInv, NEW w \in SweepWorkers, MarkSent(w) PROVE SweepsInv'
<1> DEFINE h == Handled(w)
           may == IF Evm(h) THEN Holds(w) ELSE signed[h].state = "signed"
<1>1. /\ sweeping[w] # Resting /\ sweeping[w].step = "sent" /\ fate' = fate
      /\ Finish(w, "waiting", sweeps) /\ signed' = IF may THEN Marked(h, "pending") ELSE signed
  BY DEF MarkSent, MaySend
<1>2. PICK j \in 1..Len(sweeps), s \in Sources, k \in {"gas", "sweep"} :
        j = sweeping[w].job /\ s = sweeping[w].source /\ k = sweeping[w].kind
  BY <1>1, WorkerFacts
<1>3. /\ TablesTyped /\ OneEachTransfer /\ sweeps[j] \in SweepType /\ TransferStates(j, s, k) # {}
      /\ (Holds(w) => HoldsJob(j, w) /\ HolderKnows(sweeping[w])) /\ (k = "gas" => sweeps[j].family = "evm")
      /\ ItemOK(sweeps[j].family, sweeps[j].items[s], TransferStates(j, s, "gas"), TransferStates(j, s, "sweep"))
  BY <1>1, <1>2, WorkerFacts DEF WorkerTyped
<1>4. TransferStates(j, s, k) = {signed[h].state} /\ signed[h].job = j
  BY <1>2, <1>3, TheTransfer DEF Handled, Of
<1>5. CASE ~may
  BY <1>1, <1>5, OnlyEnds
<1>6. CASE may
  <2> DEFINE ok == ItemOK(sweeps[j].family, sweeps[j].items[s],
                IF k = "gas" THEN {"pending"} ELSE TransferStates(j, s, "gas"),
                IF k = "sweep" THEN {"pending"} ELSE TransferStates(j, s, "sweep"))
  <2>1. signed' = Marked(h, "pending")
    BY <1>1, <1>6
  <2>2. CASE Evm(h)
    <3>1. Holds(w) /\ HoldsJob(j, w) /\ HolderKnows(sweeping[w]) /\ sweeps[j].family = "evm"
      BY <1>3, <1>4, <1>6, <2>2 DEF Evm
    <3>2. sweeps[j].items[s] = PendingItem(k) /\ (k = "gas" => TransferStates(j, s, "gas") \intersect Settled = {})
      BY <1>1, <1>2, <3>1 DEF HolderKnows
    <3>3. sweeps[j].state \notin Ended \union {"queued"}
      BY <3>1 DEF HoldsJob, Ended
    <3>4. ok
      <4>1. CASE k = "gas"
        BY <1>3, <3>1, <3>2, <4>1 DEF ItemOK, EvmOK, PendingItem, NotAsked
      <4>2. CASE k = "sweep"
        BY <1>3, <3>1, <3>2, <4>2 DEF ItemOK, EvmOK, PendingItem, NotAsked
      <4> QED
        BY <4>1, <4>2
    <3> QED
      BY <1>1, <1>2, <2>1, <3>1, <3>3, <3>4, MarksAndEnds
  <2>3. CASE ~Evm(h)
    <3>1. sweeps[j].family = "solana" /\ k = "sweep" /\ TransferStates(j, s, "sweep") = {"signed"}
      BY <1>3, <1>4, <1>6, <2>3 DEF Evm, SweepType, Families
    <3>2. sweeps[j].items[s] = "sweep_pending"
      BY <1>3, <3>1 DEF ItemOK, SolanaOK, SweepType, ItemStates
    <3>3. sweeps[j].state \notin Ended \union {"queued"}
      <4>1. JobOK(sweeps[j].state, sweeps[j].items[s],
                  TransferStates(j, s, "gas") \union TransferStates(j, s, "sweep"))
        BY DEF SweepsInv, ItemsAgree
      <4> QED
        BY <3>1, <3>2, <4>1 DEF JobOK, Ended, NotAsked, Settled
    <3>4. ok
      BY <1>3, <3>1, <3>2 DEF ItemOK, SolanaOK, NotAsked
    <3> QED
      BY <1>1, <1>2, <2>1, <3>1, <3>3, <3>4, MarksAndEnds
  <2> QED
    BY <2>2, <2>3
<1> QED
  BY <1>5, <1>6

LEMMA MarkExpiredStep ==
  ASSUME SweepsInv, NEW w \in SweepWorkers, MarkExpired(w) PROVE SweepsInv'
<1> DEFINE h == Handled(w)
<1>1. /\ sweeping[w] # Resting /\ sweeping[w].step = "send" /\ fate' = fate
      /\ ~Evm(h) /\ signed[h].state \notin Settled
      /\ Finish(w, "waiting", sweeps) /\ signed' = IF Holds(w) THEN Marked(h, "expired_unknown") ELSE signed
  BY DEF MarkExpired, MaySend
<1>2. PICK j \in 1..Len(sweeps), s \in Sources, k \in {"gas", "sweep"} :
        j = sweeping[w].job /\ s = sweeping[w].source /\ k = sweeping[w].kind
  BY <1>1, WorkerFacts
<1>3. /\ TablesTyped /\ OneEachTransfer /\ sweeps[j] \in SweepType /\ TransferStates(j, s, k) # {}
      /\ (Holds(w) => HoldsJob(j, w) /\ HolderKnows(sweeping[w])) /\ (k = "gas" => sweeps[j].family = "evm")
      /\ ItemOK(sweeps[j].family, sweeps[j].items[s], TransferStates(j, s, "gas"), TransferStates(j, s, "sweep"))
  BY <1>1, <1>2, WorkerFacts DEF WorkerTyped
<1>4. CASE ~Holds(w)
  BY <1>1, <1>4, OnlyEnds
<1>5. CASE Holds(w)
  <2>1. signed[h].job = j
    BY <1>2, <1>3, TheTransfer DEF Handled, Of
  <2>2. sweeps[j].family = "solana" /\ k = "sweep"
    BY <1>1, <1>3, <2>1 DEF Evm, SweepType, Families
  <2>3. sweeps[j].items[s] = "sweep_pending" /\ sweeps[j].state = "running"
    BY <1>1, <1>2, <1>3, <1>5, <2>2 DEF HolderKnows, HoldsJob, PendingItem
  <2>4. sweeps[j].state \notin Ended \union {"queued"}
    BY <2>3 DEF Ended
  <2>5. ItemOK(sweeps[j].family, sweeps[j].items[s],
                IF k = "gas" THEN {"expired_unknown"} ELSE TransferStates(j, s, "gas"),
                IF k = "sweep" THEN {"expired_unknown"} ELSE TransferStates(j, s, "sweep"))
    BY <1>3, <2>2, <2>3 DEF ItemOK, SolanaOK, NotAsked
  <2> QED
    BY <1>1, <1>2, <1>5, <2>2, <2>4, <2>5, MarksAndEnds
<1> QED
  BY <1>4, <1>5
-----------------------------------------------------------------------------
LEMMA SweepsStart == SweepsInit => SweepsInv
<1> SUFFICES ASSUME SweepsInit PROVE SweepsInv
  OBVIOUS
<1>1. sweeps = <<>> /\ signed = <<>> /\ fate = <<>> /\ sweeping = [w \in SweepWorkers |-> Resting]
  BY DEF SweepsInit
<1>2. Len(sweeps) = 0 /\ Len(signed) = 0 /\ 1..Len(sweeps) = {} /\ Txs = {} /\ MaxSweeps \in Nat
      /\ Len(fate) = 0
  BY <1>1, SweepsAssumption DEF Txs
<1>3. TablesTyped
  BY <1>1, <1>2 DEF TablesTyped
<1>4. WorkersKnow
  BY <1>1 DEF WorkersKnow
<1> QED
  BY <1>2, <1>3, <1>4 DEF SweepsInv, OneEachTransfer, ItemsAgree, OneOpenSweep, DryIsEvm, Recorded

LEMMA SweepsMoves == SweepsInv /\ [SweepsNext]_SweepsVars => SweepsInv'
<1> SUFFICES ASSUME SweepsInv, [SweepsNext]_SweepsVars PROVE SweepsInv'
  OBVIOUS
<1>0. TablesTyped /\ Len(signed) \in Nat /\ \A n \in 0..Len(signed) : n \in Nat
  BY TxRows DEF SweepsInv
<1>1. ASSUME NEW f \in Families, NEW c \in SUBSET Sources, CreateSweep(f, c) PROVE SweepsInv'
  BY <1>1, CreateStep
<1>2. ASSUME NEW j \in 1..Len(sweeps), CancelSweep(j) \/ RetrySweep(j) \/ LeaseEnds(j) \/ EndSweep(j)
      PROVE  SweepsInv'
  BY <1>2, CancelStep
<1>3. ASSUME NEW w \in SweepWorkers, NEW j \in 1..Len(sweeps), NEW s \in Sources, NEW n \in 0..Len(signed),
             ClaimSweep(w, j, s, n)
      PROVE  SweepsInv'
  BY <1>0, <1>3, ClaimStep
<1>4. ASSUME NEW w \in SweepWorkers, SignEvm(w) \/ SignSolana(w) PROVE SweepsInv'
  BY <1>4, SignStep
<1>5. ASSUME NEW w \in SweepWorkers, MarkSent(w) \/ MarkExpired(w) PROVE SweepsInv'
  BY <1>5, MarkSentStep, MarkExpiredStep
<1>6. ASSUME NEW w \in SweepWorkers, RecordFailure(w) \/ RecordTransfer(w) PROVE SweepsInv'
  BY <1>6, RecordStep
<1>7. ASSUME NEW w \in SweepWorkers, NEW n \in 0..Len(signed), Known(w, n) \/ RecordGas(w, n)
      PROVE  SweepsInv'
  BY <1>0, <1>7, KnownSweepStep, RecordGasStep
<1>8. ASSUME NEW w \in SweepWorkers,
             \/ DropSweep(w) \/ Unrecorded(w)
             \/ RefuseToSign(w, "waiting") \/ RefuseToSign(w, "fee_review_required")
             \/ CheckSolana(w)
             \/ \E heard, answered \in BOOLEAN :
                  BroadcastEvm(w, heard) \/ BroadcastSolana(w, heard, answered)
      PROVE  SweepsInv'
  BY <1>8, QuietRounds
<1>9. ASSUME NEW i \in Txs, Execute(i, "ok") \/ Execute(i, "reverted") \/ Forget(i) \/ Lapse(i)
      PROVE  SweepsInv'
  <2>1. PICK f \in Fates : /\ fate[i] \notin Final /\ fate' = [fate EXCEPT ![i] = f]
                           /\ UNCHANGED <<sweeps, signed, sweeping>>
    BY <1>9 DEF Execute, Forget, Lapse, Fates, Final
  <2> QED
    BY <2>1, NetworkSteps
<1>10. CASE UNCHANGED SweepsVars
  <2>1. fate' \in Seq(Fates) /\ Len(fate') = Len(fate) /\ Recorded' /\ DOMAIN sweeping' = SweepWorkers
    BY <1>10 DEF SweepsVars, SweepsInv, Recorded, TablesTyped, Txs
  <2> QED
    BY <1>10, <2>1, QuietStep, SweepNamesAssumption DEF SweepsVars
<1> QED
  BY <1>1, <1>2, <1>3, <1>4, <1>5, <1>6, <1>7, <1>8, <1>9, <1>10 DEF SweepsNext

(* The inductive invariant of the sweeps.                                   *)
THEOREM SweepsSafe == SweepsSpec => []SweepsInv
<1> QED
  BY SweepsStart, SweepsMoves, PTL DEF SweepsSpec

(* Jobs, items, transfers and workers of sweeps have their types.           *)
THEOREM SweepsTyped == SweepsSpec => []SweepsTypeOK
<1>1. SweepsInv => SweepsTypeOK
  <2> SUFFICES ASSUME SweepsInv PROVE SweepsTypeOK
    OBVIOUS
  <2>1. /\ sweeps \in Seq(SweepType) /\ signed \in Seq(TxType)
        /\ fate \in Seq(Fates) /\ Len(fate) = Len(signed)
    BY DEF SweepsInv, TablesTyped
  <2>2. \A w \in SweepWorkers : sweeping[w] # Resting =>
          sweeping[w].job \in 1..Len(sweeps) /\ sweeping[w].step \in {"stage", "send", "post", "sent"}
    BY DEF SweepsInv, WorkersKnow, WorkerTyped
  <2>3. /\ SweepType = [family : Families, state : SweepStates,
                        lease : SweepWorkers \union {NoLease}, live : BOOLEAN,
                        dry : SUBSET Sources, items : [Sources -> ItemStates]]
        /\ TxType = [job : 1..MaxSweeps, source : Sources, kind : {"gas", "sweep"}, nonce : Nat,
                     state : {"signed", "pending", "expired_unknown"} \union Settled]
        /\ Fates = {"unseen", "mempool", "late", "lapsed"} \union Final
    BY DEF SweepType, TxType, TxStates, Fates
  <2> QED
    BY <2>1, <2>2, <2>3 DEF SweepsTypeOK
<1> QED
  BY <1>1, SweepsSafe, PTL

LEMMA TablesAgree == SweepsInv => SweepsAgree
<1> SUFFICES ASSUME SweepsInv, NEW j \in 1..Len(sweeps) PROVE Agrees(j)
  BY DEF SweepsAgree
<1>1. TablesTyped /\ OneEachTransfer /\ sweeps[j] \in SweepType
  BY TxRows DEF SweepsInv
<1> SUFFICES ASSUME NEW s \in Sources
             PROVE  IF sweeps[j].family = "evm" THEN EvmItemAgrees(j, s) ELSE SolanaItemAgrees(j, s)
  BY DEF Agrees, SweepsInv, ItemsAgree
<1> DEFINE gas == TransferStates(j, s, "gas")
           move == TransferStates(j, s, "sweep")
           item == sweeps[j].items[s]
<1>2. /\ ItemOK(sweeps[j].family, item, gas, move) /\ JobOK(sweeps[j].state, item, gas \union move)
      /\ item \in ItemStates
  BY <1>1 DEF SweepsInv, ItemsAgree, SweepType
<1>3. \A k : Cardinality(Stored(j, s, k)) <= 1 /\ (Stored(j, s, k) = {} <=> TransferStates(j, s, k) = {})
  <2> SUFFICES ASSUME NEW k PROVE Cardinality(Stored(j, s, k)) <= 1
    BY DEF TransferStates
  <2>1. CASE Stored(j, s, k) = {}
    BY <2>1, FS_EmptySet
  <2>2. CASE Stored(j, s, k) # {}
    <3>1. PICK i : Stored(j, s, k) = {i}
      <4>1. PICK i : i \in Stored(j, s, k)
        BY <2>2
      <4>2. ASSUME NEW b \in Stored(j, s, k) PROVE b = i
        <5>1. i \in Txs /\ b \in Txs /\ SameTransfer(i, b)
          BY <4>1, <4>2 DEF Stored, SameTransfer
        <5> QED
          BY <1>1, <5>1 DEF OneEachTransfer
      <4> QED
        BY <4>1, <4>2
    <3>2. Cardinality({i}) = 1
      BY FS_Singleton
    <3>3. Cardinality(Stored(j, s, k)) = 1
      BY <3>1, <3>2
    <3> QED
      BY <2>2, <3>3
  <2> QED
    BY <2>1, <2>2
<1>4. JobAgrees(j, s, gas \union move)
  BY <1>2 DEF JobAgrees, JobOK
<1>5. CASE sweeps[j].family = "evm"
  <2>1. EvmOK(item, gas, move)
    BY <1>2, <1>5 DEF ItemOK
  <2> HIDE DEF gas, move, item
  <2>2. (CASE item \in {NotAsked, "queued"} -> gas \union move = {}
          [] item = "gas_pending" ->
               gas # {} /\ "reverted" \notin gas /\ move = {}
          [] item = "sweep_pending" -> move # {} /\ move \subseteq {"signed", "pending"}
          [] item = "complete" -> move = {"confirmed"}
          [] item = "failed" -> "reverted" \in gas \union move)
    BY <1>2, <2>1 DEF EvmOK, NotAsked, ItemStates
  <2>3. move # {} => gas \subseteq {"confirmed"}
    BY <2>1 DEF EvmOK
  <2>4. EvmItemAgrees(j, s)
    BY <1>3, <1>4, <2>2, <2>3 DEF EvmItemAgrees, gas, move, item
  <2> QED
    BY <1>5, <2>4
<1>6. CASE sweeps[j].family # "evm"
  <2>1. SolanaOK(item, gas, move)
    BY <1>2, <1>6 DEF ItemOK
  <2>2. gas = {} /\ gas \union move = move
    BY <2>1 DEF SolanaOK
  <2> HIDE DEF gas, move, item
  <2>3. (CASE item \in {NotAsked, "queued"} -> move = {}
          [] item = "sweep_pending" ->
               move # {} /\ move \subseteq {"signed", "pending", "expired_unknown"}
          [] item = "complete" -> move = {"confirmed"}
          [] item = "failed" -> move = {"reverted"}
          [] OTHER -> FALSE)
    BY <1>2, <2>1 DEF SolanaOK, NotAsked, ItemStates
  <2>4. SolanaItemAgrees(j, s)
    BY <1>3, <1>4, <2>2, <2>3 DEF SolanaItemAgrees, gas, move, item
  <2> QED
    BY <1>6, <2>4
<1> QED
  BY <1>5, <1>6

(* No crash, lost lease or answer of the network leaves tables with which   *)
(* a panel would not start: validateCryptoSweepJob, for any addresses,      *)
(* workers and numbers of jobs.                                             *)
THEOREM TablesAlwaysAgree == SweepsSpec => []SweepsAgree
BY SweepsSafe, TablesAgree, PTL
-----------------------------------------------------------------------------
(* Money and nonces of an address: what it sent that the network has not    *)
(* executed, and what it has executed without the table knowing it.         *)
Senders == Sources \union {"funding"}
Mined(from) == {i \in Sent(from) : fate[i] \in Final}
Waiting(from) == {i \in Sent(from) : fate[i] \notin Final}
Unread(from) == {i \in Sent(from) : signed[i].state \notin Settled /\ fate[i] \in Final}

InOrder(from) ==
  /\ \A i \in Sent(from) : /\ signed[i].nonce < Cardinality(Sent(from))
                           /\ fate[i] \in Final <=> signed[i].nonce < NetworkNonce(from)
  /\ \A i, k \in Sent(from) : signed[i].nonce = signed[k].nonce => i = k
  /\ \A n \in 0..Cardinality(Sent(from)) - 1 : \E i \in Sent(from) : signed[i].nonce = n
NoncesRun == \A from \in Senders : InOrder(from)

(* What a worker read of the network before it signs: a nonce no later than *)
(* the next one, and, while it holds its job, a balance that has only been  *)
(* spent on what the table still reserves.                                  *)
ReadOK(d, w) ==
  /\ d.nonce <= Cardinality(Sent(Payer(d)))
  /\ HoldsJob(d.job, w) /\ sweeps[d.job].family = "evm" =>
       d.gas <= Gas(Payer(d)) + CostOf(Unread(Payer(d)))
ReadHolds(w) ==
  sweeping[w] # Resting /\ sweeping[w].step = "stage" => ReadOK(sweeping[w], w)
Payable == \A from \in Senders : CostOf(Waiting(from)) <= Gas(from)
MoneyInv == NoncesRun /\ Payable /\ \A w \in SweepWorkers : ReadHolds(w)
-----------------------------------------------------------------------------
(* Costs.                                                                   *)

LEMMA CostSplit ==
  ASSUME TablesTyped, NEW T \in SUBSET Txs, NEW U \in SUBSET T
  PROVE  /\ CostOf(T) = CostOf(U) + CostOf(T \ U)
         /\ CostOf(T) \in Nat /\ CostOf(U) \in Nat /\ CostOf(T \ U) \in Nat
<1> DEFINE f == [i \in Txs |-> Cost(signed[i])]
<1>1. \A i \in T : f[i] \in Int
  BY DEF Cost
<1>2. /\ CostOf(T) = SumFunctionOnSet(f, T) /\ CostOf(U) = SumFunctionOnSet(f, U)
      /\ CostOf(T \ U) = SumFunctionOnSet(f, T \ U)
  BY DEF CostOf
<1> HIDE DEF f
<1>3. IsFiniteSet(T) /\ CostOf(T) \in Nat /\ CostOf(U) \in Nat /\ CostOf(T \ U) \in Nat
  BY CostType
<1>4. SumFunctionOnSet(f, T) = SumFunctionOnSet(f, U) + SumFunctionOnSet(f, T \ U)
  BY <1>1, <1>3, SumSplit
<1> QED
  BY <1>2, <1>3, <1>4

LEMMA CostWithOne ==
  ASSUME TablesTyped, NEW T \in SUBSET Txs, NEW i \in T
  PROVE  CostOf(T) = Cost(signed[i]) + CostOf(T \ {i})
<1> DEFINE f == [x \in Txs |-> Cost(signed[x])]
<1>1. \A x \in T : f[x] \in Int
  BY DEF Cost
<1>2. /\ CostOf(T) = SumFunctionOnSet(f, T) /\ f[i] = Cost(signed[i])
      /\ CostOf(T \ {i}) = SumFunctionOnSet(f, T \ {i})
  BY DEF CostOf
<1> HIDE DEF f
<1>3. IsFiniteSet(T)
  BY CostType
<1>4. SumFunctionOnSet(f, T) = f[i] + SumFunctionOnSet(f, T \ {i})
  BY <1>1, <1>3, SumTakeOut
<1> QED
  BY <1>2, <1>4

(* A stored transfer costs what it cost.                                    *)
LEMMA CostKept ==
  ASSUME TablesTyped, Txs \subseteq Txs', \A i \in Txs : signed'[i].kind = signed[i].kind
  PROVE  \A T \in SUBSET Txs : CostOf(T)' = CostOf(T)
<1> SUFFICES ASSUME NEW T \in SUBSET Txs PROVE CostOf(T)' = CostOf(T)
  OBVIOUS
<1>1. PICK f : f = [i \in Txs |-> Cost(signed[i])]
  OBVIOUS
<1>2. PICK g : g = [i \in Txs' |-> Cost(signed'[i])]
  OBVIOUS
<1>3. CostOf(T) = SumFunctionOnSet(f, T) /\ CostOf(T)' = SumFunctionOnSet(g, T)
  BY <1>1, <1>2 DEF CostOf
<1>4. \A i \in T : f[i] \in Int /\ g[i] = f[i]
  BY <1>1, <1>2 DEF Cost
<1>5. IsFiniteSet(T)
  BY CostType
<1> QED
  BY <1>3, <1>4, <1>5, SumSame
-----------------------------------------------------------------------------
(* Accounts that no step of the network moves.                              *)
Got(from) == {i \in Txs : signed[i].kind = "gas" /\ signed[i].source = from /\ fate[i] = "ok"}
FirstGas(from) == IF from = "funding" THEN FundingGas
                  ELSE IF from \in Dry THEN 0 ELSE MaxSweeps

LEMMA GasIs ==
  ASSUME NEW from
  PROVE  /\ Gas(from) = FirstGas(from) + Cardinality(Got(from)) - CostOf(Mined(from))
         /\ NetworkNonce(from) = Cardinality(Mined(from))
         /\ Gas(from)' = FirstGas(from) + Cardinality(Got(from)') - CostOf(Mined(from))'
         /\ NetworkNonce(from)' = Cardinality(Mined(from)')
  BY DEF Gas, NetworkNonce, FirstGas, Got, Mined

LEMMA Within ==
  ASSUME TablesTyped, NEW from
  PROVE  /\ Sent(from) \in SUBSET Txs /\ Mined(from) \in SUBSET Txs /\ Got(from) \in SUBSET Txs
         /\ Waiting(from) \in SUBSET Txs /\ Unread(from) \in SUBSET Txs
         /\ Cardinality(Sent(from)) \in Nat /\ Cardinality(Mined(from)) \in Nat
         /\ Cardinality(Got(from)) \in Nat /\ FirstGas(from) \in Nat
         /\ Cardinality(Mined(from)) <= Cardinality(Sent(from))
<1>1. /\ Sent(from) \in SUBSET Txs /\ Mined(from) \in SUBSET Txs /\ Got(from) \in SUBSET Txs
      /\ Waiting(from) \in SUBSET Txs /\ Unread(from) \in SUBSET Txs
      /\ Mined(from) \in SUBSET Sent(from)
  BY DEF Sent, Mined, Got, Waiting, Unread
<1>2. \A T \in SUBSET Txs : IsFiniteSet(T) /\ Cardinality(T) \in Nat
  BY CostType
<1>3. Cardinality(Mined(from)) <= Cardinality(Sent(from))
  BY <1>1, <1>2, FS_Subset
<1> QED
  BY <1>1, <1>2, <1>3, SweepsAssumption DEF FirstGas

SameRows ==
  /\ Txs \subseteq Txs'
  /\ \A i \in Txs : /\ signed'[i].job = signed[i].job /\ signed'[i].source = signed[i].source
                    /\ signed'[i].kind = signed[i].kind /\ signed'[i].nonce = signed[i].nonce
  /\ \A k \in 1..Len(sweeps) : sweeps'[k].family = sweeps[k].family
SameAccounts ==
  /\ SameRows /\ Txs' = Txs
  /\ \A i \in Txs : /\ fate'[i] \in Final <=> fate[i] \in Final
                    /\ fate'[i] = "ok" <=> fate[i] = "ok"

LEMMA AccountsKept ==
  ASSUME TablesTyped, SameAccounts, NEW from
  PROVE  /\ Sent(from)' = Sent(from) /\ Mined(from)' = Mined(from) /\ Waiting(from)' = Waiting(from)
         /\ NetworkNonce(from)' = NetworkNonce(from) /\ Gas(from)' = Gas(from)
         /\ \A T \in SUBSET Txs : CostOf(T)' = CostOf(T)
<1>1. \A T \in SUBSET Txs : CostOf(T)' = CostOf(T)
  BY CostKept DEF SameAccounts, SameRows
<1>2. \A i \in Txs : signed[i].job \in 1..Len(sweeps)
  BY TxRows
<1>3. Sent(from)' = Sent(from)
  BY <1>2 DEF Sent, Evm, From, SameAccounts, SameRows
<1>4. Mined(from)' = Mined(from) /\ Waiting(from)' = Waiting(from)
  <2>1. \A i \in Sent(from) : i \in Txs
    BY DEF Sent
  <2> QED
    BY <1>3, <2>1 DEF Mined, Waiting, SameAccounts
<1>5. Got(from)' = Got(from)
  BY DEF Got, SameAccounts, SameRows
<1>6. CostOf(Mined(from))' = CostOf(Mined(from))
  <2>1. PICK T \in SUBSET Txs : T = Mined(from)
    BY Within
  <2>2. CostOf(Mined(from))' = CostOf(T)'
    BY <1>4, <2>1 DEF CostOf
  <2> QED
    BY <1>1, <2>1, <2>2
<1> QED
  BY <1>1, <1>3, <1>4, <1>5, <1>6, GasIs

Others(w) ==
  /\ \A k \in 1..Len(sweeps), v \in SweepWorkers \ {w} : HoldsJob(k, v)' => HoldsJob(k, v)
  /\ \A v \in SweepWorkers \ {w} : sweeping'[v] = sweeping[v]

LEMMA ReadNext ==
  ASSUME NEW v, NEW d, sweeping'[v] = d
  PROVE  ReadHolds(v)' <=> (d # Resting /\ d.step = "stage" => ReadOK(d, v)')
  BY DEF ReadHolds, ReadOK, Payer

(* Only the holder of the sweep of the EVM network settles its transfers.   *)
LEMMA MoneyKept ==
  ASSUME SweepsInv, SweepsInv', MoneyInv, SameAccounts, NEW w, Others(w),
         \/ \A i \in Txs : Evm(i) /\ signed'[i].state \in Settled => signed[i].state \in Settled
         \/ \E k \in 1..Len(sweeps) : HoldsJob(k, w) /\ sweeps[k].family = "evm",
         w \in SweepWorkers => ReadHolds(w)'
  PROVE  MoneyInv'
<1>1. /\ TablesTyped
      /\ \A from : /\ Sent(from)' = Sent(from) /\ Waiting(from)' = Waiting(from)
                   /\ NetworkNonce(from)' = NetworkNonce(from) /\ Gas(from)' = Gas(from)
      /\ \A T \in SUBSET Txs : CostOf(T)' = CostOf(T)
  BY AccountsKept DEF SweepsInv
<1>2. NoncesRun'
  <2>1. \A from : \A i \in Sent(from) : i \in Txs
    BY DEF Sent
  <2>2. NoncesRun
    BY DEF MoneyInv
  <2> QED
    BY <1>1, <2>1, <2>2 DEF NoncesRun, InOrder, SameAccounts, SameRows
<1>3. Payable'
  <2> SUFFICES ASSUME NEW from \in Senders PROVE CostOf(Waiting(from))' <= Gas(from)'
    BY DEF Payable, Senders
  <2>1. PICK T \in SUBSET Txs : T = Waiting(from)
    BY <1>1, Within
  <2>2. CostOf(Waiting(from))' = CostOf(T)'
    BY <1>1, <2>1 DEF CostOf
  <2> QED
    BY <1>1, <2>1, <2>2 DEF MoneyInv, Payable
<1>4. ASSUME NEW v \in SweepWorkers, v # w PROVE ReadHolds(v)'
  <2>1. PICK d : d = sweeping[v]
    OBVIOUS
  <2>2. sweeping'[v] = d
    BY <1>4, <2>1 DEF Others
  <2> SUFFICES ASSUME d # Resting, d.step = "stage" PROVE ReadOK(d, v)'
    BY <2>2, ReadNext
  <2>3. WorkerTyped(d) /\ d.job \in 1..Len(sweeps) /\ d.gas \in Int
    BY <2>1, WorkerFacts DEF WorkerTyped
  <2>4. ReadOK(d, v)
    BY <2>1 DEF MoneyInv, ReadHolds
  <2>5. d.nonce <= Cardinality(Sent(Payer(d)))'
    BY <1>1, <2>4 DEF ReadOK
  <2>6. ASSUME HoldsJob(d.job, v)', sweeps'[d.job].family = "evm"
        PROVE  d.gas <= Gas(Payer(d))' + CostOf(Unread(Payer(d)))'
    <3>1. HoldsJob(d.job, v) /\ sweeps[d.job].family = "evm"
      BY <1>4, <2>3, <2>6 DEF Others, SameAccounts, SameRows
    <3>2. \A i \in Txs : Evm(i) /\ signed'[i].state \in Settled => signed[i].state \in Settled
      BY <1>4, <2>3, <3>1 DEF SweepsInv, OneOpenSweep, HoldsJob, Ended
    <3>3. Unread(Payer(d)) \subseteq Unread(Payer(d))'
      <4>1. \A i \in Sent(Payer(d)) : i \in Txs /\ Evm(i)
        BY DEF Sent
      <4> QED
        BY <1>1, <3>2, <4>1 DEF Unread, SameAccounts
    <3>4. Unread(Payer(d))' \subseteq Sent(Payer(d))
      BY <1>1 DEF Unread
    <3>5. PICK T \in SUBSET Txs, U \in SUBSET Txs :
             T = Unread(Payer(d))' /\ U = Unread(Payer(d)) /\ U \in SUBSET T
      BY <1>1, <3>3, <3>4, Within
    <3>6. CostOf(Unread(Payer(d)))' = CostOf(T) /\ CostOf(Unread(Payer(d))) = CostOf(U)
      <4>1. CostOf(Unread(Payer(d)))' = CostOf(T)'
        BY <3>5 DEF CostOf
      <4> QED
        BY <1>1, <3>5, <4>1
    <3>7. CostOf(T) = CostOf(U) + CostOf(T \ U) /\ CostOf(T) \in Nat /\ CostOf(U) \in Nat /\ CostOf(T \ U) \in Nat
      BY <1>1, <3>5, CostSplit
    <3>8. d.gas <= Gas(Payer(d)) + CostOf(U)
      BY <2>4, <3>1, <3>6 DEF ReadOK
    <3>9. Gas(Payer(d)) \in Int /\ Gas(Payer(d))' = Gas(Payer(d))
      BY <1>1, GasType
    <3> QED
      BY <2>3, <3>6, <3>7, <3>8, <3>9
  <2> QED
    BY <2>5, <2>6 DEF ReadOK
<1> QED
  BY <1>2, <1>3, <1>4 DEF MoneyInv
-----------------------------------------------------------------------------
(* Steps that leave the accounts as they are.                               *)

SameFate == \A i \in Txs : /\ fate'[i] \in Final <=> fate[i] \in Final
                           /\ fate'[i] = "ok" <=> fate[i] = "ok"
SameFamilies == \A k \in 1..Len(sweeps) : sweeps'[k].family = sweeps[k].family

LEMMA NothingMoves ==
  signed' = signed /\ SameFate /\ SameFamilies => SameAccounts
  BY DEF SameFate, SameFamilies, SameAccounts, SameRows, Txs

LEMMA FinishOthers ==
  ASSUME SweepsInv, NEW w \in SweepWorkers, sweeping[w] # Resting, NEW st, NEW vs, Finish(w, st, vs),
         vs \in [1..Len(sweeps) -> SweepType],
         \A k \in 1..Len(sweeps) : /\ vs[k].family = sweeps[k].family /\ vs[k].state = sweeps[k].state
                                   /\ vs[k].lease = sweeps[k].lease /\ vs[k].live = sweeps[k].live
  PROVE  SameFamilies /\ Others(w) /\ ReadHolds(w)'
<1>1. PICK j \in 1..Len(sweeps) : j = sweeping[w].job
  BY WorkerFacts
<1>2. \A k \in 1..Len(sweeps) : vs[k] \in SweepType
  OBVIOUS
<1>3. /\ sweeping' = [sweeping EXCEPT ![w] = Resting]
      /\ sweeps' = IF vs[j].lease # w THEN vs
                   ELSE [vs EXCEPT ![j].state = st, ![j].lease = NoLease, ![j].live = FALSE]
  BY <1>1 DEF Finish
<1>4. \A k \in 1..Len(sweeps) : sweeps'[k].family = vs[k].family
                                /\ (sweeps'[k] = vs[k] \/ sweeps'[k].lease = NoLease)
  BY <1>2, <1>3 DEF SweepType
<1>5. \A v \in SweepWorkers : v # NoLease
  BY SweepNamesAssumption
<1>6. DOMAIN sweeping = SweepWorkers
  BY DEF SweepsInv, TablesTyped
<1>7. sweeping'[w] = Resting /\ \A v \in SweepWorkers \ {w} : sweeping'[v] = sweeping[v]
  BY <1>3, <1>6
<1> QED
  BY <1>4, <1>5, <1>7 DEF SameFamilies, Others, HoldsJob, ReadHolds

LEMMA SweepsAreJobs ==
  ASSUME SweepsInv PROVE sweeps \in [1..Len(sweeps) -> SweepType]
  BY DEF SweepsInv, TablesTyped

LEMMA MarkedRows ==
  ASSUME SweepsInv, NEW w \in SweepWorkers, sweeping[w] # Resting, sweeping[w].step # "stage",
         NEW st \in TxStates, signed' = Marked(Handled(w), st), SameFate, SameFamilies
  PROVE  /\ SameAccounts /\ Handled(w) \in Txs
         /\ \A i \in Txs : signed'[i].state = IF i = Handled(w) THEN st ELSE signed[i].state
         /\ signed[Handled(w)].job = sweeping[w].job
<1>1. TablesTyped /\ OneEachTransfer /\ TransferStates(sweeping[w].job, sweeping[w].source, sweeping[w].kind) # {}
  BY WorkerFacts DEF WorkerTyped
<1>2. PICK x \in Txs : x = Handled(w) /\ signed[x].job = sweeping[w].job
  BY <1>1, TheTransfer DEF Handled, Of
<1>3. /\ Txs' = Txs
      /\ \A i \in Txs : /\ signed'[i].job = signed[i].job /\ signed'[i].source = signed[i].source
                        /\ signed'[i].kind = signed[i].kind /\ signed'[i].nonce = signed[i].nonce
                        /\ signed'[i].state = IF i = x THEN st ELSE signed[i].state
  <2>1. signed' = Marked(x, st)
    BY <1>2
  <2> QED
    BY <1>1, <2>1, TransferMarked
<1> QED
  BY <1>2, <1>3 DEF SameAccounts, SameRows, SameFate, SameFamilies

(* What a worker does with its transfer: only a holder settles it.          *)
LEMMA WorkerMoney ==
  ASSUME SweepsInv, SweepsInv', MoneyInv, NEW w \in SweepWorkers, sweeping[w] # Resting,
         SameFate, SameFamilies, Others(w), ReadHolds(w)',
         \/ signed' = signed
         \/ /\ sweeping[w].step # "stage"
            /\ \E st \in TxStates : signed' = Marked(Handled(w), st) /\ (st \in Settled => Holds(w))
  PROVE  MoneyInv'
<1>1. CASE signed' = signed
  BY <1>1, NothingMoves, MoneyKept
<1>2. ASSUME NEW st \in TxStates, signed' = Marked(Handled(w), st), st \in Settled => Holds(w),
             sweeping[w].step # "stage"
      PROVE  MoneyInv'
  <2>1. /\ SameAccounts /\ Handled(w) \in Txs
        /\ \A i \in Txs : signed'[i].state = IF i = Handled(w) THEN st ELSE signed[i].state
        /\ signed[Handled(w)].job = sweeping[w].job
    BY <1>2, MarkedRows
  <2>2. sweeping[w].job \in 1..Len(sweeps) /\ (Holds(w) => HoldsJob(sweeping[w].job, w))
    BY WorkerFacts
  <2>3. CASE st \notin Settled
    BY <2>1, <2>3, MoneyKept
  <2>4. CASE sweeps[sweeping[w].job].family # "evm"
    <3>1. \A i \in Txs : Evm(i) /\ signed'[i].state \in Settled => signed[i].state \in Settled
      BY <2>1, <2>4 DEF Evm
    <3> QED
      BY <2>1, <3>1, MoneyKept
  <2>5. CASE st \in Settled /\ sweeps[sweeping[w].job].family = "evm"
    <3>1. \E k \in 1..Len(sweeps) : HoldsJob(k, w) /\ sweeps[k].family = "evm"
      BY <1>2, <2>2, <2>5
    <3> QED
      BY <2>1, <3>1, MoneyKept
  <2> QED
    BY <2>3, <2>4, <2>5
<1> QED
  BY <1>1, <1>2

LEMMA EndsMoney ==
  ASSUME SweepsInv, SweepsInv', MoneyInv, NEW w \in SweepWorkers, sweeping[w] # Resting, fate' = fate,
         NEW st, \/ Finish(w, st, sweeps)
                 \/ \E item \in ItemStates : Finish(w, st, WithItem(w, item)),
         \/ signed' = signed
         \/ /\ sweeping[w].step # "stage"
            /\ \E x \in TxStates : signed' = Marked(Handled(w), x) /\ (x \in Settled => Holds(w))
  PROVE  MoneyInv'
<1>1. sweeps \in [1..Len(sweeps) -> SweepType]
  BY SweepsAreJobs
<1>2. SameFamilies /\ Others(w) /\ ReadHolds(w)'
  <2>1. CASE Finish(w, st, sweeps)
    <3>1. PICK vs : vs = sweeps
      OBVIOUS
    <3>2. Finish(w, st, vs)
      BY <2>1, <3>1
    <3> QED
      BY <1>1, <3>1, <3>2, FinishOthers
  <2>2. ASSUME NEW item \in ItemStates, Finish(w, st, WithItem(w, item))
        PROVE  SameFamilies /\ Others(w) /\ ReadHolds(w)'
    <3>1. PICK vs : vs = WithItem(w, item)
      OBVIOUS
    <3>2. Finish(w, st, vs)
      BY <2>2, <3>1
    <3>3. PICK j \in 1..Len(sweeps), s \in Sources : j = sweeping[w].job /\ s = sweeping[w].source
      BY WorkerFacts
    <3>4. vs = [sweeps EXCEPT ![j].items[s] = item]
      BY <3>1, <3>3 DEF WithItem
    <3>5. PICK r : r = [sweeps[j] EXCEPT !.items = [sweeps[j].items EXCEPT ![s] = item]]
      OBVIOUS
    <3>6. /\ r \in SweepType /\ r.family = sweeps[j].family /\ r.state = sweeps[j].state
          /\ r.lease = sweeps[j].lease /\ r.live = sweeps[j].live
      BY <1>1, <3>5 DEF SweepType
    <3>7. vs = [sweeps EXCEPT ![j] = r]
      BY <3>4, <3>5
    <3>8. /\ vs \in [1..Len(sweeps) -> SweepType]
          /\ \A k \in 1..Len(sweeps) : vs[k] = IF k = j THEN r ELSE sweeps[k]
      BY <1>1, <3>6, <3>7
    <3> QED
      BY <3>2, <3>6, <3>8, FinishOthers
  <2> QED
    BY <2>1, <2>2
<1>3. SameFate
  BY DEF SameFate
<1> QED
  BY <1>2, <1>3, WorkerMoney

(* What a worker has just read.                                             *)
LEMMA JustRead ==
  ASSUME SweepsInv, NEW j, NEW s, NEW k \in {"gas", "sweep"}, NEW read \in Int, PendingNonce(k, s, read),
         NEW d, d = Staging(j, s, k, read)
  PROVE  d.nonce <= Cardinality(Sent(Payer(d))) /\ d.gas = Gas(Payer(d))
<1> DEFINE from == IF k = "gas" THEN "funding" ELSE s
           pool == {i \in Sent(from) : fate[i] = "mempool"}
           done == Mined(from)
<1>1. d.nonce = read /\ d.gas = Gas(from) /\ Payer(d) = from
  BY DEF Staging, Payer
<1>2. read <= Cardinality(done) + Cardinality(pool)
  <2>1. read \in NetworkNonce(from)..(NetworkNonce(from) + InMempool(from))
    BY DEF PendingNonce
  <2>2. NetworkNonce(from) = Cardinality(done) /\ InMempool(from) = Cardinality(pool)
    BY DEF NetworkNonce, InMempool, Mined
  <2> HIDE DEF done, pool, from
  <2> QED
    BY <2>1, <2>2
<1>3. /\ done \in SUBSET Sent(from) /\ pool \in SUBSET Sent(from) /\ Sent(from) \in SUBSET Txs
      /\ done \cap pool = {}
  BY DEF Mined, Final, Sent
<1> HIDE DEF done, pool, from
<1>4. TablesTyped
  BY DEF SweepsInv
<1>5. /\ IsFiniteSet(done) /\ IsFiniteSet(pool) /\ IsFiniteSet(Sent(from))
      /\ Cardinality(done) \in Nat /\ Cardinality(pool) \in Nat /\ Cardinality(Sent(from)) \in Nat
  BY <1>3, <1>4, CostType
<1>6. /\ done \cup pool \in SUBSET Sent(from)
      /\ Cardinality(done \cup pool) = Cardinality(done) + Cardinality(pool) - Cardinality(done \cap pool)
  BY <1>3, <1>5, FS_Union
<1>7. Cardinality(done \cap pool) = 0
  BY <1>3, FS_EmptySet
<1>8. Cardinality(done \cup pool) <= Cardinality(Sent(from))
  BY <1>5, <1>6, FS_Subset
<1> QED
  BY <1>1, <1>2, <1>5, <1>6, <1>7, <1>8

(* ... holds in the next state, when the step moves no account.             *)
LEMMA ReadKept ==
  ASSUME SweepsInv, SameAccounts, NEW w, NEW d, sweeping'[w] = d,
         d.gas \in Int, d.nonce <= Cardinality(Sent(Payer(d))), d.gas = Gas(Payer(d)), TablesTyped'
  PROVE  ReadHolds(w)'
<1>1. TablesTyped
  BY DEF SweepsInv
<1>2. Sent(Payer(d))' = Sent(Payer(d)) /\ Gas(Payer(d))' = Gas(Payer(d))
  BY <1>1, AccountsKept
<1>3. CostOf(Unread(Payer(d)))' \in Nat
  <2>1. \A T \in SUBSET Txs : CostOf(T)' = CostOf(T) /\ CostOf(T) \in Nat
    BY <1>1, AccountsKept, CostType
  <2>2. PICK T : T = Unread(Payer(d))'
    OBVIOUS
  <2>3. T \in SUBSET Txs
    BY <2>2 DEF Unread, Sent, SameAccounts
  <2>4. CostOf(Unread(Payer(d)))' = CostOf(T)'
    BY <2>2 DEF CostOf
  <2> QED
    BY <2>1, <2>3, <2>4
<1>4. ReadOK(d, w)'
  BY <1>2, <1>3 DEF ReadOK
<1> QED
  BY <1>4, ReadNext

LEMMA ClaimMoney ==
  ASSUME SweepsInv, SweepsInv', MoneyInv, NEW w \in SweepWorkers, NEW j \in 1..Len(sweeps), NEW s \in Sources,
         NEW read \in Nat, ClaimSweep(w, j, s, read)
  PROVE  MoneyInv'
<1>1. PICK d : d = FirstStep(j, s, read)
  OBVIOUS
<1>2. /\ TablesTyped /\ signed' = signed /\ fate' = fate /\ sweeping' = [sweeping EXCEPT ![w] = d]
      /\ (d.step = "stage" => PendingNonce(d.kind, s, read)) /\ ~sweeps[j].live
      /\ sweeps' = [sweeps EXCEPT ![j].state = "running", ![j].lease = w, ![j].live = TRUE]
  BY <1>1 DEF ClaimSweep, SweepsInv, Claimable
<1>3. OnlyJob(j) /\ Is(sweeps'[j], "running", w, TRUE)
  BY <1>2, JobClaimed
<1>4. SameFamilies /\ SameFate
  BY <1>2, <1>3 DEF SameFamilies, SameFate, OnlyJob
<1>5. sweeping'[w] = d /\ Others(w)
  <2>1. sweeping'[w] = d /\ \A v \in SweepWorkers \ {w} : sweeping'[v] = sweeping[v]
    BY <1>2 DEF TablesTyped
  <2> QED
    BY <1>3, <2>1 DEF Others, HoldsJob, OnlyJob, Is
<1>6. SameAccounts
  BY <1>2, <1>4, NothingMoves
<1>7. ReadHolds(w)'
  <2>1. CASE d.step = "stage"
    <3>1. PICK k \in {"gas", "sweep"} : d = Staging(j, s, k, read)
      BY <1>1, <2>1 DEF FirstStep, Doing
    <3>2. d.kind = k
      BY <3>1 DEF Staging
    <3>3. PendingNonce(k, s, read) /\ read \in Int
      BY <1>2, <2>1, <3>2
    <3>4. d.nonce <= Cardinality(Sent(Payer(d))) /\ d.gas = Gas(Payer(d))
      BY <3>1, <3>3, JustRead
    <3>5. d.gas \in Int /\ TablesTyped'
      BY <1>2, <3>4, GasType DEF SweepsInv
    <3> QED
      BY <1>5, <1>6, <3>4, <3>5, ReadKept
  <2>2. CASE d.step # "stage"
    BY <1>5, <2>2, ReadNext
  <2> QED
    BY <2>1, <2>2
<1> QED
  BY <1>2, <1>5, <1>6, <1>7, MoneyKept

LEMMA GoOnMoney ==
  ASSUME SweepsInv, SweepsInv', MoneyInv, NEW w \in SweepWorkers, NEW read \in Nat,
         (Known(w, read) /\ GoOn(w, read) /\ UNCHANGED sweeps) \/ RecordGas(w, read)
  PROVE  MoneyInv'
<1>1. /\ sweeping[w] # Resting /\ sweeping[w].step = "send" /\ sweeps' = sweeps /\ fate' = fate
      /\ GoOn(w, read)
      /\ signed' = signed \/ (signed' = Marked(Handled(w), "confirmed") /\ Holds(w))
  BY DEF Known, RecordGas, MaySend, Executed
<1>2. PICK d : d = Staging(sweeping[w].job, sweeping[w].source, "sweep", read)
  OBVIOUS
<1>3. sweeping' = [sweeping EXCEPT ![w] = d] /\ PendingNonce("sweep", sweeping[w].source, read)
  BY <1>1, <1>2 DEF GoOn
<1>4. SameFamilies /\ SameFate
  BY <1>1 DEF SameFamilies, SameFate
<1>5. sweeping'[w] = d /\ Others(w)
  <2>1. sweeping'[w] = d /\ \A v \in SweepWorkers \ {w} : sweeping'[v] = sweeping[v]
    BY <1>3 DEF TablesTyped, SweepsInv
  <2> QED
    BY <1>1, <2>1 DEF Others, HoldsJob
<1>6. signed' = signed \/ \E st \in TxStates : signed' = Marked(Handled(w), st) /\ (st \in Settled => Holds(w))
  <2>1. "confirmed" \in TxStates
    BY DEF TxStates, Settled
  <2> QED
    BY <1>1, <2>1
<1>7. SameAccounts
  BY <1>1, <1>4, <1>6, NothingMoves, MarkedRows
<1>8. d.nonce <= Cardinality(Sent(Payer(d))) /\ d.gas = Gas(Payer(d))
  <2>1. read \in Int
    OBVIOUS
  <2> QED
    BY <1>2, <1>3, <2>1, JustRead
<1>9. d.gas \in Int /\ TablesTyped'
  BY <1>8, GasType DEF SweepsInv
<1>10. ReadHolds(w)'
  BY <1>5, <1>7, <1>8, <1>9, ReadKept
<1> QED
  BY <1>1, <1>4, <1>5, <1>6, <1>10, WorkerMoney

(* Every other step of a worker but the signature of a transfer.            *)
LEMMA RoundMoney ==
  ASSUME SweepsInv, SweepsInv', MoneyInv, NEW w \in SweepWorkers,
         \/ DropSweep(w) \/ Unrecorded(w)
         \/ RefuseToSign(w, "waiting") \/ RefuseToSign(w, "fee_review_required")
         \/ RecordFailure(w) \/ RecordTransfer(w) \/ MarkSent(w) \/ MarkExpired(w)
         \/ \E n \in Nat : Known(w, n)
         \/ CheckSolana(w)
         \/ \E heard, answered \in BOOLEAN :
              BroadcastEvm(w, heard) \/ BroadcastSolana(w, heard, answered)
  PROVE  MoneyInv'
<1>1. CASE DropSweep(w)
  <2>1. sweeping[w] # Resting /\ sweeping' = [sweeping EXCEPT ![w] = Resting]
        /\ UNCHANGED <<sweeps, signed, fate>>
    BY <1>1 DEF DropSweep
  <2>2. sweeping'[w] = Resting /\ \A v \in SweepWorkers \ {w} : sweeping'[v] = sweeping[v]
    BY <2>1 DEF SweepsInv, TablesTyped
  <2>3. SameFate /\ SameFamilies /\ Others(w) /\ ReadHolds(w)'
    BY <2>1, <2>2 DEF SameFate, SameFamilies, Others, HoldsJob, ReadHolds
  <2> QED
    BY <2>1, <2>3, WorkerMoney
<1>2. ASSUME NEW st, Finish(w, st, sweeps), sweeping[w] # Resting, UNCHANGED <<signed, fate>>
      PROVE  MoneyInv'
  BY <1>2, EndsMoney
<1>3. CASE RecordFailure(w) \/ RecordTransfer(w)
  <2>1. PICK st \in Settled, item \in ItemStates, end \in {"failed", "waiting"} :
          signed' = Marked(Handled(w), st) /\ Finish(w, end, WithItem(w, item))
    BY <1>3 DEF RecordFailure, RecordTransfer, Settled, ItemStates
  <2>2. sweeping[w] # Resting /\ sweeping[w].step # "stage" /\ Holds(w) /\ fate' = fate
    BY <1>3 DEF RecordFailure, RecordTransfer, Executed, MaySend
  <2>3. \E x \in TxStates : signed' = Marked(Handled(w), x) /\ (x \in Settled => Holds(w))
    BY <2>1, <2>2 DEF TxStates, Settled
  <2> QED
    BY <2>1, <2>2, <2>3, EndsMoney
<1>4. CASE MarkSent(w) \/ MarkExpired(w)
  <2>1. /\ sweeping[w] # Resting /\ sweeping[w].step # "stage" /\ fate' = fate /\ Finish(w, "waiting", sweeps)
        /\ signed' = signed \/ \E st \in {"pending", "expired_unknown"} : signed' = Marked(Handled(w), st)
    BY <1>4 DEF MarkSent, MarkExpired, MaySend
  <2>2. signed' = signed \/ \E x \in TxStates : signed' = Marked(Handled(w), x) /\ (x \in Settled => Holds(w))
    BY <2>1 DEF TxStates, Settled
  <2> QED
    BY <2>1, <2>2, EndsMoney
<1>5. ASSUME NEW n \in Nat, Known(w, n) PROVE MoneyInv'
  <2>1. CASE GoOn(w, n) /\ UNCHANGED sweeps
    BY <1>5, <2>1, GoOnMoney
  <2>2. CASE \E st : Finish(w, st, sweeps)
    BY <1>2, <1>5, <2>2 DEF Known, MaySend
  <2> QED
    BY <1>5, <2>1, <2>2 DEF Known
<1>6. ASSUME NEW step \in {"post", "sent"}, sweeping[w] # Resting, TurnsTo(w, step),
             signed' = signed, sweeps' = sweeps, SameFate
      PROVE  MoneyInv'
  <2>1. PICK d : d = Doing(sweeping[w].job, sweeping[w].source, sweeping[w].kind, step)
    OBVIOUS
  <2>2. sweeping' = [sweeping EXCEPT ![w] = d]
    BY <1>6, <2>1 DEF TurnsTo
  <2>3. sweeping'[w] = d /\ (\A v \in SweepWorkers \ {w} : sweeping'[v] = sweeping[v]) /\ d.step = step
    BY <2>1, <2>2 DEF SweepsInv, TablesTyped, Doing
  <2>4. SameFamilies /\ Others(w) /\ ReadHolds(w)'
    BY <1>6, <2>3 DEF SameFamilies, Others, HoldsJob, ReadHolds
  <2> QED
    BY <1>6, <2>4, WorkerMoney
<1>7. ASSUME NEW heard \in BOOLEAN, sweeping[w] # Resting, sweeping[w].step # "stage", Broadcast(w, heard)
      PROVE  SameFate
  <2>1. TablesTyped /\ Handled(w) \in Txs
    BY <1>7, HandledTx DEF SweepsInv
  <2> QED
    BY <1>7, <2>1, HeardFate DEF SameFate, Final
<1>8. ASSUME NEW heard \in BOOLEAN, BroadcastEvm(w, heard) PROVE MoneyInv'
  <2>1. /\ sweeping[w] # Resting /\ sweeping[w].step # "stage" /\ signed' = signed /\ sweeps' = sweeps
        /\ TurnsTo(w, "sent") /\ Broadcast(w, heard)
    BY <1>8 DEF BroadcastEvm, MayBroadcast, MaySend
  <2> QED
    BY <1>6, <1>7, <2>1
<1>9. CASE CheckSolana(w)
  <2>1. /\ sweeping[w] # Resting /\ signed' = signed /\ fate' = fate /\ SameFate
        /\ (TurnsTo(w, "post") /\ sweeps' = sweeps) \/ Finish(w, "waiting", sweeps)
    BY <1>9 DEF CheckSolana, MayBroadcast, MaySend, SameFate
  <2> QED
    BY <1>2, <1>6, <2>1
<1>10. ASSUME NEW heard \in BOOLEAN, NEW answered \in BOOLEAN, BroadcastSolana(w, heard, answered)
       PROVE  MoneyInv'
  <2>1. /\ sweeping[w] # Resting /\ sweeping[w].step # "stage" /\ signed' = signed /\ Broadcast(w, heard)
        /\ (TurnsTo(w, "sent") /\ sweeps' = sweeps) \/ Finish(w, "waiting", sweeps)
    BY <1>10 DEF BroadcastSolana, MaySend
  <2>2. SameFate
    BY <1>7, <2>1
  <2>3. CASE Finish(w, "waiting", sweeps)
    <3>1. sweeps \in [1..Len(sweeps) -> SweepType]
      BY SweepsAreJobs
    <3>2. PICK vs : vs = sweeps
      OBVIOUS
    <3>3. Finish(w, "waiting", vs)
      BY <2>3, <3>2
    <3>4. SameFamilies /\ Others(w) /\ ReadHolds(w)'
      BY <2>1, <3>1, <3>2, <3>3, FinishOthers
    <3> QED
      BY <2>1, <2>2, <3>4, WorkerMoney
  <2> QED
    BY <1>6, <2>1, <2>2, <2>3
<1> QED
  BY <1>1, <1>2, <1>3, <1>4, <1>5, <1>8, <1>9, <1>10
     DEF Unrecorded, Executed, MaySend, RefuseToSign

LEMMA OwnerMoney ==
  ASSUME SweepsInv, SweepsInv', MoneyInv,
         \/ \E j \in 1..Len(sweeps) : CancelSweep(j) \/ RetrySweep(j) \/ EndSweep(j) \/ LeaseEnds(j)
         \/ \E f \in Families, c \in SUBSET Sources : CreateSweep(f, c)
         \/ UNCHANGED SweepsVars
  PROVE  MoneyInv'
<1>1. CASE \E j \in 1..Len(sweeps) : CancelSweep(j) \/ RetrySweep(j) \/ EndSweep(j) \/ LeaseEnds(j)
  <2>1. PICK j \in 1..Len(sweeps) :
          /\ signed' = signed /\ fate' = fate /\ sweeping' = sweeping
          /\ JobStep(j) /\ \A v \in SweepWorkers : HoldsJob(j, v)' => HoldsJob(j, v)
    BY <1>1, JobSteps
  <2>2. SameFate /\ SameFamilies /\ Others(NoLease)
    BY <2>1 DEF SameFate, SameFamilies, Others, JobStep, OnlyJob, HoldsJob
  <2> QED
    BY <2>1, <2>2, NothingMoves, MoneyKept, SweepNamesAssumption
<1>2. ASSUME NEW f \in Families, NEW c \in SUBSET Sources, CreateSweep(f, c) PROVE MoneyInv'
  <2>1. PICK v : sweeps' = Append(sweeps, v) /\ UNCHANGED <<signed, fate, sweeping>>
    BY <1>2 DEF CreateSweep
  <2>2. \A k \in 1..Len(sweeps) : sweeps'[k] = sweeps[k]
    BY <2>1 DEF SweepsInv, TablesTyped
  <2>3. SameFate /\ SameFamilies /\ Others(NoLease)
    BY <2>1, <2>2 DEF SameFate, SameFamilies, Others, HoldsJob
  <2> QED
    BY <2>1, <2>3, NothingMoves, MoneyKept, SweepNamesAssumption
<1>3. CASE UNCHANGED SweepsVars
  <2>1. signed' = signed /\ SameFate /\ SameFamilies /\ Others(NoLease)
    BY <1>3 DEF SweepsVars, SameFate, SameFamilies, Others, HoldsJob
  <2> QED
    BY <2>1, NothingMoves, MoneyKept, SweepNamesAssumption
<1> QED
  BY <1>1, <1>2, <1>3

LEMMA PoolMoney ==
  ASSUME SweepsInv, SweepsInv', MoneyInv, NEW i \in Txs, Forget(i) \/ Lapse(i) PROVE MoneyInv'
<1>1. PICK f \in {"unseen", "late", "lapsed"} :
        fate' = [fate EXCEPT ![i] = f] /\ fate[i] \in {"unseen", "mempool"} /\ UNCHANGED <<sweeps, signed, sweeping>>
  BY DEF Forget, Lapse
<1>2. DOMAIN fate = Txs
  BY TxRows DEF SweepsInv
<1>3. SameFate /\ SameFamilies /\ Others(NoLease)
  BY <1>1, <1>2 DEF SameFate, SameFamilies, Others, HoldsJob, Final
<1> QED
  BY <1>1, <1>3, NothingMoves, MoneyKept, SweepNamesAssumption

(* A transfer that the network executes.                                    *)
LEMMA ExecutedFrom ==
  ASSUME SweepsInv, NEW i \in Txs, NEW outcome \in Final, Execute(i, outcome), NEW from,
         NEW c, c = IF i \in Sent(from) THEN Cost(signed[i]) ELSE 0,
         NEW n, n = IF i \in Sent(from) THEN 1 ELSE 0
  PROVE  /\ Sent(from)' = Sent(from) /\ Mined(from)' = Mined(from) \union (IF i \in Sent(from) THEN {i} ELSE {})
         /\ NetworkNonce(from)' = NetworkNonce(from) + n
         /\ Gas(from)' \in Int /\ Gas(from) \in Int /\ Gas(from)' >= Gas(from) - c
         /\ CostOf(Waiting(from)) \in Nat /\ CostOf(Waiting(from))' = CostOf(Waiting(from)) - c
         /\ CostOf(Unread(from)) \in Nat /\ CostOf(Unread(from))' = CostOf(Unread(from)) + c
         /\ c \in Nat
<1>1. /\ fate[i] \in {"mempool", "late"} /\ UNCHANGED <<sweeps, signed, sweeping>>
      /\ TablesTyped /\ DOMAIN fate = Txs /\ fate' = [fate EXCEPT ![i] = outcome]
  BY TxRows DEF Execute, SweepsInv
<1>2. /\ Txs' = Txs /\ \A x \in Txs : fate'[x] = IF x = i THEN outcome ELSE fate[x]
      /\ fate[i] \notin Final /\ signed[i].state \notin Settled
  BY <1>1 DEF Txs, Final, Settled, SweepsInv, Recorded
<1>3. Sent(from)' = Sent(from) /\ \A x \in Sent(from) : x \in Txs
  BY <1>1, <1>2 DEF Sent, Evm, From
<1>4. \A T \in SUBSET Txs : /\ CostOf(T)' = CostOf(T) /\ CostOf(T) \in Nat
                            /\ IsFiniteSet(T) /\ Cardinality(T) \in Nat
  BY <1>1, <1>2, CostKept, CostType
<1>5. /\ Sent(from) \in SUBSET Txs /\ Mined(from) \in SUBSET Txs /\ Got(from) \in SUBSET Txs
      /\ Waiting(from) \in SUBSET Txs /\ Unread(from) \in SUBSET Txs
      /\ FirstGas(from) \in Nat
  BY <1>1, Within
<1>6. PICK D \in SUBSET Txs, W \in SUBSET Txs, U \in SUBSET Txs, G \in SUBSET Txs :
        D = Mined(from)' /\ W = Waiting(from)' /\ U = Unread(from)' /\ G = Got(from)'
  <2>1. /\ Mined(from)' \in SUBSET Txs /\ Waiting(from)' \in SUBSET Txs /\ Unread(from)' \in SUBSET Txs
        /\ Got(from)' \in SUBSET Txs
    BY <1>2, <1>3 DEF Mined, Waiting, Unread, Got
  <2> QED
    BY <2>1
<1>7. /\ D = Mined(from) \union (IF i \in Sent(from) THEN {i} ELSE {})
      /\ i \notin Mined(from) /\ i \notin Unread(from)
      /\ W = Waiting(from) \ (IF i \in Sent(from) THEN {i} ELSE {})
      /\ i \in Sent(from) => i \in Waiting(from)
      /\ U = Unread(from) \union (IF i \in Sent(from) THEN {i} ELSE {})
      /\ Got(from) \in SUBSET G
  <2>1. D = Mined(from) \union (IF i \in Sent(from) THEN {i} ELSE {}) /\ i \notin Mined(from)
    BY <1>2, <1>3, <1>6 DEF Mined
  <2>2. W = Waiting(from) \ (IF i \in Sent(from) THEN {i} ELSE {}) /\ (i \in Sent(from) => i \in Waiting(from))
    BY <1>2, <1>3, <1>6 DEF Waiting
  <2>3. U = Unread(from) \union (IF i \in Sent(from) THEN {i} ELSE {}) /\ i \notin Unread(from)
    BY <1>1, <1>2, <1>3, <1>6 DEF Unread
  <2>4. Got(from) \in SUBSET G
    BY <1>1, <1>2, <1>6 DEF Got, Final
  <2> QED
    BY <2>1, <2>2, <2>3, <2>4
<1>8. /\ CostOf(Mined(from))' = CostOf(D) /\ CostOf(Waiting(from))' = CostOf(W)
      /\ CostOf(Unread(from))' = CostOf(U)
  <2>1. /\ CostOf(Mined(from))' = CostOf(D)' /\ CostOf(Waiting(from))' = CostOf(W)'
        /\ CostOf(Unread(from))' = CostOf(U)'
    BY <1>6 DEF CostOf
  <2> QED
    BY <1>4, <2>1
<1>9. /\ CostOf(D) = CostOf(Mined(from)) + c /\ CostOf(W) = CostOf(Waiting(from)) - c
      /\ CostOf(U) = CostOf(Unread(from)) + c /\ c \in Nat
      /\ Cardinality(D) = Cardinality(Mined(from)) + n
  <2>1. CASE i \notin Sent(from)
    BY <1>4, <1>5, <1>7, <2>1
  <2>2. CASE i \in Sent(from)
    <3>1. /\ D = Mined(from) \union {i} /\ W = Waiting(from) \ {i} /\ U = Unread(from) \union {i}
          /\ D \ {i} = Mined(from) /\ U \ {i} = Unread(from) /\ i \in D /\ i \in U /\ i \in Waiting(from)
          /\ c = Cost(signed[i]) /\ n = 1
      BY <1>7, <2>2
    <3>2. PICK w0 \in SUBSET Txs : w0 = Waiting(from)
      BY <1>5
    <3>3. CostOf(D) = c + CostOf(Mined(from))
      BY <1>1, <3>1, CostWithOne
    <3>4. CostOf(U) = c + CostOf(Unread(from))
      BY <1>1, <3>1, CostWithOne
    <3>5. CostOf(w0) = c + CostOf(W)
      BY <1>1, <3>1, <3>2, CostWithOne
    <3>6. Cardinality(Mined(from) \union {i}) = Cardinality(Mined(from)) + 1
      BY <1>4, <1>5, <1>7, FS_AddElement
    <3>7. c \in Nat
      BY <3>1 DEF Cost
    <3>8. CostOf(Mined(from)) \in Nat /\ CostOf(Unread(from)) \in Nat /\ CostOf(w0) \in Nat /\ CostOf(W) \in Nat
          /\ CostOf(w0) = CostOf(Waiting(from))
      BY <1>4, <1>5, <3>2
    <3>9. Cardinality(D) = Cardinality(Mined(from)) + n
      BY <3>1, <3>6
    <3> QED
      BY <3>3, <3>4, <3>5, <3>7, <3>8, <3>9
  <2> QED
    BY <2>1, <2>2
<1>10. Cardinality(Got(from)) <= Cardinality(G) /\ Cardinality(Got(from)) \in Nat /\ Cardinality(G) \in Nat
  BY <1>4, <1>5, <1>7, FS_Subset
<1>11. /\ Gas(from) = FirstGas(from) + Cardinality(Got(from)) - CostOf(Mined(from))
       /\ NetworkNonce(from) = Cardinality(Mined(from))
       /\ Gas(from)' = FirstGas(from) + Cardinality(G) - CostOf(D)
       /\ NetworkNonce(from)' = Cardinality(D)
  <2>1. /\ Gas(from) = FirstGas(from) + Cardinality(Got(from)) - CostOf(Mined(from))
        /\ NetworkNonce(from) = Cardinality(Mined(from))
        /\ Gas(from)' = FirstGas(from) + Cardinality(Got(from)') - CostOf(Mined(from))'
        /\ NetworkNonce(from)' = Cardinality(Mined(from)')
    BY GasIs
  <2> QED
    BY <1>6, <1>8, <2>1
<1>12. CostOf(Mined(from)) \in Nat /\ CostOf(Waiting(from)) \in Nat /\ CostOf(Unread(from)) \in Nat
  BY <1>4, <1>5
<1>13. /\ Gas(from)' \in Int /\ Gas(from) \in Int /\ Gas(from)' >= Gas(from) - c
       /\ NetworkNonce(from)' = NetworkNonce(from) + n
  BY <1>5, <1>9, <1>10, <1>11, <1>12
<1> QED
  BY <1>3, <1>6, <1>7, <1>8, <1>9, <1>12, <1>13

LEMMA ExecuteMoney ==
  ASSUME SweepsInv, SweepsInv', MoneyInv, NEW i \in Txs, NEW outcome \in Final, Execute(i, outcome)
  PROVE  MoneyInv'
<1>1. /\ UNCHANGED <<sweeps, signed, sweeping>> /\ TablesTyped /\ DOMAIN fate = Txs
      /\ fate' = [fate EXCEPT ![i] = outcome] /\ fate[i] \notin Final
      /\ Evm(i) => signed[i].nonce = NetworkNonce(From(signed[i]))
  BY TxRows DEF Execute, SweepsInv, Final
<1>2. \A x \in Txs : fate'[x] = IF x = i THEN outcome ELSE fate[x]
  BY <1>1
<1>3. NoncesRun'
  <2> SUFFICES ASSUME NEW from \in Senders
               PROVE  /\ \A x \in Sent(from)' : /\ signed[x].nonce < Cardinality(Sent(from)')
                                                /\ fate'[x] \in Final <=> signed[x].nonce < NetworkNonce(from)'
                      /\ \A x, k \in Sent(from)' : signed[x].nonce = signed[k].nonce => x = k
                      /\ \A n \in 0..Cardinality(Sent(from)') - 1 : \E x \in Sent(from)' : signed[x].nonce = n
    BY <1>1 DEF NoncesRun, InOrder, Senders
  <2>1. PICK n : n = IF i \in Sent(from) THEN 1 ELSE 0
    OBVIOUS
  <2>2. Sent(from)' = Sent(from) /\ NetworkNonce(from)' = NetworkNonce(from) + n
    BY <2>1, ExecutedFrom
  <2>3. /\ \A x \in Sent(from) : /\ signed[x].nonce < Cardinality(Sent(from))
                                 /\ fate[x] \in Final <=> signed[x].nonce < NetworkNonce(from)
        /\ \A x, k \in Sent(from) : signed[x].nonce = signed[k].nonce => x = k
        /\ \A m \in 0..Cardinality(Sent(from)) - 1 : \E x \in Sent(from) : signed[x].nonce = m
    BY DEF MoneyInv, NoncesRun, InOrder
  <2>4. \A x \in Sent(from) : x \in Txs /\ signed[x].nonce \in Nat
    BY <1>1, TxRows DEF Sent, TxType
  <2>5. NetworkNonce(from) \in Nat
    BY <1>1, Within DEF NetworkNonce, Mined
  <2>6. i \in Sent(from) => signed[i].nonce = NetworkNonce(from)
    BY <1>1 DEF Sent
  <2>7. \A x \in Sent(from) : fate'[x] \in Final <=> signed[x].nonce < NetworkNonce(from) + n
    BY <1>2, <2>1, <2>3, <2>4, <2>5, <2>6
  <2> QED
    BY <2>2, <2>3, <2>7
<1>4. Payable'
  <2> SUFFICES ASSUME NEW from \in Senders PROVE CostOf(Waiting(from))' <= Gas(from)'
    BY DEF Payable, Senders
  <2>1. PICK c : c = IF i \in Sent(from) THEN Cost(signed[i]) ELSE 0
    OBVIOUS
  <2>2. /\ Gas(from)' \in Int /\ Gas(from) \in Int /\ Gas(from)' >= Gas(from) - c
        /\ CostOf(Waiting(from)) \in Nat /\ CostOf(Waiting(from))' = CostOf(Waiting(from)) - c
        /\ c \in Nat
    BY <2>1, ExecutedFrom
  <2>3. CostOf(Waiting(from)) <= Gas(from)
    BY DEF MoneyInv, Payable
  <2> QED
    BY <2>2, <2>3
<1>5. ASSUME NEW v \in SweepWorkers PROVE ReadHolds(v)'
  <2>1. PICK d : d = sweeping[v]
    OBVIOUS
  <2>2. sweeping'[v] = d
    BY <1>1, <2>1
  <2> SUFFICES ASSUME d # Resting, d.step = "stage" PROVE ReadOK(d, v)'
    BY <2>2, ReadNext
  <2>3. ReadOK(d, v) /\ d.gas \in Int
    BY <2>1, WorkerFacts DEF MoneyInv, ReadHolds, WorkerTyped
  <2>4. PICK from : from = Payer(d)
    OBVIOUS
  <2>5. PICK c : c = IF i \in Sent(from) THEN Cost(signed[i]) ELSE 0
    OBVIOUS
  <2>6. /\ Gas(from)' \in Int /\ Gas(from) \in Int /\ Gas(from)' >= Gas(from) - c
        /\ CostOf(Unread(from)) \in Nat /\ CostOf(Unread(from))' = CostOf(Unread(from)) + c
        /\ c \in Nat /\ Sent(from)' = Sent(from)
    BY <2>5, ExecutedFrom
  <2>7. d.nonce <= Cardinality(Sent(from)')
    BY <2>3, <2>4, <2>6 DEF ReadOK
  <2>8. ASSUME HoldsJob(d.job, v)', sweeps'[d.job].family = "evm"
        PROVE  d.gas <= Gas(from)' + CostOf(Unread(from))'
    <3>1. d.gas <= Gas(from) + CostOf(Unread(from))
      BY <1>1, <2>3, <2>4, <2>8 DEF ReadOK, HoldsJob
    <3> QED
      BY <2>3, <2>6, <3>1
  <2>9. Payer(d)' = Payer(d)
    BY DEF Payer
  <2> QED
    BY <2>4, <2>7, <2>8 DEF ReadOK
<1> QED
  BY <1>3, <1>4, <1>5 DEF MoneyInv
(* A transfer that is signed.                                               *)
Appended(t) ==
  /\ t \in TxType /\ t.job \in 1..Len(sweeps) /\ SameFamilies
  /\ signed' = Append(signed, t) /\ fate' = Append(fate, "unseen")
IsOf(t, from) == sweeps[t.job].family = "evm" /\ From(t) = from
OneMore(t, from, mine) ==
  /\ Sent(from)' = Sent(from) \union mine
  /\ NetworkNonce(from)' = NetworkNonce(from) /\ Gas(from)' = Gas(from)
  /\ CostOf(Unread(from))' = CostOf(Unread(from))
  /\ mine = {} => CostOf(Waiting(from))' = CostOf(Waiting(from))
  /\ mine # {} => CostOf(Waiting(from))' = CostOf(Waiting(from)) + Cost(t)
NewRow(t, x) ==
  /\ x \notin Txs /\ signed'[x] = t /\ fate'[x] \notin Final
  /\ \A i \in Txs : signed'[i] = signed[i] /\ fate'[i] = fate[i]

LEMMA AppendedTo ==
  ASSUME SweepsInv, NEW t, Appended(t), NEW x, x = Len(signed) + 1, NEW from,
         NEW mine, IsOf(t, from) => mine = {x}, ~IsOf(t, from) => mine = {}
  PROVE  NewRow(t, x) /\ OneMore(t, from, mine)
<1>0. /\ t \in TxType /\ t.job \in 1..Len(sweeps) /\ SameFamilies
      /\ signed' = Append(signed, t) /\ fate' = Append(fate, "unseen")
      /\ (sweeps[t.job].family = "evm" /\ From(t) = from => mine = {x})
      /\ (~(sweeps[t.job].family = "evm" /\ From(t) = from) => mine = {})
  BY DEF Appended, IsOf
<1>1. TablesTyped /\ fate \in Seq(Fates) /\ Len(fate) = Len(signed) /\ Txs = 1..Len(signed) /\ "unseen" \in Fates
  BY TxRows DEF SweepsInv, TablesTyped, Fates
<1>2. /\ Txs' = Txs \union {x} /\ x \notin Txs /\ signed'[x] = t
      /\ \A i \in Txs : signed'[i] = signed[i]
  BY <1>0, <1>1, TransferAdded
<1>3. fate'[x] = "unseen" /\ \A i \in Txs : fate'[i] = fate[i]
  BY <1>0, <1>1, AppendProperties
<1>4. \A i \in Txs : signed[i].job \in 1..Len(sweeps)
  BY <1>1, TxRows
<1>5. Sent(from)' = Sent(from) \union mine
  <2>1. \A i \in Txs : (Evm(i)' <=> Evm(i)) /\ From(signed'[i]) = From(signed[i])
    BY <1>0, <1>2, <1>4 DEF Evm, SameFamilies
  <2>2. (Evm(x)' <=> sweeps[t.job].family = "evm") /\ From(signed'[x]) = From(t)
    BY <1>0, <1>2 DEF Evm, SameFamilies
  <2>3. x \in mine <=> sweeps[t.job].family = "evm" /\ From(t) = from
    BY <1>0
  <2>4. mine \subseteq {x}
    BY <1>0
  <2> QED
    BY <1>2, <2>1, <2>2, <2>3, <2>4 DEF Sent
<1>6. "unseen" \notin Final /\ "unseen" # "ok"
  BY DEF Final
<1>7. mine \subseteq {x} /\ \A i \in Sent(from) : i \in Txs
  BY <1>0 DEF Sent
<1>8. Mined(from)' = Mined(from) /\ Got(from)' = Got(from) /\ Unread(from)' = Unread(from)
      /\ Waiting(from)' = Waiting(from) \union mine
  <2>1. Mined(from)' = Mined(from)
    BY <1>3, <1>5, <1>6, <1>7 DEF Mined
  <2>2. Got(from)' = Got(from)
    BY <1>2, <1>3, <1>6 DEF Got
  <2>3. Unread(from)' = Unread(from)
    BY <1>2, <1>3, <1>5, <1>6, <1>7 DEF Unread
  <2>4. Waiting(from)' = Waiting(from) \union mine
    BY <1>3, <1>5, <1>6, <1>7 DEF Waiting
  <2> QED
    BY <2>1, <2>2, <2>3, <2>4
<1>9. \A T \in SUBSET Txs : CostOf(T)' = CostOf(T) /\ CostOf(T) \in Nat
  BY <1>1, <1>2, CostKept, CostType
<1>10. PICK D \in SUBSET Txs, W \in SUBSET Txs, U \in SUBSET Txs :
         D = Mined(from) /\ W = Waiting(from) /\ U = Unread(from)
  BY <1>1, Within
<1>11. CostOf(Mined(from))' = CostOf(D)' /\ CostOf(Unread(from))' = CostOf(U)'
       /\ CostOf(Waiting(from))' = CostOf(W \union mine)'
  BY <1>8, <1>10 DEF CostOf
<1>12. Gas(from)' = Gas(from) /\ NetworkNonce(from)' = NetworkNonce(from)
       /\ CostOf(Unread(from))' = CostOf(Unread(from))
  BY <1>8, <1>9, <1>10, <1>11, GasIs
<1>13. CostOf(W \union mine)' = CostOf(W) + (IF mine = {} THEN 0 ELSE Cost(t))
  <2>1. CASE mine = {}
    <3>1. W \union mine = W
      BY <2>1
    <3>2. CostOf(W \union mine)' = CostOf(W)'
      BY <3>1
    <3> QED
      BY <1>9, <2>1, <3>2
  <2>2. CASE mine = {x}
    <3>1. PICK V : V = W \union {x}
      OBVIOUS
    <3>2. PICK g : g = [i \in Txs' |-> Cost(signed'[i])]
      OBVIOUS
    <3>3. x \in V /\ V \ {x} = W /\ V \in SUBSET Txs'
      BY <1>2, <3>1
    <3>4. CostOf(V)' = SumFunctionOnSet(g, V) /\ CostOf(W)' = SumFunctionOnSet(g, W)
      BY <3>2 DEF CostOf
    <3>5. \A i \in V : g[i] \in Int
      BY <3>2, <3>3 DEF Cost
    <3>6. IsFiniteSet(V)
      <4>1. IsFiniteSet(W)
        BY <1>1, CostType
      <4> QED
        BY <3>1, <4>1, FS_AddElement
    <3>7. SumFunctionOnSet(g, V) = g[x] + SumFunctionOnSet(g, V \ {x})
      BY <3>3, <3>5, <3>6, SumTakeOut, ZenonT(60)
    <3>8. g[x] = Cost(t) /\ Cost(t) \in Nat
      BY <1>0, <1>2, <3>2 DEF Cost, TxType
    <3>9. CostOf(W \union mine)' = CostOf(V)'
      BY <2>2, <3>1
    <3>10. CostOf(W)' = CostOf(W) /\ CostOf(W) \in Nat
      BY <1>9
    <3>12. SumFunctionOnSet(g, V \ {x}) = SumFunctionOnSet(g, W)
      BY <3>3
    <3>11. CostOf(V)' = CostOf(W) + Cost(t)
      BY <3>12, <3>3, <3>4, <3>7, <3>8, <3>10
    <3> QED
      BY <2>2, <3>9, <3>11
  <2> QED
    BY <1>7, <2>1, <2>2
<1>14. CostOf(W) \in Nat /\ CostOf(Waiting(from)) = CostOf(W)
  BY <1>9, <1>10
<1>15. mine = {} => CostOf(Waiting(from))' = CostOf(Waiting(from))
  <2> SUFFICES ASSUME mine = {} PROVE CostOf(Waiting(from))' = CostOf(Waiting(from))
    OBVIOUS
  <2>1. CostOf(W \union mine)' = CostOf(W) + 0
    BY <1>13
  <2> QED
    BY <1>11, <1>14, <2>1
<1>16. mine # {} => CostOf(Waiting(from))' = CostOf(Waiting(from)) + Cost(t)
  <2> SUFFICES ASSUME mine # {} PROVE CostOf(Waiting(from))' = CostOf(Waiting(from)) + Cost(t)
    OBVIOUS
  <2>1. CostOf(W \union mine)' = CostOf(W) + Cost(t)
    BY <1>13
  <2> QED
    BY <1>11, <1>14, <2>1
<1>17. fate'[x] \notin Final
  BY <1>3, <1>6
<1> QED
  BY <1>2, <1>3, <1>5, <1>12, <1>15, <1>16, <1>17 DEF NewRow, OneMore

(* One more transfer of an address, with the next nonce and not executed.   *)
LEMMA OneMoreInOrder ==
  ASSUME SweepsInv, NEW from, NEW y, InOrder(from), y \notin Txs,
         Sent(from)' = Sent(from) \union {y}, NetworkNonce(from)' = NetworkNonce(from),
         signed'[y].nonce = Cardinality(Sent(from)), fate'[y] \notin Final,
         \A i \in Txs : signed'[i] = signed[i] /\ fate'[i] = fate[i]
  PROVE  InOrder(from)'
<1>1. /\ Cardinality(Sent(from)) \in Nat /\ IsFiniteSet(Sent(from)) /\ Sent(from) \subseteq Txs
      /\ NetworkNonce(from) \in Nat /\ NetworkNonce(from) <= Cardinality(Sent(from))
  <2>1. TablesTyped
    BY DEF SweepsInv
  <2>2. Sent(from) \in SUBSET Txs
    BY <2>1, Within
  <2>3. /\ NetworkNonce(from) = Cardinality(Mined(from)) /\ Cardinality(Mined(from)) \in Nat
        /\ Cardinality(Mined(from)) <= Cardinality(Sent(from))
    BY <2>1, Within, GasIs
  <2> QED
    BY <2>1, <2>2, <2>3, CostType
<1>2. PICK c \in Nat, S \in SUBSET Txs, g \in Nat :
        c = Cardinality(Sent(from)) /\ S = Sent(from) /\ g = NetworkNonce(from)
  BY <1>1
<1>3. /\ \A i \in S : /\ signed[i].nonce < c
                      /\ fate[i] \in Final <=> signed[i].nonce < g
      /\ \A i, m \in S : signed[i].nonce = signed[m].nonce => i = m
      /\ \A m \in 0..c - 1 : \E i \in S : signed[i].nonce = m
  BY <1>2 DEF InOrder
<1>4. \A i \in S : signed'[i] = signed[i] /\ fate'[i] = fate[i] /\ signed[i].nonce \in Nat
  BY <1>1, <1>2, TxRows DEF SweepsInv, TxType
<1>5. g \in Nat /\ g <= c /\ y \notin S
  BY <1>1, <1>2
<1>6. Cardinality(S \union {y}) = c + 1
  BY <1>1, <1>2, <1>5, FS_AddElement
<1>7. PICK V : V = S \union {y}
  OBVIOUS
<1>8. Sent(from)' = V /\ NetworkNonce(from)' = g /\ Cardinality(V) = c + 1 /\ (c + 1) - 1 = c
      /\ signed'[y].nonce = c
  BY <1>2, <1>6, <1>7
<1>9. \A i \in V : /\ signed'[i].nonce < c + 1
                   /\ fate'[i] \in Final <=> signed'[i].nonce < g
  BY <1>3, <1>4, <1>5, <1>7, <1>8
<1>10. \A i, k \in V : signed'[i].nonce = signed'[k].nonce => i = k
  BY <1>3, <1>4, <1>5, <1>7, <1>8
<1>11. \A m \in 0..c : \E i \in V : signed'[i].nonce = m
  <2> SUFFICES ASSUME NEW m \in 0..c PROVE \E i \in V : signed'[i].nonce = m
    OBVIOUS
  <2>1. CASE m = c
    BY <1>7, <1>8, <2>1
  <2>2. CASE m # c
    <3>1. m \in 0..c - 1
      BY <2>2
    <3>2. PICK i \in S : signed[i].nonce = m
      BY <1>3, <3>1
    <3> QED
      BY <1>4, <1>7, <3>2
  <2> QED
    BY <2>1, <2>2
<1>12. /\ \A i \in V : /\ signed'[i].nonce < Cardinality(V)
                        /\ fate'[i] \in Final <=> signed'[i].nonce < g
       /\ \A n \in 0..Cardinality(V) - 1 : \E i \in V : signed'[i].nonce = n
  BY <1>8, <1>9, <1>11
<1>13. (\A i \in Sent(from) : /\ signed[i].nonce < Cardinality(Sent(from))
                              /\ fate[i] \in Final <=> signed[i].nonce < NetworkNonce(from))'
  <2>1. \A i \in V : signed'[i].nonce < Cardinality(V)
    BY <1>8, <1>9
  <2>4. \A i \in V : fate'[i] \in Final <=> signed'[i].nonce < g
    BY <1>9
  <2>2. (\A i \in Sent(from) : signed[i].nonce < Cardinality(Sent(from)))'
    BY <1>8, <2>1
  <2>3. (\A i \in Sent(from) : fate[i] \in Final <=> signed[i].nonce < NetworkNonce(from))'
    BY <1>8, <2>4
  <2> QED
    BY <2>2, <2>3
<1>14. (\A i, k \in Sent(from) : signed[i].nonce = signed[k].nonce => i = k)'
  BY <1>8, <1>10
<1>15. (\A n \in 0..Cardinality(Sent(from)) - 1 : \E i \in Sent(from) : signed[i].nonce = n)'
  BY <1>8, <1>12
<1> QED
  BY <1>13, <1>14, <1>15 DEF InOrder

(* The nonce it gets is the first that no stored transfer of the address has. *)
LEMMA NextIsFree ==
  ASSUME SweepsInv, MoneyInv, NEW from \in Senders, NEW read \in Nat, read <= Cardinality(Sent(from))
  PROVE  NextNonce(from, read) = Cardinality(Sent(from))
<1> DEFINE n == NextNonce(from, read)
           c == Cardinality(Sent(from))
<1>1. /\ n \in Nat /\ n >= read /\ \A i \in Sent(from) : signed[i].nonce < n
      /\ n = read \/ \E i \in Sent(from) : n = signed[i].nonce + 1
  BY NonceType DEF SweepsInv
<1>2. /\ \A i \in Sent(from) : signed[i].nonce < c
      /\ \A m \in 0..c - 1 : \E i \in Sent(from) : signed[i].nonce = m
  BY DEF MoneyInv, NoncesRun, InOrder
<1>3. c \in Nat /\ \A i \in Sent(from) : signed[i].nonce \in Nat
  BY Within, TxRows DEF SweepsInv, Sent, TxType
<1> HIDE DEF n, c
<1>4. n <= c
  BY <1>1, <1>2, <1>3 DEF c
<1>5. ASSUME n < c PROVE FALSE
  <2>1. n \in 0..c - 1
    BY <1>1, <1>3, <1>5
  <2>2. PICK i \in Sent(from) : signed[i].nonce = n
    BY <1>2, <2>1
  <2> QED
    BY <1>1, <1>3, <2>2
<1>6. n = c
  BY <1>1, <1>3, <1>4, <1>5
<1> QED
  BY <1>6 DEF n, c

(* What it costs was there when the worker read the balance, and is not     *)
(* reserved.                                                                *)
LEMMA CanPay ==
  ASSUME SweepsInv, MoneyInv, NEW from \in Senders, NEW cost \in Nat, NEW gas \in Int,
         cost + ReservedGas(from) <= gas, gas <= Gas(from) + CostOf(Unread(from))
  PROVE  CostOf(Waiting(from)) + cost <= Gas(from)
<1> DEFINE open == {i \in Sent(from) : signed[i].state \notin Settled}
<1>1. TablesTyped /\ \A i \in Txs : signed[i].state \in TxStates
  BY TxRows DEF SweepsInv, TxType
<1>2. /\ open \in SUBSET Txs /\ Unread(from) \in SUBSET open /\ Waiting(from) = open \ Unread(from)
  <2>1. \A i \in Sent(from) : i \in Txs /\ (fate[i] \notin Final => signed[i].state \notin Settled)
    BY DEF Sent, SweepsInv, Recorded, Final, Settled
  <2> QED
    BY <2>1 DEF Waiting, Unread
<1>3. ReservedGas(from) = CostOf(open)
  BY DEF ReservedGas
<1> HIDE DEF open
<1>4. CostOf(open) = CostOf(Unread(from)) + CostOf(Waiting(from))
      /\ CostOf(Unread(from)) \in Nat /\ CostOf(Waiting(from)) \in Nat
  BY <1>1, <1>2, CostSplit
<1>5. Gas(from) \in Int
  BY <1>1, GasType
<1> QED
  BY <1>3, <1>4, <1>5

LEMMA SignMoney ==
  ASSUME SweepsInv, SweepsInv', MoneyInv, NEW w \in SweepWorkers, SignEvm(w) \/ SignSolana(w)
  PROVE  MoneyInv'
<1> DEFINE d == sweeping[w]
           t(n) == [job |-> d.job, source |-> d.source, kind |-> d.kind, nonce |-> n, state |-> "signed"]
<1>1. d # Resting /\ d.step = "stage"
  BY DEF SignEvm, SignSolana, MayStage
<1>2. /\ TablesTyped /\ WorkerTyped(d) /\ d.job \in 1..Len(sweeps) /\ d.source \in Sources
      /\ d.kind \in {"gas", "sweep"} /\ d.nonce \in Nat /\ d.gas \in Int
      /\ (Holds(w) => HoldsJob(d.job, w))
  BY <1>1, WorkerFacts DEF WorkerTyped
<1>3. CASE Finish(w, "waiting", sweeps) /\ UNCHANGED <<signed, fate>>
  BY <1>1, <1>3, EndsMoney
<1>4. ASSUME Holds(w), NEW n \in Nat, Store(d, t(n), PendingItem(d.kind)), TurnsTo(w, "send"),
             sweeps[d.job].family = "evm" =>
               /\ n = NextNonce(Payer(d), d.nonce)
               /\ Cost(t(n)) + ReservedGas(Payer(d)) <= d.gas
      PROVE  MoneyInv'
  <2>1. PICK r : r = t(n)
    OBVIOUS
  <2>2. /\ r.job = d.job /\ r.source = d.source /\ r.kind = d.kind /\ r.nonce = n /\ r.state = "signed"
    BY <2>1
  <2>3. r \in TxType
    <3>1. d.job \in 1..MaxSweeps
      <4>1. Len(sweeps) <= MaxSweeps /\ Len(sweeps) \in Nat /\ MaxSweeps \in Nat
        BY <1>2, TxRows, SweepsAssumption DEF TablesTyped
      <4> HIDE DEF d
      <4> QED
        BY <1>2, <4>1
    <3> HIDE DEF d
    <3> QED
      BY <1>2, <2>1, <3>1 DEF TxType, TxStates
  <2>4. PICK j \in 1..Len(sweeps), s \in Sources, k \in {"gas", "sweep"} :
          j = d.job /\ s = d.source /\ k = d.kind
    BY <1>2
  <2>5. /\ signed' = Append(signed, r) /\ fate' = Append(fate, "unseen")
        /\ sweeps' = [sweeps EXCEPT ![j].items[s] = PendingItem(k)]
    <3>1. Stored(j, s, k) = {}
      BY <1>1, <1>4, <2>4, StagedItem DEF TransferStates
    <3> QED
      BY <1>4, <2>1, <2>4, <3>1 DEF Store
  <2>6. /\ OnlyJob(j) /\ Is(sweeps'[j], sweeps[j].state, sweeps[j].lease, sweeps[j].live)
    <3>1. PendingItem(k) \in ItemStates
      BY DEF PendingItem, ItemStates
    <3> QED
      BY <1>2, <2>5, <3>1, ItemMoved
  <2>7. PICK e : e = Doing(j, s, k, "send")
    OBVIOUS
  <2>8. sweeping' = [sweeping EXCEPT ![w] = e] /\ e.step = "send"
    BY <1>4, <2>4, <2>7 DEF TurnsTo, Doing
  <2>9. SameFamilies /\ Others(w) /\ ReadHolds(w)'
    <3>1. sweeping'[w] = e /\ \A v \in SweepWorkers \ {w} : sweeping'[v] = sweeping[v]
      BY <1>2, <2>8 DEF TablesTyped
    <3>2. SameFamilies
      BY <2>6 DEF OnlyJob, SameFamilies
    <3>3. Others(w)
      BY <2>6, <3>1 DEF Others, HoldsJob, Is, OnlyJob
    <3> QED
      BY <2>8, <3>1, <3>2, <3>3 DEF ReadHolds
  <2> DEFINE x == Len(signed) + 1
             payer == Payer(d)
             evm == sweeps[d.job].family = "evm"
  <2>10. PICK y : y = x
    OBVIOUS
  <2>11. From(r) = payer /\ sweeps[r.job].family = sweeps[d.job].family /\ payer \in Senders
    BY <1>2, <2>2 DEF From, Payer, Senders
  <2>12. ASSUME NEW from
         PROVE  /\ y \notin Txs /\ signed'[y] = r /\ fate'[y] \notin Final
                /\ \A i \in Txs : signed'[i] = signed[i] /\ fate'[i] = fate[i]
                /\ Sent(from)' = Sent(from) \union (IF evm /\ payer = from THEN {y} ELSE {})
                /\ NetworkNonce(from)' = NetworkNonce(from) /\ Gas(from)' = Gas(from)
                /\ CostOf(Unread(from))' = CostOf(Unread(from))
                /\ evm /\ payer = from => CostOf(Waiting(from))' = CostOf(Waiting(from)) + Cost(r)
                /\ ~(evm /\ payer = from) => CostOf(Waiting(from))' = CostOf(Waiting(from))
    <3>1. PICK m : m = IF evm /\ payer = from THEN {y} ELSE {}
      OBVIOUS
    <3>2. (IsOf(r, from) => m = {y}) /\ (~IsOf(r, from) => m = {}) /\ y = Len(signed) + 1
      BY <2>10, <2>11, <3>1 DEF IsOf
    <3>3. r.job \in 1..Len(sweeps)
      BY <1>2, <2>2
    <3>4. Appended(r)
      BY <2>3, <2>5, <2>9, <3>3 DEF Appended
    <3> HIDE DEF x, payer, evm, d, t
    <3>5. NewRow(r, y) /\ OneMore(r, from, m)
      BY <3>2, <3>4, AppendedTo
    <3> QED
      BY <3>1, <3>5 DEF NewRow, OneMore
  <2>13. ReadOK(d, w) /\ HoldsJob(d.job, w)
    BY <1>1, <1>2, <1>4 DEF MoneyInv, ReadHolds
  <2>14. evm => n = Cardinality(Sent(payer)) /\ CostOf(Waiting(payer)) + Cost(r) <= Gas(payer)
    <3> SUFFICES ASSUME evm PROVE n = Cardinality(Sent(payer)) /\ CostOf(Waiting(payer)) + Cost(r) <= Gas(payer)
      OBVIOUS
    <3>1. d.nonce <= Cardinality(Sent(payer)) /\ d.gas <= Gas(payer) + CostOf(Unread(payer))
      BY <2>13 DEF ReadOK
    <3>2. NextNonce(payer, d.nonce) = Cardinality(Sent(payer))
      BY <1>2, <2>11, <3>1, NextIsFree
    <3>3. Cost(r) \in Nat /\ Cost(r) + ReservedGas(payer) <= d.gas
      BY <1>4, <2>1 DEF Cost
    <3>4. CostOf(Waiting(payer)) + Cost(r) <= Gas(payer)
      BY <1>2, <2>11, <3>1, <3>3, CanPay
    <3> QED
      BY <1>4, <3>2, <3>4
  <2>15. \A from : Cardinality(Sent(from)) \in Nat /\ IsFiniteSet(Sent(from)) /\ Sent(from) \subseteq Txs
                   /\ NetworkNonce(from) \in Nat /\ NetworkNonce(from) <= Cardinality(Sent(from))
                   /\ CostOf(Waiting(from)) \in Nat /\ Gas(from) \in Int
    BY <1>2, Within, GasIs, GasType, CostType
  <2> HIDE DEF x, payer, evm
  <2>16. NoncesRun'
    <3> SUFFICES ASSUME NEW from \in Senders PROVE InOrder(from)'
      BY DEF NoncesRun, Senders
    <3>1. /\ \A i \in Sent(from) : /\ signed[i].nonce < Cardinality(Sent(from))
                                   /\ fate[i] \in Final <=> signed[i].nonce < NetworkNonce(from)
          /\ \A i, m \in Sent(from) : signed[i].nonce = signed[m].nonce => i = m
          /\ \A m \in 0..Cardinality(Sent(from)) - 1 : \E i \in Sent(from) : signed[i].nonce = m
      BY DEF MoneyInv, NoncesRun, InOrder
    <3>2. \A i \in Sent(from) : i \in Txs /\ signed'[i] = signed[i] /\ fate'[i] = fate[i]
      BY <2>12, <2>15
    <3>3. CASE ~(evm /\ payer = from)
      <4>1. Sent(from)' = Sent(from) /\ NetworkNonce(from)' = NetworkNonce(from)
        BY <2>12, <3>3
      <4> QED
        BY <3>1, <3>2, <4>1 DEF InOrder
    <3>4. CASE evm /\ payer = from
      <4>1. Sent(from)' = Sent(from) \union {y} /\ NetworkNonce(from)' = NetworkNonce(from)
            /\ y \notin Sent(from)
        BY <2>12, <2>15, <3>4
      <4>2. signed'[y].nonce = Cardinality(Sent(from)) /\ fate'[y] \notin Final /\ y \notin Txs
        BY <2>2, <2>12, <2>14, <3>4
      <4>3. InOrder(from) /\ \A i \in Txs : signed'[i] = signed[i] /\ fate'[i] = fate[i]
        BY <2>12 DEF MoneyInv, NoncesRun
      <4> QED
        BY <4>1, <4>2, <4>3, OneMoreInOrder
    <3> QED
      BY <3>3, <3>4
  <2>17. Payable'
    <3> SUFFICES ASSUME NEW from \in Senders PROVE CostOf(Waiting(from))' <= Gas(from)'
      BY DEF Payable, Senders
    <3>1. CostOf(Waiting(from)) <= Gas(from)
      BY DEF MoneyInv, Payable
    <3>2. CASE evm /\ payer = from
      BY <2>12, <2>14, <3>2
    <3>3. CASE ~(evm /\ payer = from)
      <4>1. CostOf(Waiting(from))' = CostOf(Waiting(from)) /\ Gas(from)' = Gas(from)
        BY <2>12, <3>3
      <4> QED
        BY <2>15, <3>1, <4>1
    <3> QED
      BY <3>2, <3>3
  <2>18. ASSUME NEW v \in SweepWorkers PROVE ReadHolds(v)'
    <3>1. CASE v = w
      BY <2>9, <3>1
    <3>2. CASE v # w
      <4>1. PICK z : z = sweeping[v]
        OBVIOUS
      <4>2. sweeping'[v] = z
        BY <2>9, <3>2, <4>1 DEF Others
      <4> SUFFICES ASSUME z # Resting, z.step = "stage" PROVE ReadOK(z, v)'
        BY <4>2, ReadNext
      <4>3. ReadOK(z, v) /\ z.nonce \in Nat /\ z.job \in 1..Len(sweeps)
        BY <4>1, WorkerFacts DEF MoneyInv, ReadHolds, WorkerTyped
      <4>4. PICK from : from = Payer(z)
        OBVIOUS
      <4>5. Cardinality(Sent(from)) <= Cardinality(Sent(from)') /\ Cardinality(Sent(from)') \in Nat
        <5>1. CASE ~(evm /\ payer = from)
          <6>1. Sent(from)' = Sent(from)
            BY <2>12, <5>1
          <6> QED
            BY <2>15, <6>1
        <5>2. CASE evm /\ payer = from
          <6>1. Sent(from)' = Sent(from) \union {y} /\ y \notin Sent(from)
            BY <2>12, <2>15, <5>2
          <6>2. Cardinality(Sent(from) \union {y}) = Cardinality(Sent(from)) + 1
            BY <2>15, <6>1, FS_AddElement
          <6> QED
            BY <2>15, <6>1, <6>2
        <5> QED
          BY <5>1, <5>2
      <4>6. z.nonce <= Cardinality(Sent(from)')
        <5>1. z.nonce <= Cardinality(Sent(from)) /\ Cardinality(Sent(from)) \in Nat
          BY <2>15, <4>3, <4>4 DEF ReadOK
        <5> QED
          BY <4>3, <4>5, <5>1
      <4>7. ASSUME HoldsJob(z.job, v)', sweeps'[z.job].family = "evm"
            PROVE  z.gas <= Gas(from)' + CostOf(Unread(from))'
        <5>1. HoldsJob(z.job, v) /\ sweeps[z.job].family = "evm"
          BY <2>9, <3>2, <4>3, <4>7 DEF Others, SameFamilies
        <5> QED
          BY <2>12, <4>3, <4>4, <5>1 DEF ReadOK
      <4>8. Payer(z)' = Payer(z)
        BY DEF Payer
      <4> QED
        BY <4>4, <4>6, <4>7 DEF ReadOK
    <3> QED
      BY <3>1, <3>2
  <2> QED
    BY <2>16, <2>17, <2>18 DEF MoneyInv
<1>5. \/ Finish(w, "waiting", sweeps) /\ UNCHANGED <<signed, fate>>
      \/ \E n \in Nat : /\ Holds(w) /\ Store(d, t(n), PendingItem(d.kind)) /\ TurnsTo(w, "send")
                        /\ sweeps[d.job].family = "evm" =>
                             /\ n = NextNonce(Payer(d), d.nonce)
                             /\ Cost(t(n)) + ReservedGas(Payer(d)) <= d.gas
  <2>1. CASE SignEvm(w)
    <3>1. NextNonce(Payer(d), d.nonce) \in Nat
      BY <1>2, NonceType
    <3> QED
      BY <2>1, <3>1 DEF SignEvm, Payer
  <2>2. CASE SignSolana(w)
    <3>1. d.kind = "sweep" /\ sweeps[d.job].family # "evm"
      BY <1>2, <2>2 DEF SignSolana, MayStage, WorkerTyped
    <3> QED
      BY <2>2, <3>1 DEF SignSolana, PendingItem
  <2> QED
    BY <2>1, <2>2
<1> QED
  BY <1>3, <1>4, <1>5
-----------------------------------------------------------------------------
LEMMA MoneyStarts == SweepsInit => MoneyInv
<1> SUFFICES ASSUME SweepsInit PROVE MoneyInv
  OBVIOUS
<1>1. SweepsInv /\ TablesTyped /\ Txs = {}
  <2>1. SweepsInv
    BY SweepsStart
  <2>2. Txs = {}
    BY DEF SweepsInit, Txs
  <2> QED
    BY <2>1, <2>2 DEF SweepsInv
<1>2. ASSUME NEW from
      PROVE  Sent(from) = {} /\ Waiting(from) = {} /\ Mined(from) = {} /\ Cardinality(Sent(from)) = 0
             /\ CostOf(Waiting(from)) = 0 /\ Gas(from) >= 0
  <2>1. Sent(from) = {} /\ Waiting(from) = {} /\ Mined(from) = {}
    BY <1>1 DEF Sent, Waiting, Mined
  <2>2. CostOf({}) = 0
    BY SumOfNone DEF CostOf
  <2>3. Cardinality({}) = 0
    BY FS_EmptySet
  <2>4. Gas(from) = FirstGas(from) + Cardinality(Got(from)) - 0
    BY <2>1, <2>2, GasIs
  <2>5. FirstGas(from) \in Nat /\ Cardinality(Got(from)) \in Nat
    BY <1>1, Within
  <2>6. Gas(from) >= 0
    BY <2>4, <2>5
  <2> QED
    BY <2>1, <2>2, <2>3, <2>6
<1>3. NoncesRun
  BY <1>2 DEF NoncesRun, InOrder
<1>4. Payable
  BY <1>2 DEF Payable
<1>5. \A w \in SweepWorkers : ReadHolds(w)
  BY DEF ReadHolds, SweepsInit
<1> QED
  BY <1>3, <1>4, <1>5 DEF MoneyInv

LEMMA MoneyMoves == SweepsInv /\ MoneyInv /\ [SweepsNext]_SweepsVars => MoneyInv'
<1> SUFFICES ASSUME SweepsInv, MoneyInv, [SweepsNext]_SweepsVars PROVE MoneyInv'
  OBVIOUS
<1>0. SweepsInv' /\ \A n \in 0..Len(signed) : n \in Nat
  BY SweepsMoves
<1>1. CASE \/ \E f \in Families, c \in SUBSET Sources : CreateSweep(f, c)
           \/ \E j \in 1..Len(sweeps) : CancelSweep(j) \/ RetrySweep(j) \/ LeaseEnds(j) \/ EndSweep(j)
           \/ UNCHANGED SweepsVars
  BY <1>0, <1>1, OwnerMoney
<1>2. ASSUME NEW w \in SweepWorkers, NEW j \in 1..Len(sweeps), NEW s \in Sources, NEW n \in 0..Len(signed),
             ClaimSweep(w, j, s, n)
      PROVE  MoneyInv'
  BY <1>0, <1>2, ClaimMoney
<1>3. ASSUME NEW w \in SweepWorkers, SignEvm(w) \/ SignSolana(w) PROVE MoneyInv'
  BY <1>0, <1>3, SignMoney
<1>4. ASSUME NEW w \in SweepWorkers,
             \/ DropSweep(w) \/ Unrecorded(w)
             \/ RefuseToSign(w, "waiting") \/ RefuseToSign(w, "fee_review_required")
             \/ RecordFailure(w) \/ RecordTransfer(w) \/ MarkSent(w) \/ MarkExpired(w)
             \/ \E n \in Nat : Known(w, n)
             \/ CheckSolana(w)
             \/ \E heard, answered \in BOOLEAN :
                  BroadcastEvm(w, heard) \/ BroadcastSolana(w, heard, answered)
      PROVE  MoneyInv'
  BY <1>0, <1>4, RoundMoney
<1>5. ASSUME NEW w \in SweepWorkers, NEW n \in 0..Len(signed), RecordGas(w, n) PROVE MoneyInv'
  BY <1>0, <1>5, GoOnMoney
<1>6. ASSUME NEW i \in Txs, Execute(i, "ok") \/ Execute(i, "reverted") PROVE MoneyInv'
  <2>1. PICK outcome \in Final : Execute(i, outcome)
    BY <1>6 DEF Final
  <2> QED
    BY <1>0, <2>1, ExecuteMoney
<1>7. ASSUME NEW i \in Txs, Forget(i) \/ Lapse(i) PROVE MoneyInv'
  BY <1>0, <1>7, PoolMoney
<1> QED
  BY <1>0, <1>1, <1>2, <1>3, <1>4, <1>5, <1>6, <1>7 DEF SweepsNext

LEMMA MoneyAdds == SweepsInv /\ MoneyInv => SignedCanExecute
<1> SUFFICES ASSUME SweepsInv, MoneyInv, NEW from \in Senders
             PROVE  /\ {signed[i].nonce : i \in Waiting(from)} =
                         {NetworkNonce(from) + k : k \in 0..Cardinality(Waiting(from)) - 1}
                    /\ CostOf(Waiting(from)) <= Gas(from)
  BY DEF SignedCanExecute, Waiting, Senders
<1>1. CostOf(Waiting(from)) <= Gas(from)
  BY DEF MoneyInv, Payable
<1>2. /\ \A i \in Sent(from) : /\ signed[i].nonce < Cardinality(Sent(from))
                               /\ fate[i] \in Final <=> signed[i].nonce < NetworkNonce(from)
      /\ \A m \in 0..Cardinality(Sent(from)) - 1 : \E i \in Sent(from) : signed[i].nonce = m
  BY DEF MoneyInv, NoncesRun, InOrder
<1>3. TablesTyped /\ Mined(from) \in SUBSET Sent(from) /\ Waiting(from) = Sent(from) \ Mined(from)
  BY DEF SweepsInv, Mined, Waiting
<1>4. /\ IsFiniteSet(Sent(from)) /\ Cardinality(Sent(from)) \in Nat /\ Cardinality(Mined(from)) \in Nat
      /\ NetworkNonce(from) = Cardinality(Mined(from)) /\ Cardinality(Mined(from)) <= Cardinality(Sent(from))
  BY <1>3, Within, CostType, GasIs
<1>5. Cardinality(Waiting(from)) = Cardinality(Sent(from)) - Cardinality(Mined(from))
  <2>1. Cardinality(Sent(from) \ Mined(from)) = Cardinality(Sent(from)) - Cardinality(Sent(from) \cap Mined(from))
    BY <1>4, FS_Difference
  <2>2. Sent(from) \cap Mined(from) = Mined(from)
    BY <1>3
  <2> QED
    BY <1>3, <2>1, <2>2
<1>6. \A i \in Sent(from) : signed[i].nonce \in Nat
  BY <1>3, TxRows DEF Sent, TxType
<1> DEFINE c == Cardinality(Sent(from))
           nn == NetworkNonce(from)
           left == Cardinality(Waiting(from))
<1>7. c \in Nat /\ nn \in Nat /\ nn <= c /\ left = c - nn
  BY <1>4, <1>5
<1>8. \A i \in Sent(from) : i \in Waiting(from) <=> nn <= signed[i].nonce
  BY <1>2, <1>6, <1>7 DEF Waiting
<1>9. \A i \in Waiting(from) : i \in Sent(from)
  BY DEF Waiting
<1> HIDE DEF c, nn, left
<1>10. ASSUME NEW i \in Waiting(from) PROVE \E k \in 0..left - 1 : signed[i].nonce = nn + k
  <2>1. signed[i].nonce \in Nat /\ signed[i].nonce < c /\ nn <= signed[i].nonce
    BY <1>2, <1>6, <1>8, <1>9 DEF c
  <2>2. signed[i].nonce - nn \in 0..left - 1 /\ signed[i].nonce = nn + (signed[i].nonce - nn)
    BY <1>7, <2>1
  <2> QED
    BY <2>2
<1>11. ASSUME NEW k \in 0..left - 1 PROVE \E i \in Waiting(from) : signed[i].nonce = nn + k
  <2>1. nn + k \in 0..c - 1 /\ nn <= nn + k
    BY <1>7
  <2>2. PICK i \in Sent(from) : signed[i].nonce = nn + k
    BY <1>2, <2>1 DEF c
  <2> QED
    BY <1>8, <2>1, <2>2
<1>12. {signed[i].nonce : i \in Waiting(from)} = {nn + k : k \in 0..left - 1}
  BY <1>10, <1>11
<1> QED
  BY <1>1, <1>12 DEF nn, left

(* What is signed can still be executed and paid, whatever leases end while *)
(* a worker waits for the network: cryptoStageTransfer reserves every nonce *)
(* and the gas of what is not settled.                                      *)
THEOREM SignedStaysExecutable == SweepsSpec => []SignedCanExecute
<1>1. SweepsInit => SweepsInv /\ MoneyInv
  BY SweepsStart, MoneyStarts
<1>2. SweepsInv /\ MoneyInv /\ [SweepsNext]_SweepsVars => (SweepsInv /\ MoneyInv)'
  BY SweepsMoves, MoneyMoves
<1> QED
  BY <1>1, <1>2, MoneyAdds, PTL DEF SweepsSpec
=============================================================================
