----------------------------- MODULE CryptoWallets -----------------------------
(* One receiving branch (a mnemonic or an xpub) and the panels that manage *)
(* it in turn.  A wallet is deleted for good and imported anew under       *)
(* another id, or moved in an encrypted backup; its addresses are numbered *)
(* and go to one customer each.  A stale revision or an operation id seen  *)
(* before changes nothing, so an operation is one step.  Wallets have no   *)
(* unfinished sweep; names, passwords and derivation are left out.         *)
EXTENDS Integers, FiniteSets, FiniteSetsExt

CONSTANTS Panels, Origin,                       \* the branch was made at Origin
          IndexLimit,                           \* cryptoMaxIndex
          Networks,                             \* {"evm"} or {"evm", "solana"}
          MaxWallets, MaxBackups, MaxSkipped    \* bounds

ASSUME CryptoWalletsAssumption ==
  /\ Origin \in Panels /\ Networks \subseteq {"evm", "solana"} /\ "evm" \in Networks
  /\ {IndexLimit, MaxWallets, MaxBackups} \subseteq Nat \ {0} /\ MaxSkipped \in Nat

VARIABLES cryptoWallet,  \* crypto_wallets of a panel, at most one of the branch
          history,       \* crypto_wallet_history: every id the panel ever had
          allocated,     \* crypto_wallet_addresses
          exporting,     \* a backup read but not yet encrypted and marked
          backups,       \* the files its administrators hold
          born,          \* ids given so far
          given,         \* how many customers were given an index
          charge         \* the panel the administrators let give addresses,
                         \* and whether it knows what the others have given

WalletVars == <<cryptoWallet, history, allocated, exporting, backups, born,
                given, charge>>
-----------------------------------------------------------------------------
WalletIds == 1 .. MaxWallets
Indices == 0 .. IndexLimit - 1
AddressRows == [wallet : WalletIds, index : Indices, network : Networks]
CryptoWallets == [id : WalletIds, hot : BOOLEAN, enabled : BOOLEAN, next : 0 .. IndexLimit,
                  reserved : 0 .. IndexLimit, networks : SUBSET Networks, exported : BOOLEAN,
                  confirmed : BOOLEAN, recovery : BOOLEAN]
NoWallet == [id |-> 0, hot |-> FALSE, enabled |-> FALSE, next |-> 0, reserved |-> 0,
             networks |-> {}, exported |-> FALSE, confirmed |-> FALSE, recovery |-> FALSE]
Backups == [id : WalletIds, hot : BOOLEAN, next : 0 .. IndexLimit,
            networks : SUBSET Networks, rows : SUBSET AddressRows]
NoBackup == [id |-> 0, hot |-> FALSE, next |-> 0, networks |-> {}, rows |-> {}]
HistoryRows == [next : 0 .. IndexLimit, deleted : BOOLEAN]

(* The type invariant of CryptoWallets.                                    *)
CryptoWalletsTypeOK ==
  /\ cryptoWallet \in [Panels -> CryptoWallets \union {NoWallet}]
  /\ \A p \in Panels : /\ DOMAIN history[p] \subseteq WalletIds
                       /\ \A i \in DOMAIN history[p] : history[p][i] \in HistoryRows
                       /\ allocated[p] \subseteq AddressRows
                       /\ exporting[p] \in Backups \union {NoBackup}
  /\ backups \subseteq Backups /\ born \in 0 .. MaxWallets
  /\ given \in [Indices -> 0 .. 2]
  /\ charge \in [at : Panels, informed : BOOLEAN]

CryptoWalletsInit ==
  /\ cryptoWallet = [p \in Panels |-> NoWallet] /\ history = [p \in Panels |-> <<>>]
  /\ allocated = [p \in Panels |-> {}]
  /\ exporting = [p \in Panels |-> NoBackup] /\ backups = {} /\ born = 0
  /\ given = [i \in Indices |-> 0] /\ charge = [at |-> Origin, informed |-> TRUE]
-----------------------------------------------------------------------------
WalletAt(p) == cryptoWallet[p].id > 0
Greater(a, b) == IF a > b THEN a ELSE b

(* cryptoWalletHighWater, and what a panel shows its administrator.        *)
HighWater(p) == Max({0} \union {history[p][i].next : i \in DOMAIN history[p]})
Shown(p) == IF WalletAt(p) THEN cryptoWallet[p].next ELSE HighWater(p)
NothingNewer(p, n) == \A q \in Panels \ {p} : Shown(q) <= n

RowsOf(p, id) == {r \in allocated[p] : r.wallet = id}
Put(f, i, v) == [j \in DOMAIN f \union {i} |-> IF j = i THEN v ELSE f[j]]

(* One transaction, once for an operation id and at the revision shown.    *)
WalletBecomes(p, w) == cryptoWallet' = [cryptoWallet EXCEPT ![p] = w]

InsertWallet(p, w) ==
  /\ history' = [history EXCEPT ![p] = Put(@, w.id, [next |-> w.next, deleted |-> FALSE])]
  /\ WalletBecomes(p, [w EXCEPT !.reserved = w.next])
-----------------------------------------------------------------------------
(* An index used elsewhere is not known here: a branch that another panel  *)
(* has had is declared an import.                                          *)
CreateWallet ==
  \E p \in Panels, hot \in BOOLEAN, import \in BOOLEAN, networks \in SUBSET Networks \ {{}} :
    LET seen == DOMAIN history[p] # {}
        paused == import \/ seen
    IN /\ born < MaxWallets /\ ~WalletAt(p) /\ (hot \/ "solana" \notin networks)
       /\ import \/ (p = charge.at /\ \A q \in Panels \ {p} : DOMAIN history[q] = {})
       /\ born' = born + 1
       /\ InsertWallet(p, [NoWallet EXCEPT
            !.id = born + 1, !.hot = hot, !.enabled = ~paused, !.recovery = paused,
            !.networks = networks, !.next = HighWater(p), !.confirmed = ~hot])
       /\ UNCHANGED <<allocated, exporting, backups, given, charge>>

(* The next address, on a network the wallet has: by hand or for an        *)
(* invoice.  The last index is the funding address.                        *)
Ready(w) == /\ w.enabled /\ ~w.recovery /\ w.confirmed /\ w.next < IndexLimit - 1
AllocateAddress ==
  \E p \in Panels, network \in Networks :
    LET w == cryptoWallet[p]
    IN /\ Ready(w) /\ network \in w.networks
       /\ allocated' = [allocated EXCEPT ![p] = @ \union
            {[wallet |-> w.id, index |-> w.next, network |-> network]}]
       /\ WalletBecomes(p, [w EXCEPT !.next = @ + 1])
       /\ given' = [given EXCEPT ![w.next] = @ + 1]
       /\ UNCHANGED <<history, exporting, backups, born, charge>>

(* An administrator allows it where the branch is in charge and informed.  *)
SwitchWallet ==
  \E p \in Panels, on \in BOOLEAN, networks \in SUBSET Networks :
    LET w == cryptoWallet[p]
    IN /\ WalletAt(p) /\ (on => ~w.recovery /\ charge = [at |-> p, informed |-> TRUE])
       /\ networks = {} \/ w.networks \subseteq networks
       /\ (w.hot \/ "solana" \notin networks)
       /\ WalletBecomes(p, [w EXCEPT !.enabled = on, !.networks = @ \union networks])
       /\ UNCHANGED <<history, allocated, exporting, backups, born, given, charge>>

ConfirmBackup ==
  \E p \in Panels :
    /\ WalletAt(p) /\ (cryptoWallet[p].hot => cryptoWallet[p].exported)
    /\ WalletBecomes(p, [cryptoWallet[p] EXCEPT !.confirmed = TRUE])
    /\ UNCHANGED <<history, allocated, exporting, backups, born, given, charge>>

(* The administrator gives the next index of the panel that was in charge. *)
AcknowledgeRecovery ==
  \E p \in Panels, n \in 0 .. IndexLimit :
    LET w == cryptoWallet[p]
    IN /\ WalletAt(p) /\ w.recovery /\ p = charge.at
       /\ n >= w.next /\ n <= Greater(w.next, Max({Shown(q) : q \in Panels})) + MaxSkipped
       /\ charge.informed \/ NothingNewer(p, n)
       /\ WalletBecomes(p, [w EXCEPT !.next = n, !.reserved = @ + n - w.next,
                                     !.recovery = FALSE, !.enabled = FALSE])
       /\ charge' = [charge EXCEPT !.informed = TRUE]
       /\ UNCHANGED <<history, allocated, exporting, backups, born, given>>
-----------------------------------------------------------------------------
(* An export reads the wallet in one transaction, and in another records   *)
(* it and answers, when the wallet may have changed or gone.               *)
ReadBackup ==
  \E p \in Panels :
    LET w == cryptoWallet[p]
    IN /\ WalletAt(p) /\ exporting[p] = NoBackup
       /\ exporting' = [exporting EXCEPT ![p] =
            [id |-> w.id, hot |-> w.hot, next |-> w.next, networks |-> w.networks,
             rows |-> RowsOf(p, w.id)]]
       /\ UNCHANGED <<cryptoWallet, history, allocated, backups, born, given, charge>>

(* The file arrives or is lost with the answer.                            *)
MarkBackup ==
  \E p \in Panels, arrives \in BOOLEAN :
    LET b == exporting[p]
    IN /\ b # NoBackup
       /\ arrives => Cardinality(backups \union {b}) <= MaxBackups
       /\ cryptoWallet' = [cryptoWallet EXCEPT ![p].exported = @ \/ cryptoWallet[p].id = b.id]
       /\ backups' = IF arrives THEN backups \union {b} ELSE backups
       /\ exporting' = [exporting EXCEPT ![p] = NoBackup]
       /\ UNCHANGED <<history, allocated, born, given, charge>>

(* The rows of a backup, under the wallet it is restored to: those it has  *)
(* must be the same, and an address belongs to one row of a panel.         *)
Adopted(b, id) == {[r EXCEPT !.wallet = id] : r \in b.rows}
Acceptable(p, b, id) ==
  \A r \in Adopted(b, id) : \/ r \in allocated[p]
                            \/ \A x \in allocated[p] : /\ x.index = r.index => x.network # r.network
                                                       /\ x.index = r.index => x.wallet # id
Restored(p, w, b) ==
  LET rows == allocated[p] \union Adopted(b, w.id)
  IN /\ Acceptable(p, b, w.id)
     /\ allocated' = [allocated EXCEPT ![p] = rows]
     /\ WalletBecomes(p, [w EXCEPT
          !.reserved = w.next - Cardinality({r \in rows : r.wallet = w.id})])

(* The newest backup of a panel that stopped informs the one in charge.    *)
Informs(p, b) ==
  charge' = [charge EXCEPT !.informed = @ \/ (p = charge.at /\ NothingNewer(p, b.next))]

(* A mutant for PROJECT.json: the index of a backup is forgotten.          *)
RaisedNever(w, b) == [w EXCEPT !.confirmed = TRUE]

(* A wallet that is there keeps what it has given since the backup.        *)
RaisedIndex(w, b) == [w EXCEPT !.next = Greater(@, b.next), !.confirmed = TRUE]

RestoreOver ==
  \E p \in Panels, b \in backups :
    LET w == cryptoWallet[p]
        deleted == b.id \in DOMAIN history[p] /\ history[p][b.id].deleted
    IN /\ WalletAt(p) /\ ~deleted /\ b.hot = w.hot /\ exporting[p] = NoBackup
       /\ Restored(p, RaisedIndex(w, b), b)
       /\ Informs(p, b)
       /\ UNCHANGED <<history, exporting, backups, born, given>>

RestoreAnew ==
  \E p \in Panels, b \in backups :
    LET next == Greater(b.next, HighWater(p))
        w == [NoWallet EXCEPT !.id = b.id, !.hot = b.hot, !.networks = b.networks, !.next = next,
                              !.exported = TRUE, !.confirmed = TRUE, !.recovery = TRUE]
    IN /\ ~WalletAt(p) /\ b.id \notin DOMAIN history[p] /\ exporting[p] = NoBackup
       /\ Restored(p, w, b)
       /\ history' = [history EXCEPT ![p] = Put(@, b.id, [next |-> next, deleted |-> FALSE])]
       /\ Informs(p, b)
       /\ UNCHANGED <<exporting, backups, born, given>>
-----------------------------------------------------------------------------
(* A mutant for PROJECT.json: the history keeps what it had at the start.  *)
BuriedAsBorn(h, w) == [h EXCEPT !.deleted = TRUE]

(* What the history keeps of a deleted wallet.                             *)
Buried(h, w) == [next |-> Greater(h.next, w.next), deleted |-> TRUE]

DeleteWallet ==
  \E p \in Panels :
    LET w == cryptoWallet[p]
    IN /\ WalletAt(p)
       /\ history' = [history EXCEPT ![p][w.id] = Buried(@, w)]
       /\ WalletBecomes(p, NoWallet)
       /\ UNCHANGED <<allocated, exporting, backups, born, given, charge>>

(* What the manual asks for before another panel gives addresses: the old  *)
(* one is paused and the numbers of both are compared.                     *)
TakeOver ==
  \E q \in Panels \ {charge.at} :
    /\ ~cryptoWallet[charge.at].enabled
    /\ charge' = [at |-> q, informed |-> NothingNewer(q, Shown(q))]
    /\ UNCHANGED <<cryptoWallet, history, allocated, exporting, backups, born, given>>

CryptoWalletsNext ==
  \/ CreateWallet \/ AllocateAddress \/ SwitchWallet \/ ConfirmBackup
  \/ AcknowledgeRecovery \/ ReadBackup \/ MarkBackup
  \/ RestoreOver \/ RestoreAnew \/ DeleteWallet \/ TakeOver

CryptoWalletsSpec == CryptoWalletsInit /\ [][CryptoWalletsNext]_WalletVars
-----------------------------------------------------------------------------
(* No index of a branch goes to two customers, over deletions, imports,    *)
(* backups of any age and changes of panel, if one panel at a time gives   *)
(* addresses as the manual asks.                                           *)
IndexGivenOnce == \A i \in DOMAIN given : given[i] <= 1

(* The full check before a backup of the panel: all the rows of a branch,  *)
(* whichever wallet they came from, are distinct and under the next index; *)
(* reserved indices and rows add up; a wallet is not one deleted.          *)
WalletsIntact ==
  \A p \in DOMAIN cryptoWallet :
    LET w == cryptoWallet[p]
    IN /\ \A r, s \in allocated[p] : r.index = s.index => r = s
       /\ \A r \in allocated[p] : r.index < Shown(p)
       /\ WalletAt(p) => /\ w.id \in DOMAIN history[p] /\ ~history[p][w.id].deleted
                        /\ w.next = w.reserved + Cardinality(RowsOf(p, w.id))
=============================================================================
