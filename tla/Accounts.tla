------------------------------- MODULE Accounts -------------------------------
(* Members' rows, passwords, mailboxes, sessions and the links sent by     *)
(* mail.  A request reads first and writes in a transaction later; the     *)
(* handlers that save a whole record hold a.mu, the ones for mail do not.  *)
(* Rate limits, the puzzle, delivery and the plan of a new member are left *)
(* out; who has the mail has its link at once.                             *)
EXTENDS Integers

CONSTANTS Members, Mailboxes, Links, Visitors,  \* users, addresses, email_tokens, requests
          MaxPasswords, MaxRequests,    \* bounds: hashes of a member, requests
          EmailRequired                 \* RegistrationVerification

NoMail == "no mail"
NoMember == "no member"

ASSUME AccountsAssumption ==
  /\ {MaxPasswords, MaxRequests} \subseteq Nat \ {0}
  /\ EmailRequired \in BOOLEAN
  /\ NoMember \notin Members /\ NoMail \notin Mailboxes

VARIABLES account,      \* users and email_accounts
          hashes,       \* how many password hashes a member has had
          sessions,     \* the hash each session was opened with
          emailTokens,  \* email_tokens
          asked,        \* what each request has read
          asking,       \* how many requests have read
          writer        \* the holder of a.mu and the record it will save

AccountVars == <<account, hashes, sessions, emailTokens, asked, asking, writer>>
-----------------------------------------------------------------------------
Passwords == 0 .. MaxPasswords
NoLink == "no link"
Member(password, enabled, mailbox) ==
  [row |-> "kept", password |-> password, enabled |-> enabled, mailbox |-> mailbox]
NoAccount == [row |-> "none", password |-> 0, enabled |-> FALSE, mailbox |-> NoMail]
AccountRows == [row : {"none", "kept", "archived", "deleted"}, password : Passwords,
              enabled : BOOLEAN, mailbox : Mailboxes \union {NoMail}]
FreeLink == [purpose |-> "none", member |-> NoMember, mailbox |-> NoMail, password |-> 0,
             fate |-> "free", stale |-> FALSE]
LinkRows == [purpose : {"none", "bind", "reset", "registration", "proof"},
             member : Members \union {NoMember}, mailbox : Mailboxes \union {NoMail},
             password : Passwords, fate : {"free", "live", "expired", "used", "void"},
             stale : BOOLEAN]
NotAsking == [does |-> "nothing", member |-> NoMember, mailbox |-> NoMail, password |-> 0,
              link |-> NoLink]
Askings == [does : {"nothing", "bind", "reset", "registration", "verify", "confirm",
                    "unbind", "login", "change"},
            member : Members \union {NoMember}, mailbox : Mailboxes \union {NoMail},
            password : Passwords, link : Links \union {NoLink}]
NoWriter == [member |-> NoMember, password |-> 0, enabled |-> FALSE, renews |-> FALSE]
Writers == [member : Members \union {NoMember}, password : Passwords, enabled : BOOLEAN,
            renews : BOOLEAN]

(* The type invariant of Accounts.                                         *)
AccountsTypeOK ==
  /\ account \in [Members -> AccountRows] /\ hashes \in [Members -> Passwords]
  /\ sessions \in [Members -> SUBSET Passwords]
  /\ emailTokens \in [Links -> LinkRows] /\ asked \in [Visitors -> Askings]
  /\ asking \in 0 .. MaxRequests /\ writer \in Writers

AccountsInit ==
  /\ \E old \in SUBSET Members : \E mailbox \in [old -> Mailboxes \union {NoMail}] :
       /\ \A u, w \in old : u # w /\ mailbox[u] # NoMail => mailbox[u] # mailbox[w]
       /\ account = [u \in Members |-> IF u \in old THEN Member(1, TRUE, mailbox[u])
                                      ELSE NoAccount]
       /\ hashes = [u \in Members |-> IF u \in old THEN 1 ELSE 0]
  /\ sessions = [u \in Members |-> {}] /\ emailTokens = [t \in Links |-> FreeLink]
  /\ asked = [v \in Visitors |-> NotAsking] /\ asking = 0 /\ writer = NoWriter
-----------------------------------------------------------------------------
(* What the handlers look at.                                              *)
Eligible(u) == account[u].row = "kept" /\ account[u].enabled
InSession(u) == sessions[u] # {} /\ account[u].enabled
PasswordGiven(u) == InSession(u) /\ Eligible(u)
Live(t) == emailTokens[t].fate = "live"
Bound(m) == \E u \in Members : account[u].mailbox = m
NextHash(u) == hashes[u] + 1
Takes(u) == /\ NextHash(u) <= MaxPasswords
            /\ hashes' = [hashes EXCEPT ![u] = NextHash(u)]
Asks(v, request) == /\ asked[v] = NotAsking /\ asked' = [asked EXCEPT ![v] = request]
                    /\ asking < MaxRequests /\ asking' = asking + 1
Done(v) == asked' = [asked EXCEPT ![v] = NotAsking] /\ UNCHANGED asking
NoRequest == UNCHANGED <<asked, asking>>

(* The statements of the transactions: a credential row is changed only    *)
(* while its hash is the one that was read.                                *)
(* Mutant: the update does not compare the hash.                           *)
UnchangedUnseen(v) == TRUE
Unchanged(v) == account[asked[v].member].password = asked[v].password
StillBound(v) == account[asked[v].member].mailbox = asked[v].mailbox
Consume(rows, u, purposes) ==
  [t \in Links |-> IF rows[t].fate = "live" /\ rows[t].member = u /\ rows[t].purpose \in purposes
                   THEN [rows[t] EXCEPT !.fate = "void"] ELSE rows[t]]
Spent(t) == [emailTokens EXCEPT ![t].fate = "used"]
Outdate(u) == [t \in Links |-> IF Live(t) /\ emailTokens[t].member = u
                                 THEN [emailTokens[t] EXCEPT !.stale = TRUE]
                                 ELSE emailTokens[t]]
-----------------------------------------------------------------------------
(* Links asked for and sent.                                               *)
AsksLink(v, m) ==
  /\ \/ /\ ~Bound(m)
        /\ Asks(v, [NotAsking EXCEPT !.does = "registration", !.mailbox = m])
     \/ \E u \in Members :
          /\ account[u].mailbox = m /\ Eligible(u)
          /\ Asks(v, [NotAsking EXCEPT !.does = "reset", !.member = u, !.mailbox = m,
                                       !.password = account[u].password])
  /\ UNCHANGED <<account, hashes, sessions, emailTokens, writer>>

AsksToBind(v, u, m) ==
  /\ PasswordGiven(u)
  /\ Asks(v, [NotAsking EXCEPT !.does = "bind", !.member = u, !.mailbox = m,
                               !.password = account[u].password])
  /\ UNCHANGED <<account, hashes, sessions, emailTokens, writer>>

(* A reset link for a mailbox the member has left meanwhile is stale from  *)
(* the start.                                                              *)
Issues(v, t) ==
  LET r == asked[v]
  IN  /\ r.does \in {"registration", "reset", "bind"} /\ emailTokens[t] = FreeLink
      /\ emailTokens' = [emailTokens EXCEPT ![t] =
           [purpose |-> r.does, member |-> r.member, mailbox |-> r.mailbox,
            password |-> r.password, fate |-> "live",
            stale |-> r.does = "reset" /\ account[r.member].mailbox # r.mailbox]]
      /\ Done(v) /\ UNCHANGED <<account, hashes, sessions, writer>>

Expires(t) == /\ Live(t)
              /\ emailTokens' = [emailTokens EXCEPT ![t].fate = "expired"]
              /\ NoRequest /\ UNCHANGED <<account, hashes, sessions, writer>>
-----------------------------------------------------------------------------
(* Links confirmed.                                                        *)
VerifyReads(v, t) ==
  LET k == emailTokens[t]
  IN  /\ Live(t) /\ k.purpose \in {"bind", "registration"}
      /\ k.purpose = "bind" => Eligible(k.member) /\ account[k.member].password = k.password
      /\ Asks(v, [does |-> "verify", member |-> k.member, mailbox |-> k.mailbox,
                  password |-> k.password, link |-> t])
      /\ UNCHANGED <<account, hashes, sessions, emailTokens, writer>>

Verifies(v) ==
  LET r == asked[v]  t == r.link
  IN  /\ r.does = "verify" /\ Live(t)
      /\ \/ /\ r.member = NoMember
            /\ \E p \in Links :
                 /\ emailTokens[p] = FreeLink
                 /\ emailTokens' = [Spent(t) EXCEPT ![p] =
                      [FreeLink EXCEPT !.purpose = "proof", !.mailbox = r.mailbox,
                                       !.fate = "live"]]
            /\ UNCHANGED account
         \/ /\ r.member # NoMember /\ Unchanged(v)
            /\ \A u \in Members \ {r.member} : account[u].mailbox # r.mailbox
            /\ account' = [account EXCEPT ![r.member].mailbox = r.mailbox]
            /\ emailTokens' = Consume(Spent(t), r.member, {"bind", "reset"})
      /\ Done(v) /\ UNCHANGED <<hashes, sessions, writer>>

ResetReads(v, t) ==
  LET k == emailTokens[t]
  IN  /\ Live(t) /\ k.purpose = "reset"
      /\ Eligible(k.member) /\ account[k.member].password = k.password
      /\ Asks(v, [does |-> "confirm", member |-> k.member, mailbox |-> k.mailbox,
                  password |-> k.password, link |-> t])
      /\ UNCHANGED <<account, hashes, sessions, emailTokens, writer>>

Resets(v) ==
  LET r == asked[v]
  IN  /\ r.does = "confirm" /\ Live(r.link) /\ Unchanged(v) /\ StillBound(v)
      /\ Takes(r.member)
      /\ account' = [account EXCEPT ![r.member].password = NextHash(r.member)]
      /\ sessions' = [sessions EXCEPT ![r.member] = {}]
      /\ emailTokens' = Consume(Spent(r.link), r.member, {"bind", "reset"})
      /\ Done(v) /\ UNCHANGED writer

UnbindReads(v, u) ==
  /\ PasswordGiven(u)
  /\ Asks(v, [NotAsking EXCEPT !.does = "unbind", !.member = u,
                               !.password = account[u].password])
  /\ UNCHANGED <<account, hashes, sessions, emailTokens, writer>>

Unbinds(v) ==
  LET u == asked[v].member
  IN  /\ asked[v].does = "unbind" /\ Unchanged(v)
      /\ account' = [account EXCEPT ![u].mailbox = NoMail]
      /\ emailTokens' = Consume(emailTokens, u, {"bind", "reset"})
      /\ Done(v) /\ UNCHANGED <<hashes, sessions, writer>>

(* A transaction whose condition fails is rolled back, and the link is not *)
(* consumed.                                                               *)
TurnedDown(v) ==
  LET r == asked[v]
  IN  /\ \/ r.does \in {"verify", "confirm"} /\ ~Live(r.link)
         \/ r.does \in {"verify", "confirm", "unbind"} /\ r.member # NoMember /\ ~Unchanged(v)
         \/ r.does = "confirm" /\ ~StillBound(v)
         \/ r.does = "verify" /\ \E u \in Members \ {r.member} : account[u].mailbox = r.mailbox
      /\ Done(v) /\ UNCHANGED <<account, hashes, sessions, emailTokens, writer>>
-----------------------------------------------------------------------------
(* Sessions and passwords.                                                 *)
LoginReads(v, u) ==
  /\ Eligible(u)
  /\ Asks(v, [NotAsking EXCEPT !.does = "login", !.member = u,
                               !.password = account[u].password])
  /\ UNCHANGED <<account, hashes, sessions, emailTokens, writer>>

Logins(v) ==
  LET r == asked[v]
  IN  /\ r.does = "login"
      /\ sessions' = IF account[r.member].row = "deleted" THEN sessions
                     ELSE [sessions EXCEPT ![r.member] = @ \union {r.password}]
      /\ Done(v) /\ UNCHANGED <<account, hashes, emailTokens, writer>>

ChangeReads(v, u) ==
  /\ InSession(u)
  /\ Asks(v, [NotAsking EXCEPT !.does = "change", !.member = u])
  /\ UNCHANGED <<account, hashes, sessions, emailTokens, writer>>

TakesRecord(u, password, enabled, renews) ==
  writer' = [member |-> u, password |-> password, enabled |-> enabled, renews |-> renews]

ChangeHolds(v) ==
  LET u == asked[v].member
  IN  /\ asked[v].does = "change" /\ writer = NoWriter
      /\ IF account[u].row = "deleted" THEN UNCHANGED <<hashes, writer>>
         ELSE Takes(u) /\ TakesRecord(u, NextHash(u), account[u].enabled, TRUE)
      /\ Done(v) /\ UNCHANGED <<account, sessions, emailTokens>>

(* An administrator's edit, and every other handler and worker that saves  *)
(* a record it has read under a.mu.  With a new password the sessions go   *)
(* before the record is saved.                                             *)
EditHolds(u) ==
  /\ writer = NoWriter /\ account[u].row = "kept"
  /\ \E enabled \in BOOLEAN :
       \/ /\ TakesRecord(u, account[u].password, enabled, FALSE) /\ UNCHANGED <<hashes, sessions>>
       \/ /\ Takes(u) /\ TakesRecord(u, NextHash(u), enabled, TRUE)
          /\ sessions' = [sessions EXCEPT ![u] = {}]
  /\ NoRequest /\ UNCHANGED <<account, emailTokens>>

(* Store.save writes every column.  password() ends the sessions after it. *)
Saves ==
  LET u == writer.member
  IN  /\ writer # NoWriter
      /\ account' = [account EXCEPT ![u].password = writer.password,
                                    ![u].enabled = writer.enabled]
      /\ IF writer.renews
         THEN sessions' = [sessions EXCEPT ![u] = {}] /\ emailTokens' = Outdate(u)
         ELSE UNCHANGED <<sessions, emailTokens>>
      /\ writer' = NoWriter /\ NoRequest /\ UNCHANGED hashes

SaveFails == /\ writer # NoWriter /\ writer' = NoWriter
             /\ NoRequest /\ UNCHANGED <<account, hashes, sessions, emailTokens>>
-----------------------------------------------------------------------------
(* Accounts made and removed, under a.mu.                                  *)
AddsAccount(u, enabled, m) ==
  /\ writer = NoWriter /\ account[u] = NoAccount
  /\ account' = [account EXCEPT ![u] = Member(1, enabled, m)]
  /\ hashes' = [hashes EXCEPT ![u] = 1] /\ NoRequest /\ UNCHANGED writer

Registers(u) ==
  /\ \/ ~EmailRequired /\ AddsAccount(u, TRUE, NoMail) /\ UNCHANGED emailTokens
     \/ \E t \in Links :
          /\ Live(t) /\ emailTokens[t].purpose = "proof" /\ ~Bound(emailTokens[t].mailbox)
          /\ AddsAccount(u, TRUE, emailTokens[t].mailbox) /\ emailTokens' = Spent(t)
  /\ sessions' = [sessions EXCEPT ![u] = {1}]

Creates(u) == /\ \E enabled \in BOOLEAN : AddsAccount(u, enabled, NoMail)
              /\ UNCHANGED <<sessions, emailTokens>>

Removes(u) ==
  /\ writer = NoWriter /\ account[u].row = "kept"
  /\ \/ account' = [account EXCEPT ![u].row = "archived", ![u].enabled = FALSE]
     \/ account' = [account EXCEPT ![u] = [NoAccount EXCEPT !.row = "deleted"]]
  /\ sessions' = [sessions EXCEPT ![u] = {}]
  /\ NoRequest /\ UNCHANGED <<hashes, emailTokens, writer>>

AccountsNext ==
  \/ \E v \in Visitors :
       \/ \E m \in Mailboxes : AsksLink(v, m) \/ \E u \in Members : AsksToBind(v, u, m)
       \/ \E t \in Links : Issues(v, t) \/ VerifyReads(v, t) \/ ResetReads(v, t)
       \/ \E u \in Members : UnbindReads(v, u) \/ LoginReads(v, u) \/ ChangeReads(v, u)
       \/ Verifies(v) \/ Resets(v) \/ Unbinds(v) \/ TurnedDown(v) \/ Logins(v) \/ ChangeHolds(v)
  \/ \E t \in Links : Expires(t)
  \/ \E u \in Members : EditHolds(u) \/ Registers(u) \/ Creates(u) \/ Removes(u)
  \/ Saves \/ SaveFails

AccountsSpec == AccountsInit /\ [][AccountsNext]_AccountVars
-----------------------------------------------------------------------------
(* docs/EMAIL.md: a password reset ends every pending link, unbinding too, *)
(* and a link confirms only what its member still has.  No link takes      *)
(* effect after the member's password was changed or reset, or the mailbox *)
(* it goes to was left, since it was issued, whichever requests overlap.   *)
SpentLinksWereCurrent ==
  \A t \in DOMAIN emailTokens : emailTokens[t].fate = "used" => ~emailTokens[t].stale
=============================================================================
