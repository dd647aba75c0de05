------------------------------- MODULE Outbox -------------------------------
(* Mail that waits to be sent (email_delivery.go): events of orders are    *)
(* turned into rows, rows are claimed with a lease, handed to the SMTP     *)
(* server outside any transaction, and marked.  The worker dies at any     *)
(* moment; two work at once while a panel that lost its controller lease   *)
(* has not noticed.  One member; of the links mailed by Accounts only that *)
(* they expire.  Texts, templates, sealing and rate limits are left out,   *)
(* as are the owner's switches (a worker that finds mail or notices off    *)
(* does nothing); leases, back-off and expiry lapse at any time instead of *)
(* by the clock, and a worker takes any row that is due, not the oldest.   *)
EXTENDS Integers

CONSTANTS Mails,        \* each a notice of an order, or a letter with a link
          Inboxes,      \* addresses the member can bind
          MailWorkers,
          MaxTries,     \* attempts before a row fails (5)
          MaxRounds     \* bound: times the owner has a row tried again

ASSUME OutboxAssumption == MaxTries \in Nat \ {0} /\ MaxRounds \in Nat

VARIABLES notices,  \* the mails that are notices; the others are letters
          bound,    \* the member's row in email_accounts
          usable,   \* eligibleEmailUser
          sale,     \* commerce_events with email_event_receipts
          outbox,   \* email_outbox
          mailer,   \* the workers
          handed    \* history: what the SMTP server accepted of each mail

OutboxVars == <<notices, bound, usable, sale, outbox, mailer, handed>>
MemberVars == <<notices, bound, usable>>
-----------------------------------------------------------------------------
NoInbox == "no inbox"
NoWorker == "no worker"
NoRow == <<>>
Receivers == Inboxes \union {NoInbox}

(* settled: the binding is no later than the event (verified_at<=created,  *)
(* seconds not told apart).  owner: the address bound when it happened,    *)
(* which the row does not hold.                                            *)
SaleRows == [state : {"none", "open", "skipped", "queued"}, settled : BOOLEAN,
             owner : Receivers]
(* due: next_attempt has passed.  lapsed: lease_until has.  over: expires. *)
MailRows == [state : {"pending", "sending", "retry", "sent", "failed", "expired",
                      "cancelled"},
             tries : 0..MaxTries, round : 0..MaxRounds, due : BOOLEAN,
             holder : MailWorkers \union {NoWorker}, lapsed : BOOLEAN,
             over : BOOLEAN, to : Receivers]
AtRest == [at |-> "rest"]
Mailers == {AtRest} \union [at : {"capture"}, list : SUBSET Mails]
           \union [at : {"claimed", "sending", "accepted", "refused"}, mail : Mails,
                   checked : Receivers]

(* The type invariant of Outbox.                                           *)
OutboxTypeOK ==
  /\ notices \subseteq Mails /\ usable \in BOOLEAN
  /\ bound \in Receivers
  /\ sale \in [Mails -> SaleRows]
  /\ outbox \in [Mails -> MailRows \union {NoRow}]
  /\ mailer \in [MailWorkers -> Mailers]
  /\ handed \in [Mails -> SUBSET [to : Receivers, checked : Receivers]]

OutboxInit ==
  /\ notices \in SUBSET Mails /\ usable = TRUE
  /\ bound \in Receivers
  /\ sale = [m \in Mails |-> [state |-> "none", settled |-> TRUE, owner |-> NoInbox]]
  /\ outbox = [m \in Mails |-> NoRow]
  /\ mailer = [w \in MailWorkers |-> AtRest]
  /\ handed = [m \in Mails |-> {}]
-----------------------------------------------------------------------------
(* insertEmail.                                                            *)
NewMail(x) ==
  [state |-> "pending", tries |-> 0, round |-> 0, due |-> TRUE, holder |-> NoWorker,
   lapsed |-> FALSE, over |-> FALSE, to |-> x]

(* verifyEmailToken and unbinding: the row is new, or gone.                *)
Rebind(x) ==
  /\ bound' = x
  /\ sale' = [m \in Mails |-> [sale[m] EXCEPT !.settled = (sale[m].state = "none")]]
  /\ UNCHANGED <<notices, usable, outbox, mailer, handed>>

(* The member is disabled, archived, or enabled again.                     *)
ChangeMember ==
  /\ usable' = ~usable
  /\ UNCHANGED <<notices, bound, sale, outbox, mailer, handed>>

(* commerceEvent, for an order that is completed or refunded.              *)
SaleHappens(s) ==
  /\ s \in notices /\ sale[s].state = "none"
  /\ sale' = [sale EXCEPT ![s].state = "open", ![s].owner = bound]
  /\ UNCHANGED <<MemberVars, outbox, mailer, handed>>

(* issueEmailToken.                                                        *)
WriteLetter(l) ==
  /\ l \notin notices /\ outbox[l] = NoRow
  /\ outbox' = [outbox EXCEPT ![l] = NewMail(NoInbox)]
  /\ UNCHANGED <<MemberVars, sale, mailer, handed>>

(* retryEmail.                                                             *)
RetriedRow(r) ==
  [r EXCEPT !.state = "pending", !.tries = 0, !.due = TRUE, !.round = r.round + 1,
            !.holder = NoWorker, !.lapsed = FALSE]

RetryMail(m) ==
  /\ outbox[m] # NoRow
  /\ outbox[m].state \in {"failed", "retry"} /\ ~outbox[m].over
  /\ outbox[m].round < MaxRounds
  /\ outbox' = [outbox EXCEPT ![m] = RetriedRow(@)]
  /\ UNCHANGED <<MemberVars, sale, mailer, handed>>
-----------------------------------------------------------------------------
(* Time.                                                                   *)
LapseOf(m, row) ==
  /\ outbox' = [outbox EXCEPT ![m] = row]
  /\ UNCHANGED <<MemberVars, sale, mailer, handed>>

LeaseLapses(m) ==
  /\ outbox[m] # NoRow /\ outbox[m].state = "sending" /\ ~outbox[m].lapsed
  /\ LapseOf(m, [outbox[m] EXCEPT !.lapsed = TRUE])

MailFallsDue(m) ==
  /\ outbox[m] # NoRow /\ outbox[m].state = "retry" /\ ~outbox[m].due
  /\ LapseOf(m, [outbox[m] EXCEPT !.due = TRUE])

LetterExpires(l) ==
  /\ l \notin notices /\ outbox[l] # NoRow /\ ~outbox[l].over
  /\ LapseOf(l, [outbox[l] EXCEPT !.over = TRUE])
-----------------------------------------------------------------------------
(* captureEmailEvents: the events without a receipt are listed, then each  *)
(* has its transaction.                                                    *)
ListSales(w) ==
  LET list == {s \in notices : sale[s].state = "open"}
  IN /\ mailer[w] = AtRest /\ list # {}
     /\ mailer' = [mailer EXCEPT ![w] = [at |-> "capture", list |-> list]]
     /\ UNCHANGED <<MemberVars, sale, outbox, handed>>

(* Mutant: a notice goes to the address bound when the event is captured.  *)
BoundInbox(s) == bound
EntitledInbox(s) == IF sale[s].settled THEN bound ELSE NoInbox

(* Of what another worker has booked, nothing is changed (ON CONFLICT).    *)
CaptureSale(w, s) ==
  LET to == EntitledInbox(s)
      rest == mailer[w].list \ {s}
  IN /\ mailer[w].at = "capture" /\ s \in mailer[w].list
     /\ outbox' = IF to # NoInbox /\ outbox[s] = NoRow
                  THEN [outbox EXCEPT ![s] = NewMail(to)] ELSE outbox
     /\ sale' = IF sale[s].state # "open" THEN sale
                ELSE [sale EXCEPT ![s].state = IF to = NoInbox THEN "skipped" ELSE "queued"]
     /\ mailer' = [mailer EXCEPT ![w] = IF rest = {} THEN AtRest
                                        ELSE [at |-> "capture", list |-> rest]]
     /\ UNCHANGED <<MemberVars, handed>>
-----------------------------------------------------------------------------
(* processEmail.                                                           *)
Unheld(r) == r.holder = NoWorker \/ r.lapsed
ClosedAs(r, state) == [r EXCEPT !.state = state, !.holder = NoWorker, !.lapsed = FALSE]

(* The two statements every call begins with.                              *)
TidiedRow(r) ==
  IF r.state \in {"pending", "retry", "sending"} /\ r.over /\ Unheld(r)
  THEN ClosedAs(r, "expired")
  ELSE IF r.state = "sending" /\ Unheld(r) /\ r.tries >= MaxTries
  THEN ClosedAs(r, "failed")
  ELSE r
Tidied == [m \in Mails |-> IF outbox[m] = NoRow THEN NoRow ELSE TidiedRow(outbox[m])]

IsDue(r) ==
  /\ r # NoRow
  /\ r.tries < MaxTries
  /\ \/ r.state \in {"pending", "retry"} /\ r.due
     \/ r.state = "sending" /\ r.lapsed

FindsNoMail(w) ==
  /\ mailer[w] = AtRest
  /\ \A m \in Mails : ~IsDue(Tidied[m])
  /\ outbox' = Tidied
  /\ UNCHANGED <<MemberVars, sale, mailer, handed>>

ClaimedRow(r, w) ==
  [r EXCEPT !.state = "sending", !.tries = r.tries + 1, !.holder = w, !.lapsed = FALSE]

ClaimMail(w, m) ==
  /\ mailer[w] = AtRest
  /\ IsDue(Tidied[m])
  /\ outbox' = [Tidied EXCEPT ![m] = ClaimedRow(@, w)]
  /\ mailer' = [mailer EXCEPT ![w] = [at |-> "claimed", mail |-> m, checked |-> NoInbox]]
  /\ UNCHANGED <<MemberVars, sale, handed>>

HoldsLease(w) == outbox[mailer[w].mail].holder = w

(* A notice of an order goes to nobody but the member it is about.         *)
MayReceive(m) == m \in notices => bound = outbox[m].to /\ usable

ReadClaimed(w) ==
  LET m == mailer[w].mail
  IN /\ mailer[w].at = "claimed"
     /\ IF HoldsLease(w) /\ MayReceive(m)
        THEN /\ mailer' = [mailer EXCEPT ![w] = [at |-> "sending", mail |-> m,
                                  checked |-> IF m \in notices THEN bound ELSE NoInbox]]
             /\ UNCHANGED outbox
        ELSE /\ mailer' = [mailer EXCEPT ![w] = AtRest]
             /\ outbox' = IF HoldsLease(w)
                          THEN [outbox EXCEPT ![m] = ClosedAs(@, "cancelled")] ELSE outbox
     /\ UNCHANGED <<MemberVars, sale, handed>>

(* sendSMTP: refused, accepted, or accepted and the answer is lost.        *)
HandOver(w, accepted, answered) ==
  LET m == mailer[w].mail
  IN /\ mailer[w].at = "sending" /\ (answered => accepted)
     /\ handed' = IF accepted
                  THEN [handed EXCEPT ![m] = @ \union {[to |-> outbox[m].to,
                                                        checked |-> mailer[w].checked]}]
                  ELSE handed
     /\ mailer' = [mailer EXCEPT ![w].at = IF answered THEN "accepted" ELSE "refused"]
     /\ UNCHANGED <<MemberVars, sale, outbox>>

AfterFailure(r) ==
  IF r.tries >= MaxTries THEN ClosedAs(r, "failed")
  ELSE [ClosedAs(r, "retry") EXCEPT !.due = FALSE]

MarkMail(w) ==
  LET m == mailer[w].mail
  IN /\ mailer[w].at \in {"accepted", "refused"}
     /\ outbox' = IF ~HoldsLease(w) THEN outbox
                  ELSE [outbox EXCEPT ![m] = IF mailer[w].at = "accepted"
                                             THEN ClosedAs(@, "sent") ELSE AfterFailure(@)]
     /\ mailer' = [mailer EXCEPT ![w] = AtRest]
     /\ UNCHANGED <<MemberVars, sale, handed>>

(* A crash, or a statement that fails.                                     *)
MailerDies(w) ==
  /\ mailer[w] # AtRest
  /\ mailer' = [mailer EXCEPT ![w] = AtRest]
  /\ UNCHANGED <<MemberVars, sale, outbox, handed>>

OutboxNext ==
  \/ \E x \in Receivers : Rebind(x)
  \/ ChangeMember
  \/ \E m \in Mails :
       \/ SaleHappens(m) \/ WriteLetter(m) \/ RetryMail(m)
       \/ LetterExpires(m) \/ LeaseLapses(m) \/ MailFallsDue(m)
  \/ \E w \in MailWorkers :
       \/ ListSales(w) \/ \E s \in notices : CaptureSale(w, s)
       \/ FindsNoMail(w) \/ \E m \in Mails : ClaimMail(w, m)
       \/ ReadClaimed(w) \/ MarkMail(w) \/ MailerDies(w)
       \/ \E accepted, answered \in BOOLEAN : HandOver(w, accepted, answered)

OutboxSpec == OutboxInit /\ [][OutboxNext]_OutboxVars
-----------------------------------------------------------------------------
(* docs/EMAIL.md: a notice of an order goes to the address the member had  *)
(* bound when it happened, and only while the member still has it when the *)
(* mail is taken up; a mail marked sent was accepted by the SMTP server.   *)
(* That holds over changes of address, lost leases, late workers, crashes  *)
(* and the owner's retries.                                                *)
MailsReachTheirOwner ==
  /\ \A s \in notices : \A h \in handed[s] : h.to = sale[s].owner /\ h.to = h.checked
  /\ \A m \in DOMAIN outbox :
       outbox[m] # NoRow /\ outbox[m].state = "sent" => handed[m] # {}
=============================================================================
