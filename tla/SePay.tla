------------------------------- MODULE SePay -------------------------------
(***************************************************************************)
(* Bank transfers that SePay announces by webhook, the payment requests    *)
(* (QR codes) they answer, and the invoices and deposits they pay.         *)
(*                                                                         *)
(* A webhook is handled statement by statement, each its own transaction;  *)
(* a handler is a request in an API process of its own, because inside one *)
(* process a set of running transaction ids keeps the second delivery of a *)
(* transfer out.  An operator may assign a transfer by hand, statement by  *)
(* statement too, and resolve what a transfer paid too much, which is one  *)
(* transaction under a lock (only the payload of the log is read before,   *)
(* and written back).  The bank repeats a webhook as it likes.             *)
(*                                                                         *)
(* Invoices have no credit, no deposit item and no adjustment; what is     *)
(* done with a deposit once it is funded belongs to DepositCore.           *)
(***************************************************************************)
EXTENDS Integers, FiniteSets, FiniteSetsExt

CONSTANTS
    Transfers,  \* transactions of the bank
    Statements, \* what they may look like: [amount, memo, account]
    Codes,      \* payment codes a QR may carry
    Invoices, Deposits,
    Price,      \* the amount of each invoice and deposit
    Repriced,   \* amounts a contract edit may give an open deposit
    Handlers, Operators,
    Keys,       \* idempotency keys of operators
    MaxFaults,  \* statements that may fail
    CanCrash,   \* whether a process may die
    None        \* no code, no transfer, no claim

Sources == Invoices \cup Deposits

ASSUME SePayAssumption ==
    /\ IsFiniteSet(Transfers) /\ IsFiniteSet(Sources) /\ IsFiniteSet(Codes)
    /\ Invoices \cap Deposits = {} /\ Codes \cap Transfers = {}
    /\ Statements \subseteq [amount : Nat \ {0}, memo : Codes \cup {None}, account : BOOLEAN]
    /\ Price \in [Sources -> Nat \ {0}] /\ Repriced \subseteq Nat \ {0}
    /\ MaxFaults \in Nat /\ CanCrash \in BOOLEAN
    /\ None \notin Transfers \cup Codes \cup Sources \cup Keys

VARIABLES
    bank,      \* the transfers as the bank knows them
    log,       \* PaymentWebhookLog by transfer
    request,   \* PaymentRequest by payment code
    source,    \* amount, money received and status of invoices and deposits
    bookings,  \* Payment rows and deposit collections, numbered by transfer
    credits,   \* credit notes and refund tasks, numbered by transfer
    web,       \* webhook handlers
    desk,      \* manual assignments
    faults

ledger == <<source, bookings>>
vars == <<bank, log, request, ledger, credits, web, desk, faults>>

LogStatus == {"ABSENT", "RECEIVED", "PROCESSING", "PROCESSED", "FAILED", "IGNORED",
              "NEEDS_REVIEW"}
Claims == [key : Keys, t : Transfers, source : Sources]
AllCodes == Codes \cup Transfers   \* a request without QR is named after its transfer

RequestRow ==
    [source : Sources, amount : Nat, status : {"PENDING", "CONFIRMED"},
     txn : Transfers \cup {None}, claim : Claims \cup {None},
     resolved : SUBSET Transfers, born : Nat]
LogRow ==
    [status : LogStatus, processed : BOOLEAN, payload : SUBSET {"assigned", "resolved"}]
SourceRow == [amount : Nat, paid : Nat, status : {"OPEN", "PAID", "CLOSED"}]
BookingRow == [t : Transfers, source : Sources, amount : Nat, no : Nat]
CreditRow == [t : Transfers, amount : Nat, kind : {"CREDIT", "REFUND"}, out : BOOLEAN, no : Nat]
WebRow ==
    [pc : {"idle", "claim", "match", "fund", "pay", "confirm", "ignore", "review", "close",
           "fail"},
     t : Transfers \cup {None}, code : AllCodes \cup {None}, sum : Nat]
DeskRow ==
    [pc : {"idle", "select", "link", "book", "confirm", "close", "review", "fail"},
     claim : Claims \cup {None}, code : AllCodes \cup {None}, known : BOOLEAN,
     payload : SUBSET {"assigned", "resolved"}, resolved : SUBSET Transfers]

Free == [pc |-> "idle", t |-> None, code |-> None, sum |-> 0]
Away == [pc |-> "idle", claim |-> None, code |-> None, known |-> FALSE,
         payload |-> {}, resolved |-> {}]

TypeOK ==
    /\ bank \in [Transfers -> Statements]
    /\ log \in [Transfers -> LogRow]
    /\ DOMAIN request \subseteq AllCodes
    /\ \A c \in DOMAIN request : request[c] \in RequestRow
    /\ source \in [Sources -> SourceRow]
    /\ bookings \subseteq BookingRow
    /\ credits \subseteq CreditRow
    /\ web \in [Handlers -> WebRow]
    /\ desk \in [Operators -> DeskRow]
    /\ faults \in 0 .. MaxFaults

Init ==
    /\ bank \in [Transfers -> Statements]
    /\ log = [t \in Transfers |-> [status |-> "ABSENT", processed |-> FALSE, payload |-> {}]]
    /\ request = [c \in {} |-> None]
    /\ source = [s \in Sources |-> [amount |-> Price[s], paid |-> 0, status |-> "OPEN"]]
    /\ bookings = {} /\ credits = {}
    /\ web = [h \in Handlers |-> Free]
    /\ desk = [o \in Operators |-> Away]
    /\ faults = 0

Remaining(s) == Max({0, source[s].amount - source[s].paid})
BookingsOf(t, S) == {b \in bookings : b.t = t /\ b.source \in S}
Booked(t, S) == SumFunction([b \in BookingsOf(t, S) |-> b.amount])
CreditsOf(t) == {c \in credits : c.t = t}
Credited(t) == SumFunction([c \in CreditsOf(t) |-> c.amount])
Fault == faults < MaxFaults /\ faults' = faults + 1

-----------------------------------------------------------------------------
(* Requests, and money that does not come through the webhook. *)

Put(c, r) == request' = [x \in DOMAIN request \cup {c} |-> IF x = c THEN r ELSE request[x]]

Fresh(s, amount, claim) ==
    [source |-> s, amount |-> amount, status |-> "PENDING", txn |-> None,
     claim |-> claim, resolved |-> {}, born |-> Cardinality(DOMAIN request) + 1]

Pending(s) == {c \in DOMAIN request : request[c].source = s /\ request[c].status = "PENDING"}

(* A QR for what is left to pay: the newest pending request of the source  *)
(* is brought up to date, and only without one a new code is drawn.        *)
RequestPayment(s, c) ==
    /\ Remaining(s) > 0
    /\ s \in Deposits => source[s].status # "CLOSED"
    /\ IF Pending(s) = {}
       THEN c \notin DOMAIN request /\ Put(c, Fresh(s, Remaining(s), None))
       ELSE /\ c \in Pending(s)
            /\ \A d \in Pending(s) : request[d].born <= request[c].born
            /\ Put(c, [request[c] EXCEPT !.amount = Remaining(s)])
    /\ UNCHANGED <<bank, log, ledger, credits, web, desk, faults>>

Fund(s, a) ==
    source' = [source EXCEPT ![s].paid = @ + a,
                             ![s].status = IF Remaining(s) = a THEN "PAID" ELSE "OPEN"]

(* Cash at the counter; for a deposit also money moved over from a hold. *)
PayCash(s, a) ==
    /\ source[s].status = "OPEN"
    /\ 0 < a /\ a <= Remaining(s)
    /\ Fund(s, a)
    /\ UNCHANGED <<bank, log, request, bookings, credits, web, desk, faults>>

(* An invoice is cancelled or written off, an unpaid deposit cancelled. *)
CloseSource(s) ==
    /\ source[s].status = "OPEN"
    /\ source' = [source EXCEPT ![s].status = "CLOSED"]
    /\ UNCHANGED <<bank, log, request, bookings, credits, web, desk, faults>>

(* A contract edit sets the amount of a deposit not paid yet. *)
Reprice(d, n) ==
    /\ source[d].status = "OPEN"
    /\ source' = [source EXCEPT ![d].amount = n]
    /\ UNCHANGED <<bank, log, request, bookings, credits, web, desk, faults>>

-----------------------------------------------------------------------------
(* Booking a transfer, shared by webhook and operator. *)

Book(t, s, a) ==
    /\ Fund(s, a)
    /\ bookings' = bookings \cup
         {[t |-> t, source |-> s, amount |-> a, no |-> Cardinality(BookingsOf(t, Sources)) + 1]}

Refused == "fail"

\* Mutant: the provider reference is not looked up.
EarlierPaymentNever(t) == {}

(* The Payment row that carries the provider reference, if there is one. *)
EarlierPayment(t) == BookingsOf(t, Invoices)

\* Mutant: the balance is not read again inside the transaction.
PayableUnchecked(s, a) == source[s].status = "OPEN" /\ 0 < a

Payable(s, a) == source[s].status = "OPEN" /\ 0 < a /\ a <= Remaining(s)

(* invoicesService.pay, under the lock of the provider reference: a new    *)
(* payment, or the one there is if it is the same.                         *)
CanPay(t, s, a) == EarlierPayment(t) = {} /\ Payable(s, a)
PaidBefore(t, s, a) == \E b \in EarlierPayment(t) : b.source = s /\ b.amount = a

(* collect books what the deposit lacks, under one key per transfer. *)
CanCollect(t, d) ==
    BookingsOf(t, Deposits) = {} /\ source[d].status = "OPEN" /\ Remaining(d) > 0

(* The unique index on providerTransactionId. *)
Confirmable(t, c) == \A x \in DOMAIN request \ {c} : request[x].txn # t

ConfirmRequest(t, c) ==
    request' = [request EXCEPT ![c].status = "CONFIRMED", ![c].txn = t]

-----------------------------------------------------------------------------
(* The webhook. *)

Goto(h, place) == web' = [web EXCEPT ![h].pc = place]
Leave(h) == web' = [web EXCEPT ![h] = Free]
Row(t, status) == log' = [log EXCEPT ![t].status = status]

(* The row is created, or its payload replaced by the one just received;   *)
(* a processed row is answered at once.                                    *)
Receive(h, t) ==
    /\ web[h].pc = "idle"
    /\ log' = [log EXCEPT ![t].payload = {},
                          ![t].status = IF @ = "ABSENT" THEN "RECEIVED" ELSE @]
    /\ ~log[t].processed
    /\ web' = [web EXCEPT ![h] = [Free EXCEPT !.pc = "claim", !.t = t]]
    /\ UNCHANGED <<bank, request, ledger, credits, desk, faults>>

ReceiveAgain(t) ==
    /\ log[t].processed
    /\ log' = [log EXCEPT ![t].payload = {}]
    /\ UNCHANGED <<bank, request, ledger, credits, web, desk, faults>>

Claimable(t) == log[t].status \in {"RECEIVED", "FAILED"} /\ ~log[t].processed

ClaimLog(h) ==
    LET t == web[h].t
    IN  /\ web[h].pc = "claim"
        /\ IF Claimable(t) THEN Row(t, "PROCESSING") /\ Goto(h, "match")
           ELSE UNCHANGED log /\ Leave(h)
        /\ UNCHANGED <<bank, request, ledger, credits, desk, faults>>

(* The request is looked up by the memo; from here on the handler works    *)
(* with what it read.                                                      *)
Matches(t) ==
    LET c == bank[t].memo
    IN  /\ c \in DOMAIN request /\ bank[t].account
        /\ request[c].status = "PENDING"
        /\ bank[t].amount >= request[c].amount

MatchRequest(h) ==
    LET t == web[h].t
        c == bank[t].memo
    IN  /\ web[h].pc = "match"
        /\ \/ c = None /\ Goto(h, "ignore")
           \/ c # None /\ ~Matches(t) /\ Goto(h, "review")
           \/ /\ Matches(t)
              /\ web' = [web EXCEPT ![h].pc = "fund", ![h].code = c,
                                    ![h].sum = request[c].amount]
        /\ UNCHANGED <<bank, log, request, ledger, credits, desk, faults>>

(* What the handler means to book, by what it reads before booking. *)
Applicable(t, s, asked) ==
    IF s \in Invoices THEN Min({bank[t].amount, Remaining(s), asked})
    ELSE Min({bank[t].amount, Remaining(s)})

ReadSource(h) ==
    LET t == web[h].t
        s == request[web[h].code].source
        a == Applicable(t, s, web[h].sum)
    IN  /\ web[h].pc = "fund"
        /\ \/ /\ s \in Invoices /\ EarlierPayment(t) # {}
              /\ \E b \in EarlierPayment(t) :
                   web' = [web EXCEPT ![h].pc = "confirm", ![h].sum = b.amount]
           \/ /\ s \in Deposits \/ EarlierPayment(t) = {}
              /\ IF s \in Invoices /\ a = 0 THEN Goto(h, "review")
                 ELSE web' = [web EXCEPT ![h].pc = "pay", ![h].sum = a]
        /\ UNCHANGED <<bank, log, request, ledger, credits, desk, faults>>

BookTransfer(h) ==
    LET t == web[h].t
        s == request[web[h].code].source
        a == web[h].sum
    IN  /\ web[h].pc = "pay"
        /\ \/ s \in Invoices /\ CanPay(t, s, a) /\ Book(t, s, a) /\ Goto(h, "confirm")
           \/ /\ s \in Invoices /\ PaidBefore(t, s, a)
              /\ UNCHANGED ledger /\ Goto(h, "confirm")
           \/ /\ s \in Invoices /\ ~CanPay(t, s, a) /\ ~PaidBefore(t, s, a)
              /\ UNCHANGED ledger /\ Goto(h, Refused)
           \/ /\ s \in Deposits /\ CanCollect(t, s)
              /\ Book(t, s, Remaining(s)) /\ Goto(h, "confirm")
           \/ s \in Deposits /\ ~CanCollect(t, s) /\ UNCHANGED ledger /\ Goto(h, Refused)
        /\ UNCHANGED <<bank, log, request, credits, desk, faults>>

Confirm(h) ==
    LET t == web[h].t
        c == web[h].code
    IN  /\ web[h].pc = "confirm"
        /\ IF Confirmable(t, c) THEN ConfirmRequest(t, c) /\ Goto(h, "close")
           ELSE UNCHANGED request /\ Goto(h, "fail")
        /\ UNCHANGED <<bank, log, ledger, credits, desk, faults>>

\* Mutant: any part of the transfer will do.
VerdictAny(t, applied) == "PROCESSED"

\* Mutant: a status the table does not know.
VerdictPartial(t, applied) == IF applied >= bank[t].amount THEN "PROCESSED" ELSE "PARTIAL"

(* A transfer that was not booked whole stays with the accountants. *)
Verdict(t, applied) == IF applied >= bank[t].amount THEN "PROCESSED" ELSE "NEEDS_REVIEW"

CloseLog(h) ==
    LET t == web[h].t
        status == CASE web[h].pc = "ignore" -> "IGNORED"
                    [] web[h].pc = "review" -> "NEEDS_REVIEW"
                    [] web[h].pc = "close"  -> Verdict(t, web[h].sum)
                    [] OTHER -> "FAILED"
    IN  /\ web[h].pc \in {"ignore", "review", "close"}
        /\ log' = [log EXCEPT ![t].status = status, ![t].processed = TRUE]
        /\ Leave(h)
        /\ UNCHANGED <<bank, request, ledger, credits, desk, faults>>

\* Mutant: the error path answers the bank and forgets the row.
FailLogSilently(h) ==
    /\ web[h].pc = "fail"
    /\ Leave(h)
    /\ UNCHANGED <<bank, log, request, ledger, credits, desk, faults>>

(* The error path marks the row by transaction id, whoever works on it;    *)
(* the bank is told to come again.                                         *)
FailLog(h) ==
    /\ web[h].pc = "fail"
    /\ Row(web[h].t, "FAILED")
    /\ Leave(h)
    /\ UNCHANGED <<bank, request, ledger, credits, desk, faults>>

(* A statement fails; the one that marks the row does so silently. *)
StatementFails(h) ==
    /\ web[h].pc # "idle"
    /\ Fault
    /\ IF web[h].pc = "fail" THEN Leave(h) ELSE Goto(h, "fail")
    /\ UNCHANGED <<bank, log, request, ledger, credits, desk>>

Crash(h) ==
    /\ CanCrash /\ web[h].pc # "idle"
    /\ Fault
    /\ Leave(h)
    /\ UNCHANGED <<bank, log, request, ledger, credits, desk>>

Handle(h) ==
    \/ ClaimLog(h) \/ MatchRequest(h) \/ ReadSource(h) \/ BookTransfer(h)
    \/ Confirm(h) \/ CloseLog(h) \/ FailLog(h)

-----------------------------------------------------------------------------
(* Manual assignment of a transfer to a source the operator picks. *)

Step(o, place) == desk' = [desk EXCEPT ![o].pc = place]
Rest(o) == desk' = [desk EXCEPT ![o] = Away]

Assignable(t) ==
    log[t].status \in {"RECEIVED", "FAILED", "NEEDS_REVIEW"} /\ ~log[t].processed

Assign(o, claim) ==
    LET t == claim.t
    IN  /\ desk[o].pc = "idle"
        /\ "assigned" \notin log[t].payload
        /\ Assignable(t)
        /\ Row(t, "PROCESSING")
        /\ desk' = [desk EXCEPT ![o] = [Away EXCEPT !.pc = "select", !.claim = claim,
                                                   !.payload = log[t].payload]]
        /\ UNCHANGED <<bank, request, ledger, credits, web, faults>>

(* The request of the memo, else the newest one of the source. *)
Candidates(t, s) ==
    LET memo == {bank[t].memo} \cap DOMAIN request
        own  == {c \in DOMAIN request : request[c].source = s}
    IN  IF memo # {} THEN memo
        ELSE {c \in own : \A d \in own : request[d].born <= request[c].born}

MayTake(claim, c) ==
    /\ request[c].source = claim.source
    /\ request[c].status = "CONFIRMED" => request[c].txn = claim.t
    /\ request[c].claim \in {None, claim}

Select(o) ==
    LET t == desk[o].claim.t
        s == desk[o].claim.source
        found == Candidates(t, s)
    IN  /\ desk[o].pc = "select"
        /\ IF /\ bank[t].account
              /\ s \in Deposits => bank[t].amount = source[s].amount
              /\ \A c \in found : MayTake(desk[o].claim, c)
           THEN \E c \in IF found # {} THEN found
                         ELSE {IF bank[t].memo # None THEN bank[t].memo ELSE t} :
                  desk' = [desk EXCEPT ![o].pc = "link", ![o].code = c,
                             ![o].known = found # {},
                             ![o].resolved = IF found # {} THEN request[c].resolved ELSE {}]
           ELSE Step(o, "review")
        /\ UNCHANGED <<bank, log, request, ledger, credits, web, faults>>

(* A request is created; one that was found gets the operator's metadata   *)
(* on top of the metadata read before.                                     *)
Link(o) ==
    LET c == desk[o].code
        claim == desk[o].claim
    IN  /\ desk[o].pc = "link"
        /\ \/ /\ desk[o].known
              /\ Put(c, [request[c] EXCEPT !.claim = claim, !.resolved = desk[o].resolved])
              /\ Step(o, "book")
           \/ /\ ~desk[o].known /\ c \notin DOMAIN request
              /\ Put(c, Fresh(claim.source, bank[claim.t].amount, claim))
              /\ Step(o, "book")
           \/ /\ ~desk[o].known /\ c \in DOMAIN request
              /\ Step(o, IF request[c].source = claim.source THEN "book" ELSE "review")
              /\ UNCHANGED request
        /\ UNCHANGED <<bank, log, ledger, credits, web, faults>>

(* An invoice takes the transfer whole or not at all; a deposit that is    *)
(* not open any more is left as it is.                                     *)
BookAssigned(o) ==
    LET t == desk[o].claim.t
        s == desk[o].claim.source
        a == bank[t].amount
    IN  /\ desk[o].pc = "book"
        /\ \/ s \in Invoices /\ CanPay(t, s, a) /\ Book(t, s, a) /\ Step(o, "confirm")
           \/ /\ s \in Invoices /\ PaidBefore(t, s, a)
              /\ UNCHANGED ledger /\ Step(o, "confirm")
           \/ /\ s \in Invoices /\ ~CanPay(t, s, a) /\ ~PaidBefore(t, s, a)
              /\ UNCHANGED ledger /\ Step(o, "review")
           \/ /\ s \in Deposits /\ CanCollect(t, s)
              /\ Book(t, s, Remaining(s)) /\ Step(o, "confirm")
           \/ /\ s \in Deposits /\ source[s].status = "OPEN" /\ ~CanCollect(t, s)
              /\ UNCHANGED ledger /\ Step(o, "review")
           \/ /\ s \in Deposits /\ source[s].status # "OPEN"
              /\ UNCHANGED ledger /\ Step(o, "confirm")
        /\ UNCHANGED <<bank, log, request, credits, web, faults>>

ConfirmAssigned(o) ==
    LET t == desk[o].claim.t
        c == desk[o].code
    IN  /\ desk[o].pc = "confirm"
        /\ IF Confirmable(t, c) THEN ConfirmRequest(t, c) /\ Step(o, "close")
           ELSE UNCHANGED request /\ Step(o, "fail")
        /\ UNCHANGED <<bank, log, ledger, credits, web, faults>>

CloseAssigned(o) ==
    /\ desk[o].pc = "close"
    /\ log' = [log EXCEPT ![desk[o].claim.t] =
                 [status |-> "PROCESSED", processed |-> TRUE,
                  payload |-> desk[o].payload \cup {"assigned"}]]
    /\ Rest(o)
    /\ UNCHANGED <<bank, request, ledger, credits, web, faults>>

(* An error before money was booked sends the row back to review, one      *)
(* after it makes it FAILED.                                               *)
GiveUpAssigned(o) ==
    LET t == desk[o].claim.t
    IN  /\ desk[o].pc \in {"review", "fail"}
        /\ log' = IF desk[o].pc = "fail" THEN [log EXCEPT ![t].status = "FAILED"]
                  ELSE [log EXCEPT ![t].status = "NEEDS_REVIEW", ![t].processed = TRUE]
        /\ Rest(o)
        /\ UNCHANGED <<bank, request, ledger, credits, web, faults>>

AssignmentFails(o) ==
    /\ desk[o].pc # "idle"
    /\ Fault
    /\ \/ desk[o].pc \in {"select", "link", "book"} /\ Step(o, "review")
       \/ desk[o].pc \in {"confirm", "close"} /\ Step(o, "fail")
       \/ desk[o].pc \in {"review", "fail"} /\ Rest(o)
    /\ UNCHANGED <<bank, log, request, ledger, credits, web>>

AssignmentDies(o) ==
    /\ CanCrash /\ desk[o].pc # "idle"
    /\ Fault
    /\ Rest(o)
    /\ UNCHANGED <<bank, log, request, ledger, credits, web>>

DeskWork(o) ==
    \/ Select(o) \/ Link(o) \/ BookAssigned(o)
    \/ ConfirmAssigned(o) \/ CloseAssigned(o) \/ GiveUpAssigned(o)

-----------------------------------------------------------------------------
(* What a transfer paid too much. *)

\* Mutant: a confirmed request is taken for somebody else's.
ExcessOfConfirmed(t, r) ==
    IF r.status = "CONFIRMED" THEN bank[t].amount ELSE bank[t].amount - r.amount

(* All of a transfer that came after another one had confirmed the request. *)
Excess(t, r) ==
    IF r.status = "CONFIRMED" /\ r.txn # t THEN bank[t].amount
    ELSE bank[t].amount - r.amount

\* Mutant: only the payload of the log remembers a resolution.
ResolvedInPayload(t, seen) == "resolved" \in seen

(* The payload is read before the lock is taken: seen is what it held then. *)
Resolved(t, seen) == "resolved" \in seen \/ t \in request[bank[t].memo].resolved

Remember(t, seen) ==
    /\ request' = [request EXCEPT ![bank[t].memo].resolved = @ \cup {t}]
    /\ log' = [log EXCEPT ![t].payload = seen \cup {"resolved"}]

(* A credit note, or a task to pay the money back; the receipt of the      *)
(* latter is unique.                                                       *)
Resolve(t, kind, seen) ==
    /\ log[t].status # "ABSENT" /\ bank[t].memo \in DOMAIN request
    /\ ~Resolved(t, seen)
    /\ kind = "REFUND" => \A c \in CreditsOf(t) : c.kind # "REFUND"
    /\ Excess(t, request[bank[t].memo]) > 0
    /\ credits' = credits \cup
         {[t |-> t, amount |-> Excess(t, request[bank[t].memo]), kind |-> kind,
           out |-> FALSE, no |-> Cardinality(CreditsOf(t)) + 1]}
    /\ Remember(t, seen)
    /\ UNCHANGED <<bank, ledger, web, desk, faults>>

(* The money is paid back once the task is still to do. *)
CompleteRefund(t, seen) ==
    \E c \in CreditsOf(t) :
        /\ c.kind = "REFUND" /\ ~c.out
        /\ Resolved(t, seen)
        /\ credits' = (credits \ {c}) \cup {[c EXCEPT !.out = TRUE]}
        /\ Remember(t, seen)
        /\ UNCHANGED <<bank, ledger, web, desk, faults>>

-----------------------------------------------------------------------------
Surroundings ==
    \/ \E s \in Sources :
         \/ \E c \in Codes : RequestPayment(s, c)
         \/ \E a \in 1 .. Price[s] : PayCash(s, a)
         \/ CloseSource(s)
    \/ \E d \in Deposits, n \in Repriced : Reprice(d, n)
    \/ \E t \in Transfers :
         \/ ReceiveAgain(t)
         \/ \E seen \in SUBSET log[t].payload :
              CompleteRefund(t, seen)
              \/ \E kind \in {"CREDIT", "REFUND"} : Resolve(t, kind, seen)

Next ==
    \/ Surroundings
    \/ \E h \in Handlers :
         Handle(h) \/ StatementFails(h) \/ Crash(h) \/ \E t \in Transfers : Receive(h, t)
    \/ \E o \in Operators :
         DeskWork(o) \/ AssignmentFails(o) \/ AssignmentDies(o)
         \/ \E claim \in Claims : Assign(o, claim)

(* A live request runs to its end. *)
Fairness == /\ \A h \in Handlers : WF_vars(Handle(h))
            /\ \A o \in Operators : WF_vars(DeskWork(o))

Safety == Init /\ [][Next]_vars
Spec == Safety /\ Fairness

-----------------------------------------------------------------------------
(* Properties. *)

(* However often a webhook is delivered, retried by hand or repeated after *)
(* a failure, a transfer pays invoices once and funds deposits once.       *)
BookedOncePerKind ==
    \A t \in Transfers : Cardinality(BookingsOf(t, Invoices)) <= 1
                       /\ Cardinality(BookingsOf(t, Deposits)) <= 1

(* What one transfer brings to the books, booked and credited together, is *)
(* not more than what the bank received.                                   *)
MoneyNotInvented ==
    \A t \in Transfers : Booked(t, Sources) + Credited(t) <= bank[t].amount

(* No booking, however late or stale, takes a source above its amount. *)
NeverOverfunds ==
    [][\A s \in Sources : source'[s].paid > source[s].paid
          => source'[s].paid <= source'[s].amount]_vars

(* A transfer is reported PROCESSED only if all of it was booked. *)
ProcessedIsBooked ==
    \A t \in Transfers : log[t].status = "PROCESSED" /\ BookingsOf(t, Deposits) = {}
        => Booked(t, Invoices) = bank[t].amount

(* What a transfer paid too much is given back once. *)
ResolvedOnce == \A t \in Transfers : Cardinality(CreditsOf(t)) <= 1

(* "Loi trong luc xu ly phai de lai retryable state": unless a statement   *)
(* fails or a process dies, a row that somebody claimed is let go again,   *)
(* with a verdict or for another delivery, however the booking goes.       *)
ClaimsAreReleased ==
    [](faults = 0) =>
        \A t \in Transfers : log[t].status = "PROCESSING" ~> log[t].status # "PROCESSING"
=============================================================================
