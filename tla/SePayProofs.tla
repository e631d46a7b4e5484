---------------------------- MODULE SePayProofs ----------------------------
(***************************************************************************)
(* Transfers, requests and bookings for any number of transfers, handlers, *)
(* operators and faults.                                                   *)
(*                                                                         *)
(* A handler that books works on a request that exists and on a transfer   *)
(* the bank has made; requests are never removed.  With that the tables    *)
(* keep their types, and what the booking transactions read again under    *)
(* their locks is enough: nothing a handler remembers is needed.           *)
(*                                                                         *)
(* What is not more than was received, what is given back and what is      *)
(* reported PROCESSED does depend on what a handler remembers (Knows,      *)
(* Affords), and holds where nobody assigns transfers by hand: an          *)
(* assignment writes back what it read of a request before.                *)
(***************************************************************************)
EXTENDS SePay, SumFacts, FiniteSetTheorems, TLAPS

(* What a handler or an operator holds in hand at each place. *)
WebInHand ==
    \A h \in Handlers :
        /\ web[h].pc # "idle" => web[h].t \in Transfers
        /\ web[h].pc \in {"fund", "pay", "confirm", "close"} => web[h].code \in DOMAIN request

DeskInHand ==
    \A o \in Operators :
        /\ desk[o].pc # "idle" => desk[o].claim \in Claims
        /\ desk[o].pc = "link" => desk[o].code \in AllCodes
        /\ desk[o].pc = "link" /\ desk[o].known => desk[o].code \in DOMAIN request
        /\ desk[o].pc \in {"book", "confirm", "close"} => desk[o].code \in DOMAIN request

Finite == IsFiniteSet(bookings) /\ IsFiniteSet(credits)

OncePerKind ==
    \A b, c \in bookings :
        b.t = c.t /\ (b.source \in Invoices <=> c.source \in Invoices) => b = c

IndInv == TypeOK /\ WebInHand /\ DeskInHand /\ Finite /\ OncePerKind

-----------------------------------------------------------------------------
(* Arithmetic and counting. *)

LEMMA MaxOfTwo ==
    ASSUME NEW x \in Int
    PROVE  /\ Max({0, x}) \in Nat
           /\ Max({0, x}) > 0 => Max({0, x}) = x
  <1>1. \E y \in {0, x} : \A z \in {0, x} : y >= z
    <2>1. CASE x >= 0
      BY <2>1
    <2>2. CASE x < 0
      BY <2>2
    <2> QED
      BY <2>1, <2>2
  <1>2. Max({0, x}) \in {0, x} /\ Max({0, x}) >= 0 /\ Max({0, x}) >= x
    BY <1>1 DEF Max
  <1> QED
    BY <1>2

(* The smallest of two numbers *)
LEMMA MinOfTwo ==
    ASSUME NEW x \in Nat, NEW y \in Nat
    PROVE  Min({x, y}) \in Nat /\ Min({x, y}) <= x /\ Min({x, y}) <= y
  <1>1. \E v \in {x, y} : \A w \in {x, y} : w >= v
    <2>1. CASE x >= y
      BY <2>1
    <2>2. CASE x < y
      BY <2>2
    <2> QED
      BY <2>1, <2>2
  <1> QED
    BY <1>1 DEF Min

(* and of three. *)
LEMMA MinOfThree ==
    ASSUME NEW x \in Nat, NEW y \in Nat, NEW z \in Nat
    PROVE  /\ Min({x, y, z}) \in {x, y, z} /\ Min({x, y, z}) \in Nat
           /\ Min({x, y, z}) <= x /\ Min({x, y, z}) <= y /\ Min({x, y, z}) <= z
  <1>1. \E v \in {x, y, z} : \A w \in {x, y, z} : w >= v
    <2>1. CASE x <= y /\ x <= z
      BY <2>1
    <2>2. CASE y <= x /\ y <= z
      BY <2>2
    <2>3. CASE z <= x /\ z <= y
      BY <2>3
    <2> QED
      BY <2>1, <2>2, <2>3
  <1> QED
    BY <1>1 DEF Min

(* What is left to pay is a number, and if there is anything it is the     *)
(* difference.                                                             *)
LEMMA RemainingIs ==
    ASSUME TypeOK, NEW s \in Sources
    PROVE  /\ Remaining(s) \in Nat
           /\ Remaining(s) > 0 => Remaining(s) = source[s].amount - source[s].paid
  <1>1. source[s].amount \in Nat /\ source[s].paid \in Nat
    BY DEF TypeOK, SourceRow
  <1>2. source[s].amount - source[s].paid \in Int
    BY <1>1
  <1> QED
    BY <1>2, MaxOfTwo DEF Remaining

(* Bookings, credits and requests can be counted. *)
LEMMA CountedBookings ==
    ASSUME IndInv, NEW t, NEW S
    PROVE  Cardinality(BookingsOf(t, S)) \in Nat
  <1>1. BookingsOf(t, S) \subseteq bookings
    BY DEF BookingsOf
  <1>2. IsFiniteSet(BookingsOf(t, S))
    BY <1>1, FS_Subset DEF IndInv, Finite
  <1> QED
    BY <1>2, FS_CardinalityType

LEMMA CountedCredits ==
    ASSUME IndInv, NEW t
    PROVE  Cardinality(CreditsOf(t)) \in Nat
  <1>1. CreditsOf(t) \subseteq credits
    BY DEF CreditsOf
  <1>2. IsFiniteSet(CreditsOf(t))
    BY <1>1, FS_Subset DEF IndInv, Finite
  <1> QED
    BY <1>2, FS_CardinalityType

LEMMA CountedRequests ==
    ASSUME TypeOK
    PROVE  Cardinality(DOMAIN request) + 1 \in Nat
  <1>1. IsFiniteSet(AllCodes)
    BY SePayAssumption, FS_Union DEF AllCodes
  <1>2. IsFiniteSet(DOMAIN request)
    BY <1>1, FS_Subset DEF TypeOK
  <1> QED
    BY <1>2, FS_CardinalityType

-----------------------------------------------------------------------------
(* What the shared operations write. *)

LEMMA PutRequest ==
    ASSUME TypeOK, NEW c \in AllCodes, NEW r \in RequestRow, Put(c, r)
    PROVE  /\ DOMAIN request' = DOMAIN request \cup {c}
           /\ DOMAIN request' \subseteq AllCodes
           /\ \A x \in DOMAIN request' : request'[x] \in RequestRow
  BY DEF Put, TypeOK

(* The rows that are written have their types. *)
LEMMA FreshRequest ==
    ASSUME TypeOK, NEW s \in Sources, NEW a \in Nat, NEW claim \in Claims \cup {None}
    PROVE  Fresh(s, a, claim) \in RequestRow
  BY CountedRequests DEF Fresh, RequestRow

LEMMA ConfirmedRequest ==
    ASSUME TypeOK, NEW c \in DOMAIN request, NEW t \in Transfers, ConfirmRequest(t, c)
    PROVE  /\ DOMAIN request' = DOMAIN request
           /\ \A x \in DOMAIN request' : request'[x] \in RequestRow
  <1>1. [request[c] EXCEPT !.status = "CONFIRMED", !.txn = t] \in RequestRow
    BY DEF TypeOK, RequestRow
  <1>2. request' = [request EXCEPT ![c] =
                      [request[c] EXCEPT !.status = "CONFIRMED", !.txn = t]]
    BY DEF ConfirmRequest
  <1> QED
    BY <1>1, <1>2 DEF TypeOK

(* Money paid in raises what the source has received. *)
LEMMA FundedSource ==
    ASSUME TypeOK, NEW s \in Sources, NEW a \in Nat, Fund(s, a)
    PROVE  /\ source' \in [Sources -> SourceRow]
           /\ source'[s].paid = source[s].paid + a /\ source'[s].amount = source[s].amount
           /\ \A x \in Sources : x # s => source'[x] = source[x]
  <1>1. source[s].paid + a \in Nat
    BY DEF TypeOK, SourceRow
  <1> QED
    BY <1>1 DEF Fund, TypeOK, SourceRow

(* A booking adds one row for a transfer that had none of the kind.        *)
LEMMA BookedRow ==
    ASSUME IndInv, NEW t \in Transfers, NEW s \in Sources, NEW a \in Nat, Book(t, s, a),
           \A b \in bookings : b.t = t => ~(b.source \in Invoices <=> s \in Invoices)
    PROVE  /\ bookings' \subseteq BookingRow
           /\ IsFiniteSet(bookings')
           /\ OncePerKind'
           /\ source' \in [Sources -> SourceRow]
  <1> DEFINE row == [t |-> t, source |-> s, amount |-> a,
                     no |-> Cardinality(BookingsOf(t, Sources)) + 1]
  <1>1. row \in BookingRow
    BY CountedBookings DEF BookingRow
  <1>2. bookings' = bookings \cup {row}
    BY DEF Book
  <1>3. IsFiniteSet(bookings')
    BY <1>2, FS_AddElement DEF IndInv, Finite
  <1>4. row.t = t /\ row.source = s
    OBVIOUS
  <1>5. OncePerKind'
    BY <1>2, <1>4 DEF IndInv, OncePerKind
  <1>6. source' \in [Sources -> SourceRow]
    BY FundedSource DEF Book, IndInv
  <1> QED
    BY <1>1, <1>2, <1>3, <1>5, <1>6 DEF IndInv, TypeOK
-----------------------------------------------------------------------------
(* The tables, one lemma for each; requests are never removed. *)

LEMMA RequestWriters ==
    ASSUME [Next]_vars
    PROVE  \/ UNCHANGED request
           \/ \E s \in Sources, c \in Codes : RequestPayment(s, c)
           \/ \E h \in Handlers : Confirm(h)
           \/ \E o \in Operators : Link(o) \/ ConfirmAssigned(o)
           \/ \E t \in Transfers : \E seen \in SUBSET log[t].payload :
                CompleteRefund(t, seen)
                \/ \E kind \in {"CREDIT", "REFUND"} : Resolve(t, kind, seen)
  BY DEF Next, Surroundings, PayCash, CloseSource, Reprice, ReceiveAgain, Handle, StatementFails,
     Crash, Receive, ClaimLog, MatchRequest, ReadSource, BookTransfer, CloseLog, FailLog,
     DeskWork, AssignmentFails, AssignmentDies, Assign, Select, BookAssigned, CloseAssigned,
     GiveUpAssigned, vars

(* A resolution is written into the request only. *)
LEMMA RememberedRequest ==
    ASSUME TypeOK, NEW t \in Transfers, NEW seen, Remember(t, seen)
    PROVE  /\ DOMAIN request' = DOMAIN request
           /\ \A x \in DOMAIN request' : request'[x] \in RequestRow
  <1> DEFINE c == bank[t].memo
             row == [request[c] EXCEPT !.resolved = @ \cup {t}]
  <1>1. c \in DOMAIN request => request[c].resolved \cup {t} \in SUBSET Transfers
    BY DEF TypeOK, RequestRow
  <1>2. c \in DOMAIN request => row \in RequestRow
    BY <1>1 DEF TypeOK, RequestRow
  <1>3. request' = [request EXCEPT ![c] = row]
    BY DEF Remember
  <1> QED
    BY <1>2, <1>3 DEF TypeOK

(* Requests are added and rewritten, never removed. *)
LEMMA RequestStep ==
    ASSUME IndInv, [Next]_vars
    PROVE  /\ DOMAIN request \subseteq DOMAIN request'
           /\ DOMAIN request' \subseteq AllCodes
           /\ \A c \in DOMAIN request' : request'[c] \in RequestRow
  <1> USE DEF IndInv
  <1>1. CASE UNCHANGED request
    BY <1>1 DEF TypeOK
  <1>2. ASSUME NEW s \in Sources, NEW c \in Codes, RequestPayment(s, c)
        PROVE  /\ DOMAIN request \subseteq DOMAIN request'
               /\ DOMAIN request' \subseteq AllCodes
               /\ \A x \in DOMAIN request' : request'[x] \in RequestRow
    <2>1. c \in AllCodes /\ Remaining(s) \in Nat
      BY RemainingIs DEF AllCodes
    <2>2. Fresh(s, Remaining(s), None) \in RequestRow
      BY <2>1, FreshRequest
    <2>3. c \in DOMAIN request => [request[c] EXCEPT !.amount = Remaining(s)] \in RequestRow
      BY <2>1 DEF TypeOK, RequestRow
    <2>4. \E r \in RequestRow : Put(c, r)
      BY <1>2, <2>2, <2>3 DEF RequestPayment, Pending
    <2> QED
      BY <2>1, <2>4, PutRequest
  <1>3. ASSUME NEW h \in Handlers, Confirm(h)
        PROVE  /\ DOMAIN request \subseteq DOMAIN request'
               /\ DOMAIN request' \subseteq AllCodes
               /\ \A x \in DOMAIN request' : request'[x] \in RequestRow
    <2>1. web[h].t \in Transfers /\ web[h].code \in DOMAIN request
      BY <1>3 DEF Confirm, WebInHand
    <2>2. UNCHANGED request \/ ConfirmRequest(web[h].t, web[h].code)
      BY <1>3 DEF Confirm
    <2> QED
      BY <2>1, <2>2, ConfirmedRequest DEF TypeOK
  <1>4. ASSUME NEW o \in Operators, ConfirmAssigned(o)
        PROVE  /\ DOMAIN request \subseteq DOMAIN request'
               /\ DOMAIN request' \subseteq AllCodes
               /\ \A x \in DOMAIN request' : request'[x] \in RequestRow
    <2>1. desk[o].claim \in Claims /\ desk[o].code \in DOMAIN request
      BY <1>4 DEF ConfirmAssigned, DeskInHand
    <2>2. desk[o].claim.t \in Transfers
      BY <2>1 DEF Claims
    <2>3. UNCHANGED request \/ ConfirmRequest(desk[o].claim.t, desk[o].code)
      BY <1>4 DEF ConfirmAssigned
    <2> QED
      BY <2>1, <2>2, <2>3, ConfirmedRequest DEF TypeOK
  <1>5. ASSUME NEW o \in Operators, Link(o)
        PROVE  /\ DOMAIN request \subseteq DOMAIN request'
               /\ DOMAIN request' \subseteq AllCodes
               /\ \A x \in DOMAIN request' : request'[x] \in RequestRow
    <2> DEFINE c == desk[o].code
               claim == desk[o].claim
    <2>1. claim \in Claims /\ c \in AllCodes /\ (desk[o].known => c \in DOMAIN request)
      BY <1>5 DEF Link, DeskInHand
    <2>2. bank[claim.t].amount \in Nat /\ claim.source \in Sources
      BY <2>1, SePayAssumption DEF Claims, TypeOK
    <2>3. Fresh(claim.source, bank[claim.t].amount, claim) \in RequestRow
      BY <2>1, <2>2, FreshRequest
    <2>4. desk[o].resolved \in SUBSET Transfers
      BY DEF TypeOK, DeskRow
    <2>5. desk[o].known =>
            [request[c] EXCEPT !.claim = claim, !.resolved = desk[o].resolved] \in RequestRow
      BY <2>1, <2>4 DEF TypeOK, RequestRow
    <2>6. UNCHANGED request \/ \E r \in RequestRow : Put(c, r)
      BY <1>5, <2>3, <2>5 DEF Link
    <2> QED
      BY <2>1, <2>6, PutRequest DEF TypeOK
  <1>6. ASSUME NEW t \in Transfers, NEW seen \in SUBSET log[t].payload,
               CompleteRefund(t, seen)
               \/ \E kind \in {"CREDIT", "REFUND"} : Resolve(t, kind, seen)
        PROVE  /\ DOMAIN request \subseteq DOMAIN request'
               /\ DOMAIN request' \subseteq AllCodes
               /\ \A x \in DOMAIN request' : request'[x] \in RequestRow
    BY <1>6, RememberedRequest DEF CompleteRefund, Resolve, TypeOK
  <1> QED
    BY <1>1, <1>2, <1>3, <1>4, <1>5, <1>6, RequestWriters

(* Which actions write source and bookings. *)
LEMMA LedgerWriters ==
    ASSUME [Next]_vars
    PROVE  \/ UNCHANGED ledger
           \/ \E s \in Sources : CloseSource(s) \/ \E a \in 1 .. Price[s] : PayCash(s, a)
           \/ \E d \in Deposits, n \in Repriced : Reprice(d, n)
           \/ \E h \in Handlers : BookTransfer(h)
           \/ \E o \in Operators : BookAssigned(o)
  BY DEF Next, Surroundings, RequestPayment, ReceiveAgain, CompleteRefund, Resolve, Handle,
     StatementFails, Crash, Receive, ClaimLog, MatchRequest, ReadSource, Confirm, CloseLog,
     FailLog, DeskWork, AssignmentFails, AssignmentDies, Assign, Select, Link, ConfirmAssigned,
     CloseAssigned, GiveUpAssigned, vars

(* Both ways to book re-read the ledger: a payment needs that there is     *)
(* none for the reference, a collection that its key was not used; what    *)
(* they take is within what is left.                                       *)
LEMMA BookingsAreGuarded ==
    ASSUME IndInv, NEW t \in Transfers, NEW s \in Sources, NEW a \in Nat,
           \/ s \in Invoices /\ CanPay(t, s, a)
           \/ s \in Deposits /\ CanCollect(t, s) /\ a = Remaining(s)
    PROVE  /\ 0 < a /\ a <= Remaining(s)
           /\ \A b \in bookings : b.t = t => ~(b.source \in Invoices <=> s \in Invoices)
  <1>1. \A b \in bookings : b.source \in Invoices \/ b.source \in Deposits
    BY DEF IndInv, TypeOK, BookingRow, Sources
  <1>2. Remaining(s) \in Nat
    BY RemainingIs DEF IndInv
  <1> QED
    BY <1>1, <1>2, SePayAssumption
    DEF CanPay, CanCollect, Payable, EarlierPayment, BookingsOf

(* A step of a handler or an operator that books, and what it books. *)
LEMMA WebBookings ==
    ASSUME IndInv, NEW h \in Handlers, BookTransfer(h)
    PROVE  \/ UNCHANGED ledger
           \/ \E t \in Transfers, s \in Sources, a \in Nat :
                /\ Book(t, s, a)
                /\ \/ s \in Invoices /\ CanPay(t, s, a)
                   \/ s \in Deposits /\ CanCollect(t, s) /\ a = Remaining(s)
  <1> DEFINE s == request[web[h].code].source
  <1>1. web[h].t \in Transfers /\ web[h].code \in DOMAIN request
    BY DEF BookTransfer, IndInv, WebInHand
  <1>2. s \in Sources
    BY <1>1 DEF IndInv, TypeOK, RequestRow
  <1>3. web[h].sum \in Nat /\ Remaining(s) \in Nat
    BY <1>2, RemainingIs DEF IndInv, TypeOK, WebRow
  <1> QED
    BY <1>1, <1>2, <1>3 DEF BookTransfer

LEMMA DeskBookings ==
    ASSUME IndInv, NEW o \in Operators, BookAssigned(o)
    PROVE  \/ UNCHANGED ledger
           \/ \E t \in Transfers, s \in Sources, a \in Nat :
                /\ Book(t, s, a)
                /\ \/ s \in Invoices /\ CanPay(t, s, a)
                   \/ s \in Deposits /\ CanCollect(t, s) /\ a = Remaining(s)
  <1>1. desk[o].claim \in Claims
    BY DEF BookAssigned, IndInv, DeskInHand
  <1>2. desk[o].claim.t \in Transfers /\ desk[o].claim.source \in Sources
    BY <1>1 DEF Claims
  <1>3. bank[desk[o].claim.t].amount \in Nat /\ Remaining(desk[o].claim.source) \in Nat
    BY <1>2, RemainingIs, SePayAssumption DEF IndInv, TypeOK
  <1> QED
    BY <1>2, <1>3 DEF BookAssigned

(* Sources and bookings, whatever the step. *)
LEMMA LedgerStep ==
    ASSUME IndInv, [Next]_vars
    PROVE  /\ source' \in [Sources -> SourceRow]
           /\ bookings' \subseteq BookingRow /\ IsFiniteSet(bookings') /\ OncePerKind'
  <1> USE DEF IndInv
  <1>1. CASE UNCHANGED ledger
    BY <1>1 DEF ledger, TypeOK, Finite, OncePerKind
  <1>2. ASSUME NEW s \in Sources, CloseSource(s)
        PROVE  source' \in [Sources -> SourceRow] /\ UNCHANGED bookings
    BY <1>2 DEF CloseSource, TypeOK, SourceRow
  <1>3. ASSUME NEW s \in Sources, NEW a \in 1 .. Price[s], PayCash(s, a)
        PROVE  source' \in [Sources -> SourceRow] /\ UNCHANGED bookings
    <2>1. a \in Nat
      BY SePayAssumption
    <2> QED
      BY <2>1, <1>3, FundedSource DEF PayCash
  <1>4. ASSUME NEW d \in Deposits, NEW n \in Repriced, Reprice(d, n)
        PROVE  source' \in [Sources -> SourceRow] /\ UNCHANGED bookings
    BY <1>4, SePayAssumption DEF Reprice, TypeOK, SourceRow, Sources
  <1>5. ASSUME NEW t \in Transfers, NEW s \in Sources, NEW a \in Nat, Book(t, s, a),
               \/ s \in Invoices /\ CanPay(t, s, a)
               \/ s \in Deposits /\ CanCollect(t, s) /\ a = Remaining(s)
        PROVE  /\ source' \in [Sources -> SourceRow]
               /\ bookings' \subseteq BookingRow /\ IsFiniteSet(bookings') /\ OncePerKind'
    BY <1>5, BookingsAreGuarded, BookedRow
  <1>6. CASE UNCHANGED bookings /\ source' \in [Sources -> SourceRow]
    BY <1>6 DEF TypeOK, Finite, OncePerKind
  <1> QED
    BY <1>1, <1>2, <1>3, <1>4, <1>5, <1>6, LedgerWriters, WebBookings, DeskBookings

(* A row of the log is rewritten field by field. *)
LEMMA LogWrite ==
    ASSUME log \in [Transfers -> LogRow], NEW t \in Transfers, NEW status \in LogStatus,
           NEW processed \in BOOLEAN, NEW payload \in SUBSET {"assigned", "resolved"},
           log' = [log EXCEPT ![t] = [status |-> status, processed |-> processed,
                                      payload |-> payload]]
    PROVE  log' \in [Transfers -> LogRow]
  <1>1. [status |-> status, processed |-> processed, payload |-> payload] \in LogRow
    BY DEF LogRow
  <1> QED
    BY <1>1

(* A row of the log, written field by field. *)
LEMMA LogFields ==
    ASSUME log \in [Transfers -> LogRow], NEW t \in Transfers
    PROVE  /\ log[t].status \in LogStatus /\ log[t].processed \in BOOLEAN
           /\ log[t].payload \in SUBSET {"assigned", "resolved"}
           /\ log[t] = [status |-> log[t].status, processed |-> log[t].processed,
                        payload |-> log[t].payload]
  BY DEF LogRow

LEMMA RowWrite ==
    ASSUME log \in [Transfers -> LogRow], NEW t \in Transfers, NEW status \in LogStatus,
           Row(t, status)
    PROVE  log' \in [Transfers -> LogRow]
  <1>1. [log[t] EXCEPT !.status = status] \in LogRow
    BY DEF LogRow
  <1>2. log' = [log EXCEPT ![t] = [log[t] EXCEPT !.status = status]]
    BY DEF Row
  <1> QED
    BY <1>1, <1>2

(* The log, whatever the step. *)
LEMMA LogStep ==
    ASSUME IndInv, [Next]_vars
    PROVE  log' \in [Transfers -> LogRow]
  <1>0. log \in [Transfers -> LogRow]
    BY DEF IndInv, TypeOK
  <1>1. {"RECEIVED", "PROCESSING", "PROCESSED", "FAILED", "IGNORED", "NEEDS_REVIEW"}
          \subseteq LogStatus
    BY DEF LogStatus
  <1>2. ASSUME NEW h \in Handlers, Handle(h)
        PROVE  log' \in [Transfers -> LogRow]
    <2>1. web[h].pc # "idle" => web[h].t \in Transfers
      BY DEF IndInv, WebInHand
    <2>2. CASE ClaimLog(h)
      BY <1>0, <1>1, <2>1, <2>2, RowWrite DEF ClaimLog
    <2>3. CASE CloseLog(h)
      <3> DEFINE t == web[h].t
      <3>1. t \in Transfers
        BY <2>1, <2>3 DEF CloseLog
      <3>2. PICK status \in LogStatus :
              log' = [log EXCEPT ![t].status = status, ![t].processed = TRUE]
        BY <2>3, <1>1 DEF CloseLog, Verdict
      <3>3. [[log[t] EXCEPT !.status = status] EXCEPT !.processed = TRUE] \in LogRow
        BY <1>0, <3>1 DEF LogRow
      <3>4. log' = [log EXCEPT ![t] =
                      [[log[t] EXCEPT !.status = status] EXCEPT !.processed = TRUE]]
        BY <1>0, <3>1, <3>2
      <3> QED
        BY <1>0, <3>3, <3>4
    <2>4. CASE FailLog(h)
      BY <1>0, <1>1, <2>1, <2>4, RowWrite DEF FailLog
    <2>5. CASE UNCHANGED log
      BY <1>0, <2>5
    <2> QED
      BY <1>2, <2>2, <2>3, <2>4, <2>5
      DEF Handle, MatchRequest, ReadSource, BookTransfer, Confirm
  <1>3. ASSUME NEW h \in Handlers, NEW t \in Transfers, Receive(h, t)
        PROVE  log' \in [Transfers -> LogRow]
    <2>1. PICK status \in LogStatus :
            log' = [log EXCEPT ![t].payload = {}, ![t].status = status]
      BY <1>0, <1>1, <1>3, LogFields DEF Receive
    <2>2. [[log[t] EXCEPT !.payload = {}] EXCEPT !.status = status] \in LogRow
      BY <1>0 DEF LogRow
    <2>3. log' = [log EXCEPT ![t] = [[log[t] EXCEPT !.payload = {}] EXCEPT !.status = status]]
      BY <1>0, <2>1
    <2> QED
      BY <1>0, <2>2, <2>3
  <1>4. ASSUME NEW o \in Operators, DeskWork(o) \/ \E claim \in Claims : Assign(o, claim)
        PROVE  log' \in [Transfers -> LogRow]
    <2> DEFINE t == desk[o].claim.t
    <2>1. desk[o].pc # "idle" => t \in Transfers
      BY DEF IndInv, DeskInHand, Claims
    <2>2. CASE CloseAssigned(o)
      <3>1. desk[o].payload \cup {"assigned"} \in SUBSET {"assigned", "resolved"}
        BY DEF IndInv, TypeOK, DeskRow
      <3>2. log' = [log EXCEPT ![t] = [status |-> "PROCESSED", processed |-> TRUE,
                                       payload |-> desk[o].payload \cup {"assigned"}]]
        BY <2>2 DEF CloseAssigned
      <3> QED
        BY <1>0, <1>1, <2>1, <2>2, <3>1, <3>2, LogWrite DEF CloseAssigned
    <2>3. CASE GiveUpAssigned(o) /\ desk[o].pc = "fail"
      BY <1>0, <1>1, <2>1, <2>3, RowWrite DEF GiveUpAssigned, Row
    <2>4. CASE GiveUpAssigned(o) /\ desk[o].pc # "fail"
      <3>1. t \in Transfers
        BY <2>1, <2>4 DEF GiveUpAssigned
      <3>2. log' = [log EXCEPT ![t].status = "NEEDS_REVIEW", ![t].processed = TRUE]
        BY <2>4 DEF GiveUpAssigned
      <3>3. [[log[t] EXCEPT !.status = "NEEDS_REVIEW"] EXCEPT !.processed = TRUE] \in LogRow
        BY <1>0, <1>1, <3>1 DEF LogRow
      <3>4. log' = [log EXCEPT ![t] =
                      [[log[t] EXCEPT !.status = "NEEDS_REVIEW"] EXCEPT !.processed = TRUE]]
        BY <1>0, <3>1, <3>2
      <3> QED
        BY <1>0, <3>3, <3>4
    <2>5. ASSUME NEW claim \in Claims, Assign(o, claim)
          PROVE  log' \in [Transfers -> LogRow]
      BY <1>0, <1>1, <2>5, RowWrite DEF Assign, Claims
    <2>6. CASE UNCHANGED log
      BY <1>0, <2>6
    <2> QED
      BY <1>4, <2>2, <2>3, <2>4, <2>5, <2>6
      DEF DeskWork, Select, Link, BookAssigned, ConfirmAssigned, GiveUpAssigned
  <1>5. ASSUME NEW t \in Transfers, ReceiveAgain(t)
        PROVE  log' \in [Transfers -> LogRow]
    <2>1. [log[t] EXCEPT !.payload = {}] \in LogRow
      BY <1>0 DEF LogRow
    <2> QED
      BY <1>0, <1>5, <2>1 DEF ReceiveAgain
  <1>6. ASSUME NEW t \in Transfers, NEW seen \in SUBSET log[t].payload, Remember(t, seen)
        PROVE  log' \in [Transfers -> LogRow]
    <2>1. seen \cup {"resolved"} \in SUBSET {"assigned", "resolved"}
      BY <1>0, LogFields
    <2>2. [log[t] EXCEPT !.payload = seen \cup {"resolved"}] \in LogRow
      BY <1>0, <2>1 DEF LogRow
    <2>3. log' = [log EXCEPT ![t] =
                    [log[t] EXCEPT !.payload = seen \cup {"resolved"}]]
      BY <1>6 DEF Remember
    <2> QED
      BY <1>0, <2>2, <2>3
  <1>7. CASE UNCHANGED log
    BY <1>0, <1>7
  <1> QED
    BY <1>2, <1>3, <1>4, <1>5, <1>6, <1>7
    DEF Next, Surroundings, RequestPayment, PayCash, CloseSource, Reprice, CompleteRefund,
        Resolve, StatementFails, Crash, AssignmentFails, AssignmentDies, vars

(* The credits, whatever the step. *)
LEMMA CreditStep ==
    ASSUME IndInv, [Next]_vars
    PROVE  credits' \subseteq CreditRow /\ IsFiniteSet(credits')
  <1> USE DEF IndInv
  <1>1. ASSUME NEW t \in Transfers, NEW kind \in {"CREDIT", "REFUND"}, NEW seen,
               Resolve(t, kind, seen)
        PROVE  credits' \subseteq CreditRow /\ IsFiniteSet(credits')
    <2> DEFINE r == request[bank[t].memo]
               row == [t |-> t, amount |-> Excess(t, r), kind |-> kind, out |-> FALSE,
                       no |-> Cardinality(CreditsOf(t)) + 1]
    <2>1. bank[t].amount \in Nat /\ r.amount \in Nat
      BY <1>1, SePayAssumption DEF Resolve, TypeOK, RequestRow
    <2>2. Excess(t, r) \in Nat
      BY <1>1, <2>1 DEF Resolve, Excess
    <2>3. row \in CreditRow
      BY <2>2, CountedCredits DEF CreditRow
    <2>4. credits' = credits \cup {row}
      BY <1>1 DEF Resolve
    <2> QED
      BY <2>3, <2>4, FS_AddElement DEF TypeOK, Finite
  <1>2. ASSUME NEW t \in Transfers, NEW seen, CompleteRefund(t, seen)
        PROVE  credits' \subseteq CreditRow /\ IsFiniteSet(credits')
    <2>1. PICK c \in credits : credits' = (credits \ {c}) \cup {[c EXCEPT !.out = TRUE]}
      BY <1>2 DEF CompleteRefund, CreditsOf
    <2>2. [c EXCEPT !.out = TRUE] \in CreditRow
      BY DEF TypeOK, CreditRow
    <2>3. IsFiniteSet(credits \ {c})
      BY FS_RemoveElement DEF Finite
    <2> QED
      BY <2>1, <2>2, <2>3, FS_AddElement DEF TypeOK
  <1>3. CASE UNCHANGED credits
    BY <1>3 DEF TypeOK, Finite
  <1> QED
    BY <1>1, <1>2, <1>3
    DEF Next, Surroundings, RequestPayment, PayCash, CloseSource, Reprice, ReceiveAgain, Handle,
        StatementFails, Crash, Receive, ClaimLog, MatchRequest, ReadSource, BookTransfer,
        Confirm, CloseLog, FailLog, DeskWork, AssignmentFails, AssignmentDies, Assign, Select,
        Link, BookAssigned, ConfirmAssigned, CloseAssigned, GiveUpAssigned, vars

-----------------------------------------------------------------------------
(* Handlers and operators. *)

(* One handler moves, to a row that is right for its place. *)
WebRowOK(r, codes) ==
    /\ r \in WebRow
    /\ r.pc # "idle" => r.t \in Transfers
    /\ r.pc \in {"fund", "pay", "confirm", "close"} => r.code \in codes

DeskRowOK(r, codes) ==
    /\ r \in DeskRow
    /\ r.pc # "idle" => r.claim \in Claims
    /\ r.pc = "link" => r.code \in AllCodes
    /\ r.pc = "link" /\ r.known => r.code \in codes
    /\ r.pc \in {"book", "confirm", "close"} => r.code \in codes

LEMMA WebMoves ==
    ASSUME IndInv, [Next]_vars, NEW h \in Handlers, NEW row,
           web' = [web EXCEPT ![h] = row], WebRowOK(row, DOMAIN request')
    PROVE  web' \in [Handlers -> WebRow] /\ WebInHand'
  BY RequestStep DEF IndInv, TypeOK, WebInHand, WebRowOK

LEMMA WebStays ==
    ASSUME IndInv, [Next]_vars, UNCHANGED web
    PROVE  web' \in [Handlers -> WebRow] /\ WebInHand'
  BY RequestStep DEF IndInv, TypeOK, WebInHand

LEMMA FreeRow == ASSUME NEW codes PROVE WebRowOK(Free, codes)
  BY DEF WebRowOK, WebRow, Free

(* Going on to a place that asks for no more than the handler has. *)
LEMMA WentOn ==
    ASSUME IndInv, [Next]_vars, NEW h \in Handlers, web[h].pc # "idle",
           NEW place \in {"claim", "match", "pay", "confirm", "ignore", "review", "close", "fail"},
           place \in {"pay", "confirm", "close"} => web[h].pc \in {"fund", "pay", "confirm"},
           NEW n \in Nat
    PROVE  /\ WebRowOK([web[h] EXCEPT !.pc = place], DOMAIN request')
           /\ WebRowOK([web[h] EXCEPT !.pc = place, !.sum = n], DOMAIN request')
  BY RequestStep DEF IndInv, TypeOK, WebInHand, WebRowOK, WebRow

LEMMA SumInHand ==
    ASSUME IndInv, NEW h \in Handlers, web[h].pc = "fund"
    PROVE  LET s == request[web[h].code].source
           IN  /\ Applicable(web[h].t, s, web[h].sum) \in Nat
               /\ \A b \in EarlierPayment(web[h].t) : b.amount \in Nat
  <1> DEFINE s == request[web[h].code].source
  <1>1. web[h].t \in Transfers /\ s \in Sources
    BY DEF IndInv, WebInHand, TypeOK, RequestRow
  <1>2. bank[web[h].t].amount \in Nat /\ Remaining(s) \in Nat /\ web[h].sum \in Nat
    BY <1>1, RemainingIs, SePayAssumption DEF IndInv, TypeOK, WebRow
  <1>3. Applicable(web[h].t, s, web[h].sum) \in Nat
    BY <1>2, MinOfTwo, MinOfThree DEF Applicable
  <1>4. \A b \in EarlierPayment(web[h].t) : b.amount \in Nat
    BY DEF IndInv, TypeOK, EarlierPayment, BookingsOf, BookingRow
  <1> QED
    BY <1>3, <1>4

(* The handlers, whatever the step. *)
LEMMA WebStep ==
    ASSUME IndInv, [Next]_vars
    PROVE  web' \in [Handlers -> WebRow] /\ WebInHand'
  <1>1. ASSUME NEW h \in Handlers, Leave(h)
        PROVE  web' \in [Handlers -> WebRow] /\ WebInHand'
    BY <1>1, FreeRow, WebMoves DEF Leave
  <1>2. ASSUME NEW h \in Handlers, web[h].pc # "idle",
               NEW place \in {"claim", "match", "pay", "confirm", "ignore", "review", "close",
                              "fail"},
               place \in {"pay", "confirm", "close"} => web[h].pc \in {"fund", "pay", "confirm"},
               Goto(h, place) \/ \E n \in Nat :
                 web' = [web EXCEPT ![h].pc = place, ![h].sum = n]
        PROVE  web' \in [Handlers -> WebRow] /\ WebInHand'
    <2>1. CASE Goto(h, place)
      <3>1. web' = [web EXCEPT ![h] = [web[h] EXCEPT !.pc = place]]
        BY <2>1 DEF Goto
      <3> QED
        BY <1>2, <3>1, WentOn, WebMoves
    <2>2. ASSUME NEW n \in Nat, web' = [web EXCEPT ![h].pc = place, ![h].sum = n]
          PROVE  web' \in [Handlers -> WebRow] /\ WebInHand'
      <3>1. web' = [web EXCEPT ![h] = [web[h] EXCEPT !.pc = place, !.sum = n]]
        BY <2>2 DEF IndInv, TypeOK
      <3> QED
        BY <1>2, <3>1, WentOn, WebMoves
    <2> QED
      BY <1>2, <2>1, <2>2
  <1>3. ASSUME NEW h \in Handlers, NEW t \in Transfers, Receive(h, t)
        PROVE  web' \in [Handlers -> WebRow] /\ WebInHand'
    <2>1. web' = [web EXCEPT ![h] = [Free EXCEPT !.pc = "claim", !.t = t]]
      BY <1>3 DEF Receive
    <2>2. WebRowOK([Free EXCEPT !.pc = "claim", !.t = t], DOMAIN request')
      BY DEF WebRowOK, WebRow, Free
    <2> QED
      BY <2>1, <2>2, WebMoves
  <1>4. ASSUME NEW h \in Handlers, MatchRequest(h)
        PROVE  web' \in [Handlers -> WebRow] /\ WebInHand'
    <2> DEFINE t == web[h].t
               c == bank[t].memo
    <2>1. CASE Goto(h, "ignore") \/ Goto(h, "review")
      BY <1>2, <1>4, <2>1 DEF MatchRequest
    <2>2. CASE Matches(t) /\ web' = [web EXCEPT ![h].pc = "fund", ![h].code = c,
                                                ![h].sum = request[c].amount]
      <3>1. c \in DOMAIN request /\ request[c].amount \in Nat /\ c \in AllCodes
        BY <2>2 DEF Matches, IndInv, TypeOK, RequestRow
      <3>2. c \in DOMAIN request'
        BY <3>1, RequestStep
      <3>3. web' = [web EXCEPT ![h] = [web[h] EXCEPT !.pc = "fund", !.code = c,
                                                     !.sum = request[c].amount]]
        BY <2>2 DEF IndInv, TypeOK
      <3>4. WebRowOK([web[h] EXCEPT !.pc = "fund", !.code = c, !.sum = request[c].amount],
                     DOMAIN request')
        BY <1>4, <3>1, <3>2 DEF MatchRequest, WebRowOK, WebRow, IndInv, TypeOK, WebInHand
      <3> QED
        BY <3>3, <3>4, WebMoves
    <2> QED
      BY <1>4, <2>1, <2>2 DEF MatchRequest
  <1>5. ASSUME NEW h \in Handlers, ReadSource(h)
        PROVE  web' \in [Handlers -> WebRow] /\ WebInHand'
    BY <1>2, <1>5, SumInHand DEF ReadSource
  <1>6. ASSUME NEW h \in Handlers,
               ClaimLog(h) \/ BookTransfer(h) \/ Confirm(h) \/ CloseLog(h) \/ FailLog(h)
                 \/ StatementFails(h) \/ Crash(h)
        PROVE  web' \in [Handlers -> WebRow] /\ WebInHand'
    BY <1>1, <1>2, <1>6, WebStays
    DEF ClaimLog, BookTransfer, Refused, Confirm, CloseLog, FailLog, StatementFails, Crash
  <1>7. CASE UNCHANGED web
    BY <1>7, WebStays
  <1> QED
    BY <1>3, <1>4, <1>5, <1>6, <1>7
    DEF Next, Surroundings, Handle, RequestPayment, PayCash, CloseSource, Reprice, ReceiveAgain,
        CompleteRefund, Resolve, DeskWork, AssignmentFails, AssignmentDies, Assign, Select,
        Link, BookAssigned, ConfirmAssigned, CloseAssigned, GiveUpAssigned, vars

LEMMA DeskMoves ==
    ASSUME IndInv, [Next]_vars, NEW o \in Operators, NEW row,
           desk' = [desk EXCEPT ![o] = row], DeskRowOK(row, DOMAIN request')
    PROVE  desk' \in [Operators -> DeskRow] /\ DeskInHand'
  BY RequestStep DEF IndInv, TypeOK, DeskInHand, DeskRowOK

LEMMA DeskStays ==
    ASSUME IndInv, [Next]_vars, UNCHANGED desk
    PROVE  desk' \in [Operators -> DeskRow] /\ DeskInHand'
  BY RequestStep DEF IndInv, TypeOK, DeskInHand

LEMMA AwayRow == ASSUME NEW codes PROVE DeskRowOK(Away, codes)
  BY DEF DeskRowOK, DeskRow, Away

LEMMA Rested ==
    ASSUME IndInv, [Next]_vars, NEW o \in Operators, Rest(o)
    PROVE  desk' \in [Operators -> DeskRow] /\ DeskInHand'
  BY AwayRow, DeskMoves DEF Rest

(* Going on to a place whose needs are met. *)
LEMMA Stepped ==
    ASSUME IndInv, [Next]_vars, NEW o \in Operators, desk[o].pc # "idle",
           NEW place \in {"book", "confirm", "close", "review", "fail"}, Step(o, place),
           place \in {"book", "confirm", "close"} => desk[o].code \in DOMAIN request'
    PROVE  desk' \in [Operators -> DeskRow] /\ DeskInHand'
  <1>1. desk' = [desk EXCEPT ![o] = [desk[o] EXCEPT !.pc = place]]
    BY DEF Step
  <1>2. DeskRowOK([desk[o] EXCEPT !.pc = place], DOMAIN request')
    BY DEF IndInv, TypeOK, DeskInHand, DeskRowOK, DeskRow
  <1> QED
    BY <1>1, <1>2, DeskMoves

(* The operators, whatever the step. *)
LEMMA DeskStep ==
    ASSUME IndInv, [Next]_vars
    PROVE  desk' \in [Operators -> DeskRow] /\ DeskInHand'
  <1>1. ASSUME NEW o \in Operators, NEW claim \in Claims, Assign(o, claim)
        PROVE  desk' \in [Operators -> DeskRow] /\ DeskInHand'
    <2> DEFINE row == [Away EXCEPT !.pc = "select", !.claim = claim,
                                   !.payload = log[claim.t].payload]
    <2>1. log[claim.t].payload \in SUBSET {"assigned", "resolved"}
      BY LogFields DEF IndInv, TypeOK, Claims
    <2>2. DeskRowOK(row, DOMAIN request')
      BY <2>1 DEF DeskRowOK, DeskRow, Away
    <2>3. desk' = [desk EXCEPT ![o] = row]
      BY <1>1 DEF Assign
    <2> HIDE DEF row
    <2> QED
      BY <2>2, <2>3, DeskMoves
  <1>2. ASSUME NEW o \in Operators, Select(o)
        PROVE  desk' \in [Operators -> DeskRow] /\ DeskInHand'
    <2> DEFINE t == desk[o].claim.t
               s == desk[o].claim.source
               found == Candidates(t, s)
    <2>1. t \in Transfers /\ desk[o].claim \in Claims
      BY <1>2 DEF Select, IndInv, DeskInHand, Claims
    <2>2. found \subseteq DOMAIN request
      BY DEF Candidates
    <2>3. ASSUME NEW c \in IF found # {} THEN found
                           ELSE {IF bank[t].memo # None THEN bank[t].memo ELSE t},
                 desk' = [desk EXCEPT ![o].pc = "link", ![o].code = c,
                            ![o].known = found # {},
                            ![o].resolved = IF found # {} THEN request[c].resolved ELSE {}]
          PROVE  desk' \in [Operators -> DeskRow] /\ DeskInHand'
      <3> DEFINE seen == IF found # {} THEN request[c].resolved ELSE {}
                 row  == [desk[o] EXCEPT !.pc = "link", !.code = c, !.known = (found # {}),
                                         !.resolved = seen]
      <3>1. c \in AllCodes /\ (found # {} => c \in DOMAIN request)
        <4>1. bank[t].memo \in Codes \cup {None}
          BY <2>1, SePayAssumption DEF IndInv, TypeOK
        <4> QED
          BY <2>1, <2>2, <4>1 DEF AllCodes, IndInv, TypeOK
      <3>2. seen \in SUBSET Transfers
        BY <3>1 DEF IndInv, TypeOK, RequestRow
      <3>3. (found # {}) \in BOOLEAN /\ (found # {} => c \in DOMAIN request')
        BY <3>1, RequestStep
      <3>4. desk' = [desk EXCEPT ![o] = row]
        BY <2>3 DEF IndInv, TypeOK
      <3> HIDE DEF seen, found
      <3>5. DeskRowOK(row, DOMAIN request')
        BY <2>1, <3>1, <3>2, <3>3 DEF IndInv, TypeOK, DeskRowOK, DeskRow
      <3> HIDE DEF row
      <3> QED
        BY <3>4, <3>5, DeskMoves
    <2>4. CASE Step(o, "review")
      BY <1>2, <2>4, Stepped DEF Select
    <2> QED
      BY <1>2, <2>3, <2>4 DEF Select
  <1>3. ASSUME NEW o \in Operators, Link(o)
        PROVE  desk' \in [Operators -> DeskRow] /\ DeskInHand'
    <2>1. \/ Step(o, "review")
          \/ Step(o, "book") /\ desk[o].code \in DOMAIN request'
      BY <1>3, RequestStep DEF Link, Put
    <2> QED
      BY <1>3, <2>1, Stepped DEF Link
  <1>4. ASSUME NEW o \in Operators, BookAssigned(o) \/ ConfirmAssigned(o)
        PROVE  desk' \in [Operators -> DeskRow] /\ DeskInHand'
    <2>1. desk[o].code \in DOMAIN request'
      BY <1>4, RequestStep DEF BookAssigned, ConfirmAssigned, IndInv, DeskInHand
    <2> QED
      BY <1>4, <2>1, Stepped DEF BookAssigned, ConfirmAssigned
  <1>5. ASSUME NEW o \in Operators,
               CloseAssigned(o) \/ GiveUpAssigned(o) \/ AssignmentFails(o) \/ AssignmentDies(o)
        PROVE  desk' \in [Operators -> DeskRow] /\ DeskInHand'
    BY <1>5, Rested, Stepped
    DEF CloseAssigned, GiveUpAssigned, AssignmentFails, AssignmentDies
  <1>6. CASE UNCHANGED desk
    BY <1>6, DeskStays
  <1> QED
    BY <1>1, <1>2, <1>3, <1>4, <1>5, <1>6
    DEF Next, Surroundings, Handle, RequestPayment, PayCash, CloseSource, Reprice, ReceiveAgain,
        CompleteRefund, Resolve, DeskWork, StatementFails, Crash, Receive, ClaimLog,
        MatchRequest, ReadSource, BookTransfer, Confirm, CloseLog, FailLog, vars

-----------------------------------------------------------------------------
(* The invariant holds at first *)
LEMMA InitInv == Init => IndInv
  <1> SUFFICES ASSUME Init PROVE IndInv
    OBVIOUS
  <1>1. log \in [Transfers -> LogRow]
    BY DEF Init, LogRow, LogStatus
  <1>2. source \in [Sources -> SourceRow]
    BY SePayAssumption DEF Init, SourceRow
  <1>3. web \in [Handlers -> WebRow] /\ WebInHand
    BY DEF Init, WebRow, Free, WebInHand
  <1>4. desk \in [Operators -> DeskRow] /\ DeskInHand
    BY DEF Init, DeskRow, Away, DeskInHand
  <1>5. Finite /\ OncePerKind
    BY FS_EmptySet DEF Init, Finite, OncePerKind
  <1>6. DOMAIN request = {} /\ faults \in 0 .. MaxFaults /\ bookings = {} /\ credits = {}
    BY SePayAssumption DEF Init
  <1> QED
    BY <1>1, <1>2, <1>3, <1>4, <1>5, <1>6 DEF Init, IndInv, TypeOK

(* and after every step. *)
LEMMA StepInv == IndInv /\ [Next]_vars => IndInv'
  <1> SUFFICES ASSUME IndInv, [Next]_vars PROVE IndInv'
    OBVIOUS
  <1>1. bank' \in [Transfers -> Statements] /\ faults' \in 0 .. MaxFaults
    <2>1. UNCHANGED bank
      BY DEF Next, Surroundings, Handle, RequestPayment, PayCash, CloseSource, Reprice,
         ReceiveAgain, CompleteRefund, Resolve, DeskWork, StatementFails, Crash, Receive,
         ClaimLog, MatchRequest, ReadSource, BookTransfer, Confirm, CloseLog, FailLog,
         AssignmentFails, AssignmentDies, Assign, Select, Link, BookAssigned, ConfirmAssigned,
         CloseAssigned, GiveUpAssigned, vars
    <2>2. UNCHANGED faults \/ Fault
      BY DEF Next, Surroundings, Handle, RequestPayment, PayCash, CloseSource, Reprice,
         ReceiveAgain, CompleteRefund, Resolve, DeskWork, StatementFails, Crash, Receive,
         ClaimLog, MatchRequest, ReadSource, BookTransfer, Confirm, CloseLog, FailLog,
         AssignmentFails, AssignmentDies, Assign, Select, Link, BookAssigned, ConfirmAssigned,
         CloseAssigned, GiveUpAssigned, vars
    <2> QED
      BY <2>1, <2>2, SePayAssumption DEF IndInv, TypeOK, Fault
  <1>2. TypeOK'
    BY <1>1, RequestStep, LedgerStep, LogStep, CreditStep, WebStep, DeskStep DEF TypeOK
  <1> QED
    BY <1>2, LedgerStep, CreditStep, WebStep, DeskStep DEF IndInv, Finite

(* One booking of a kind is what the property counts. *)
LEMMA OnceCounted == IndInv => BookedOncePerKind
  <1> SUFFICES ASSUME IndInv, NEW t \in Transfers
               PROVE  /\ Cardinality(BookingsOf(t, Invoices)) <= 1
                      /\ Cardinality(BookingsOf(t, Deposits)) <= 1
    BY DEF BookedOncePerKind
  <1>1. ASSUME NEW S, \A b, c \in S : b = c
        PROVE  Cardinality(S) <= 1
    <2>1. CASE S = {}
      BY <2>1, FS_EmptySet
    <2>2. CASE S # {}
      <3>1. PICK b : b \in S
        BY <2>2
      <3>2. S = {b}
        BY <1>1, <3>1
      <3> QED
        BY <3>2, FS_Singleton
    <2> QED
      BY <2>1, <2>2
  <1>2. \A b, c \in BookingsOf(t, Invoices) : b = c
    BY DEF IndInv, OncePerKind, BookingsOf
  <1>3. \A b, c \in BookingsOf(t, Deposits) : b = c
    BY SePayAssumption DEF IndInv, OncePerKind, BookingsOf
  <1> QED
    BY <1>1, <1>2, <1>3

-----------------------------------------------------------------------------
(* The inductive invariant: types, what handlers and operators hold in     *)
(* hand, finite books, one booking of a transfer for each kind.            *)
THEOREM SePayInvariant == Safety => []IndInv
  <1> QED
    BY InitInv, StepInv, PTL DEF Safety

(* The log, the requests, the books and every handler keep their types:    *)
(* no row gets a status the table does not know.                           *)
THEOREM SePayTypes == Safety => []TypeOK
  <1>1. IndInv => TypeOK
    BY DEF IndInv
  <1> QED
    BY <1>1, SePayInvariant, PTL

(* However many deliveries of a webhook and manual assignments overlap, a  *)
(* transfer pays invoices once and funds deposits once.                    *)
THEOREM TransferBookedOnce == Safety => []BookedOncePerKind
  <1> QED
    BY OnceCounted, SePayInvariant, PTL

(* No booking takes an invoice or a deposit above its amount, however old  *)
(* what the handler read.                                                  *)
THEOREM NothingOverfunded == Safety => NeverOverfunds
  <1>1. ASSUME IndInv, [Next]_vars, NEW s \in Sources, source'[s].paid > source[s].paid
        PROVE  source'[s].paid <= source'[s].amount
    <2> DEFINE Within(x, a) == Fund(x, a) /\ 0 < a /\ a <= Remaining(x)
    <2>1. ASSUME NEW x \in Sources, NEW a \in Nat, Within(x, a)
          PROVE  source'[s].paid <= source'[s].amount
      <3>1. source[x].amount \in Nat /\ source[x].paid \in Nat
        BY <1>1 DEF IndInv, TypeOK, SourceRow
      <3>2. Remaining(x) = source[x].amount - source[x].paid
        BY <1>1, <2>1, RemainingIs DEF IndInv
      <3>3. source'[x].paid = source[x].paid + a /\ source'[x].amount = source[x].amount
        BY <1>1, <2>1, FundedSource DEF IndInv
      <3>4. x = s
        BY <1>1, <2>1, FundedSource DEF IndInv, TypeOK, SourceRow
      <3> QED
        BY <2>1, <3>1, <3>2, <3>3, <3>4
    <2>2. ASSUME NEW t \in Transfers, NEW x \in Sources, NEW a \in Nat, Book(t, x, a),
                 \/ x \in Invoices /\ CanPay(t, x, a)
                 \/ x \in Deposits /\ CanCollect(t, x) /\ a = Remaining(x)
          PROVE  Within(x, a)
      BY <1>1, <2>2, BookingsAreGuarded DEF Book
    <2>3. ASSUME NEW x \in Sources, NEW a \in 1 .. Price[x], PayCash(x, a)
          PROVE  a \in Nat /\ Within(x, a)
      BY <2>3, SePayAssumption DEF PayCash
    <2>4. ~UNCHANGED source
      BY <1>1 DEF IndInv, TypeOK, SourceRow
    <2>5. ASSUME NEW x \in Sources, CloseSource(x)
          PROVE  FALSE
      BY <1>1, <2>5 DEF CloseSource, IndInv, TypeOK, SourceRow
    <2>6. ASSUME NEW d \in Deposits, NEW n \in Repriced, Reprice(d, n)
          PROVE  FALSE
      BY <1>1, <2>6 DEF Reprice, IndInv, TypeOK, SourceRow, Sources
    <2> HIDE DEF Within
    <2> QED
      BY <1>1, <2>1, <2>2, <2>3, <2>4, <2>5, <2>6, LedgerWriters, WebBookings, DeskBookings
      DEF ledger
  <1>2. IndInv /\ [Next]_vars =>
          [\A s \in Sources : source'[s].paid > source[s].paid
             => source'[s].paid <= source'[s].amount]_vars
    BY <1>1
  <1> QED
    BY <1>2, SePayInvariant, PTL DEF Safety, NeverOverfunds

-----------------------------------------------------------------------------
(* The webhook beside requests, cash and resolutions, without assignments  *)
(* by hand: an assignment books for a source the operator picks and writes *)
(* back the metadata of a request it read before, and with that the three  *)
(* results below do not hold.                                              *)

Busy == {"fund", "pay", "confirm", "close"}

(* A request keeps its source and remembers what was resolved, and         *)
(* bookings stay.                                                          *)
KeepsRequests ==
    \A c \in DOMAIN request :
        /\ c \in DOMAIN request' /\ request'[c].source = request[c].source
        /\ request[c].resolved \subseteq request'[c].resolved

(* Without operators, these are the steps there are. *)
LEMMA NobodyAtTheDesk ==
    ASSUME Operators = {}, [Next]_vars
    PROVE  \/ Surroundings
           \/ \E h \in Handlers :
                Handle(h) \/ StatementFails(h) \/ Crash(h) \/ \E t \in Transfers : Receive(h, t)
           \/ UNCHANGED vars
  BY DEF Next

(* What the bank knows does not change. *)
LEMMA BankStays ==
    ASSUME Operators = {}, [Next]_vars
    PROVE  bank' = bank
  BY NobodyAtTheDesk
  DEF Surroundings, Handle, RequestPayment, PayCash, CloseSource, Reprice, ReceiveAgain,
      CompleteRefund, Resolve, StatementFails, Crash, Receive, ClaimLog, MatchRequest,
      ReadSource, BookTransfer, Confirm, CloseLog, FailLog, vars

(* Nothing takes a resolution out of a request. *)
LEMMA RequestsKept ==
    ASSUME Operators = {}, IndInv, [Next]_vars
    PROVE  KeepsRequests
  <1>1. CASE UNCHANGED request
    BY <1>1 DEF KeepsRequests
  <1>2. ASSUME NEW s \in Sources, NEW c \in Codes, RequestPayment(s, c)
        PROVE  KeepsRequests
    <2>1. ASSUME c \in DOMAIN request, Put(c, [request[c] EXCEPT !.amount = Remaining(s)])
          PROVE  KeepsRequests
      <3> DEFINE r == [request[c] EXCEPT !.amount = Remaining(s)]
      <3>1. r.source = request[c].source /\ r.resolved = request[c].resolved
        BY <2>1 DEF IndInv, TypeOK, RequestRow
      <3> HIDE DEF r
      <3>2. Put(c, r)
        BY <2>1 DEF r
      <3> QED
        BY <2>1, <3>1, <3>2 DEF KeepsRequests, Put
    <2>2. ASSUME c \notin DOMAIN request, NEW r, Put(c, r)
          PROVE  KeepsRequests
      BY <2>2 DEF KeepsRequests, Put
    <2> QED
      BY <1>2, <2>1, <2>2 DEF RequestPayment, Pending
  <1>3. ASSUME NEW h \in Handlers, Confirm(h)
        PROVE  KeepsRequests
    <2>1. UNCHANGED request \/ ConfirmRequest(web[h].t, web[h].code)
      BY <1>3 DEF Confirm
    <2>2. web[h].code \in DOMAIN request
      BY <1>3 DEF Confirm, IndInv, WebInHand
    <2>3. ASSUME ConfirmRequest(web[h].t, web[h].code)
          PROVE  KeepsRequests
      <3> DEFINE d == web[h].code
                 r == [request[d] EXCEPT !.status = "CONFIRMED", !.txn = web[h].t]
      <3>1. r.source = request[d].source /\ r.resolved = request[d].resolved
        BY <2>2 DEF IndInv, TypeOK, RequestRow
      <3>2. request' = [request EXCEPT ![d] = r]
        BY <2>3 DEF ConfirmRequest
      <3> HIDE DEF r, d
      <3> QED
        BY <3>1, <3>2 DEF KeepsRequests
    <2> QED
      BY <1>1, <2>1, <2>3
  <1>4. ASSUME NEW t \in Transfers, NEW seen \in SUBSET log[t].payload,
               CompleteRefund(t, seen)
               \/ \E kind \in {"CREDIT", "REFUND"} : Resolve(t, kind, seen)
        PROVE  KeepsRequests
    <2>1. request' = [request EXCEPT ![bank[t].memo].resolved = @ \cup {t}]
      BY <1>4 DEF CompleteRefund, Resolve, Remember
    <2> QED
      BY <2>1 DEF KeepsRequests, IndInv, TypeOK, RequestRow
  <1> QED
    BY <1>1, <1>2, <1>3, <1>4, RequestWriters

(* What a handler that books does, in its own terms. *)
Books(h) ==
    \E a \in Nat :
        LET t == web[h].t
            s == request[web[h].code].source
        IN  /\ web[h].pc = "pay" /\ Book(t, s, a)
            /\ \/ s \in Invoices /\ CanPay(t, s, a) /\ a = web[h].sum
               \/ s \in Deposits /\ CanCollect(t, s) /\ a = Remaining(s)

(* A handler at the booking books or leaves the books alone; *)
LEMMA BookTransferKinds ==
    ASSUME IndInv, NEW h \in Handlers, BookTransfer(h)
    PROVE  UNCHANGED ledger \/ Books(h)
  <1> DEFINE s == request[web[h].code].source
  <1>1. web[h].t \in Transfers /\ web[h].code \in DOMAIN request
    BY DEF BookTransfer, IndInv, WebInHand
  <1>2. s \in Sources
    BY <1>1 DEF IndInv, TypeOK, RequestRow
  <1>3. web[h].sum \in Nat /\ Remaining(s) \in Nat
    BY <1>2, RemainingIs DEF IndInv, TypeOK, WebRow
  <1> QED
    BY <1>1, <1>2, <1>3 DEF BookTransfer, Books

(* and nobody else books. *)
LEMMA BookingKinds ==
    ASSUME Operators = {}, IndInv, [Next]_vars
    PROVE  UNCHANGED bookings \/ \E h \in Handlers : Books(h)
  BY BookTransferKinds, LedgerWriters DEF ledger, CloseSource, PayCash, Reprice

(* The one row a booking adds. *)
LEMMA BooksRow ==
    ASSUME IndInv, NEW h \in Handlers, Books(h)
    PROVE  \E b : /\ bookings' = bookings \cup {b}
                  /\ b.t = web[h].t /\ b.source = request[web[h].code].source
                  /\ b.amount \in Nat /\ 0 < b.amount /\ b.amount <= Remaining(b.source)
                  /\ b.source \in Invoices => b.amount = web[h].sum
                  /\ b.source \in Deposits => b.amount = Remaining(b.source)
                  /\ Book(b.t, b.source, b.amount)
  <1> DEFINE t == web[h].t
             s == request[web[h].code].source
  <1>1. PICK a \in Nat :
          /\ web[h].pc = "pay" /\ Book(t, s, a)
          /\ \/ s \in Invoices /\ CanPay(t, s, a) /\ a = web[h].sum
             \/ s \in Deposits /\ CanCollect(t, s) /\ a = Remaining(s)
    BY DEF Books
  <1>2. t \in Transfers /\ s \in Sources
    BY <1>1 DEF IndInv, WebInHand, TypeOK, RequestRow
  <1> HIDE DEF s, t
  <1>3. 0 < a /\ a <= Remaining(s)
    BY <1>1, <1>2, BookingsAreGuarded
  <1> DEFINE b == [t |-> t, source |-> s, amount |-> a,
                   no |-> Cardinality(BookingsOf(t, Sources)) + 1]
  <1>4. bookings' = bookings \cup {b}
    BY <1>1 DEF Book
  <1>5. b.t = t /\ b.source = s /\ b.amount = a
    OBVIOUS
  <1>6. s \in Invoices => s \notin Deposits
    BY SePayAssumption
  <1> HIDE DEF b
  <1>7. /\ b.t = web[h].t /\ b.source = request[web[h].code].source
        /\ b.source \in Invoices => b.amount = web[h].sum
        /\ b.source \in Deposits => b.amount = Remaining(b.source)
    BY <1>1, <1>5, <1>6 DEF s, t
  <1> QED
    BY <1>1, <1>3, <1>4, <1>5, <1>7

(* The moves of a handler towards money. *)
Matched(h) ==
    LET c == bank[web[h].t].memo
    IN  /\ web[h].pc = "match" /\ Matches(web[h].t)
        /\ web'[h].pc = "fund" /\ web'[h].t = web[h].t /\ web'[h].code = c
        /\ web'[h].sum = request[c].amount

MovesOn(h, place) ==
    web'[h].pc = place /\ web'[h].t = web[h].t /\ web'[h].code = web[h].code

ReadsSource(h) ==
    LET t == web[h].t
        s == request[web[h].code].source
    IN  /\ web[h].pc = "fund"
        /\ \/ /\ MovesOn(h, "confirm") /\ s \in Invoices
              /\ \E b \in EarlierPayment(t) : web'[h].sum = b.amount
           \/ MovesOn(h, "pay") /\ web'[h].sum = Applicable(t, s, web[h].sum)

BooksOrFinds(h) ==
    LET t == web[h].t
        s == request[web[h].code].source
    IN  /\ web[h].pc = "pay" /\ MovesOn(h, "confirm") /\ web'[h].sum = web[h].sum
        /\ Books(h) \/ (s \in Invoices /\ PaidBefore(t, s, web[h].sum))

(* Where the steps of a handler lead it, one by one *)
LEMMA MatchMoves ==
    ASSUME IndInv, NEW h \in Handlers, MatchRequest(h)
    PROVE  Matched(h) \/ web'[h].pc \notin Busy
  BY DEF MatchRequest, Goto, Matched, Busy, IndInv, TypeOK, WebRow

LEMMA ReadMoves ==
    ASSUME IndInv, NEW h \in Handlers, ReadSource(h)
    PROVE  ReadsSource(h) \/ web'[h].pc \notin Busy
  <1>1. ASSUME Goto(h, "review")
        PROVE  web'[h].pc \notin Busy
    BY <1>1 DEF Goto, Busy, IndInv, TypeOK, WebRow
  <1>2. ASSUME NEW place, NEW n, web' = [web EXCEPT ![h].pc = place, ![h].sum = n]
        PROVE  MovesOn(h, place) /\ web'[h].sum = n
    BY <1>2 DEF MovesOn, IndInv, TypeOK, WebRow
  <1> DEFINE t == web[h].t
             s == request[web[h].code].source
             a == Applicable(t, s, web[h].sum)
  <1>3. CASE s \in Invoices /\ \E b \in EarlierPayment(t) :
               web' = [web EXCEPT ![h].pc = "confirm", ![h].sum = b.amount]
    <2>1. PICK b \in EarlierPayment(t) :
            web' = [web EXCEPT ![h].pc = "confirm", ![h].sum = b.amount]
      BY <1>3
    <2>2. MovesOn(h, "confirm") /\ web'[h].sum = b.amount
      BY <1>2, <2>1
    <2>3. web[h].pc = "fund"
      BY DEF ReadSource
    <2> QED
      BY <1>3, <2>2, <2>3 DEF ReadsSource
  <1>4. CASE web' = [web EXCEPT ![h].pc = "pay", ![h].sum = a]
    <2>1. MovesOn(h, "pay") /\ web'[h].sum = a
      BY <1>2, <1>4
    <2>2. web[h].pc = "fund"
      BY DEF ReadSource
    <2> QED
      BY <2>1, <2>2 DEF ReadsSource
  <1>5. Goto(h, "review") \/ web' = [web EXCEPT ![h].pc = "pay", ![h].sum = a]
        \/ (s \in Invoices /\ \E b \in EarlierPayment(t) :
               web' = [web EXCEPT ![h].pc = "confirm", ![h].sum = b.amount])
    BY DEF ReadSource
  <1> QED
    BY <1>1, <1>3, <1>4, <1>5

LEMMA BookMoves ==
    ASSUME IndInv, NEW h \in Handlers, BookTransfer(h)
    PROVE  BooksOrFinds(h) \/ web'[h].pc \notin Busy
  <1>1. ASSUME Goto(h, "fail")
        PROVE  web'[h].pc \notin Busy
    BY <1>1 DEF Goto, Busy, IndInv, TypeOK, WebRow
  <1>2. ASSUME Goto(h, "confirm")
        PROVE  MovesOn(h, "confirm") /\ web'[h].sum = web[h].sum
    BY <1>2 DEF Goto, MovesOn, IndInv, TypeOK, WebRow
  <1> DEFINE t == web[h].t
             s == request[web[h].code].source
             a == web[h].sum
  <1>3. web[h].pc = "pay" /\ web[h].sum \in Nat /\ Remaining(s) \in Nat
    <2>1. web[h].pc = "pay" /\ web[h].sum \in Nat
      BY DEF BookTransfer, IndInv, TypeOK, WebRow
    <2>2. s \in Sources
      BY <2>1 DEF IndInv, WebInHand, TypeOK, RequestRow
    <2> QED
      BY <2>1, <2>2, RemainingIs DEF IndInv
  <1>4. CASE s \in Invoices /\ CanPay(t, s, a) /\ Book(t, s, a) /\ Goto(h, "confirm")
    <2>1. Books(h)
      BY <1>3, <1>4 DEF Books
    <2>2. MovesOn(h, "confirm") /\ web'[h].sum = web[h].sum
      BY <1>2, <1>4
    <2> QED
      BY <1>3, <2>1, <2>2 DEF BooksOrFinds
  <1>5. CASE s \in Invoices /\ PaidBefore(t, s, a) /\ Goto(h, "confirm")
    BY <1>2, <1>3, <1>5 DEF BooksOrFinds
  <1>6. CASE /\ s \in Deposits /\ CanCollect(t, s)
             /\ Book(t, s, Remaining(s)) /\ Goto(h, "confirm")
    <2>1. Books(h)
      BY <1>3, <1>6 DEF Books
    <2>2. MovesOn(h, "confirm") /\ web'[h].sum = web[h].sum
      BY <1>2, <1>6
    <2> QED
      BY <1>3, <2>1, <2>2 DEF BooksOrFinds
  <1>7. CASE Goto(h, "fail")
    BY <1>1, <1>7
  <1> QED
    BY <1>4, <1>5, <1>6, <1>7 DEF BookTransfer, Refused

Confirms(h) ==
    /\ web[h].pc = "confirm" /\ MovesOn(h, "close") /\ web'[h].sum = web[h].sum
    /\ ConfirmRequest(web[h].t, web[h].code)

LEMMA ConfirmMoves ==
    ASSUME IndInv, NEW h \in Handlers, Confirm(h)
    PROVE  Confirms(h) \/ (web'[h].pc \notin Busy /\ UNCHANGED request)
  <1>1. web[h].pc = "confirm"
    BY DEF Confirm
  <1>2. CASE ConfirmRequest(web[h].t, web[h].code) /\ Goto(h, "close")
    <2>1. MovesOn(h, "close") /\ web'[h].sum = web[h].sum
      BY <1>2 DEF Goto, MovesOn, IndInv, TypeOK, WebRow
    <2>2. ConfirmRequest(web[h].t, web[h].code)
      BY <1>2
    <2> QED
      BY <1>1, <2>1, <2>2 DEF Confirms
  <1>3. CASE UNCHANGED request /\ Goto(h, "fail")
    BY <1>3 DEF Goto, Busy, IndInv, TypeOK, WebRow
  <1> QED
    BY <1>2, <1>3 DEF Confirm

(* and together: what a step may do to a handler that is busy. *)
LEMMA WebKinds ==
    ASSUME Operators = {}, IndInv, [Next]_vars, NEW h \in Handlers
    PROVE  \/ web'[h] = web[h]
           \/ web'[h].pc \notin Busy
           \/ Matched(h) \/ ReadsSource(h) \/ BooksOrFinds(h) \/ Confirms(h)
  <1>2. ASSUME NEW g \in Handlers, g # h,
               Handle(g) \/ StatementFails(g) \/ Crash(g) \/ \E t \in Transfers : Receive(g, t)
        PROVE  web'[h] = web[h]
    <2>1. Goto(g, "fail") \/ Leave(g) => web'[h] = web[h]
      BY <1>2 DEF Goto, Leave, IndInv, TypeOK
    <2>2. \A place : Goto(g, place) => web'[h] = web[h]
      BY <1>2 DEF Goto, IndInv, TypeOK
    <2>3. ASSUME NEW t \in Transfers, Receive(g, t)
          PROVE  web'[h] = web[h]
      BY <1>2, <2>3 DEF Receive, IndInv, TypeOK
    <2>4. ASSUME MatchRequest(g)
          PROVE  web'[h] = web[h]
      BY <1>2, <2>2, <2>4 DEF MatchRequest, IndInv, TypeOK
    <2>5. ASSUME ReadSource(g)
          PROVE  web'[h] = web[h]
      BY <1>2, <2>2, <2>5 DEF ReadSource, IndInv, TypeOK
    <2> QED
      BY <1>2, <2>1, <2>2, <2>3, <2>4, <2>5
      DEF Handle, StatementFails, Crash, ClaimLog, BookTransfer, Confirm, CloseLog, FailLog
  <1>3. ASSUME ClaimLog(h) \/ CloseLog(h) \/ FailLog(h) \/ StatementFails(h) \/ Crash(h)
               \/ \E t \in Transfers : Receive(h, t)
        PROVE  web'[h].pc \notin Busy
    <2>1. Leave(h) => web'[h].pc \notin Busy
      BY DEF Leave, Free, Busy, IndInv, TypeOK
    <2>2. Goto(h, "fail") \/ Goto(h, "match") => web'[h].pc \notin Busy
      BY DEF Goto, Busy, IndInv, TypeOK, WebRow
    <2>3. ASSUME NEW t \in Transfers, Receive(h, t)
          PROVE  web'[h].pc \notin Busy
      BY <2>3 DEF Receive, Free, Busy, IndInv, TypeOK
    <2> QED
      BY <1>3, <2>1, <2>2, <2>3 DEF ClaimLog, CloseLog, FailLog, StatementFails, Crash
  <1>4. CASE UNCHANGED web
    BY <1>4
  <1> QED
    BY <1>2, <1>3, <1>4, MatchMoves, ReadMoves, BookMoves, ConfirmMoves, NobodyAtTheDesk
    DEF Surroundings, Handle, RequestPayment, PayCash, CloseSource, Reprice, ReceiveAgain,
        CompleteRefund, Resolve, vars

-----------------------------------------------------------------------------
(* A booking is of the source that the memo of the transfer names, a       *)
(* handler past the booking has one, and so has a row that is PROCESSED.   *)

Names(t, s) == bank[t].memo \in DOMAIN request /\ request[bank[t].memo].source = s

ByMemo ==
    \A b \in bookings : /\ Names(b.t, b.source)
                        /\ b.source \in Invoices => b.amount <= bank[b.t].amount

Knows(h) ==
    LET t == web[h].t
        s == request[web[h].code].source
    IN  web[h].pc \in Busy =>
          /\ web[h].code = bank[t].memo
          /\ web[h].pc = "pay" /\ s \in Invoices => web[h].sum <= bank[t].amount
          /\ web[h].pc \in {"confirm", "close"} =>
               \E b \in bookings : /\ b.t = t /\ b.source = s
                                   /\ b.source \in Invoices => b.amount = web[h].sum

ProcessedRows ==
    \A t \in Transfers : log[t].status = "PROCESSED" =>
        \E b \in bookings : b.t = t /\ (b.source \in Invoices => b.amount >= bank[t].amount)

(* What was resolved is remembered by the request. *)
Marked ==
    \A c \in credits : /\ bank[c.t].memo \in DOMAIN request
                       /\ c.t \in request[bank[c.t].memo].resolved

OneCredit == \A c, d \in credits : c.t = d.t => c = d

HookInv == ByMemo /\ (\A h \in Handlers : Knows(h)) /\ ProcessedRows /\ Marked /\ OneCredit

(* No booking is taken back. *)
LEMMA BookingsStay ==
    ASSUME Operators = {}, IndInv, [Next]_vars
    PROVE  bookings \subseteq bookings'
  BY BookingKinds, BooksRow

(* A booking is of the source the memo names, whatever the step. *)
LEMMA ByMemoKept ==
    ASSUME Operators = {}, IndInv, HookInv, [Next]_vars
    PROVE  ByMemo'
  <1>1. bank' = bank /\ KeepsRequests
    BY BankStays, RequestsKept
  <1>2. \A b \in bookings : /\ Names(b.t, b.source)'
                            /\ b.source \in Invoices => b.amount <= bank'[b.t].amount
    BY <1>1 DEF HookInv, ByMemo, Names, KeepsRequests
  <1>3. ASSUME NEW h \in Handlers, Books(h)
        PROVE  ByMemo'
    <2>1. PICK b : /\ bookings' = bookings \cup {b}
                   /\ b.t = web[h].t /\ b.source = request[web[h].code].source
                   /\ b.source \in Invoices => b.amount = web[h].sum
      BY <1>3, BooksRow
    <2>2. web[h].pc = "pay" /\ web[h].code \in DOMAIN request
      BY <1>3 DEF Books, IndInv, WebInHand
    <2>3. /\ web[h].code = bank[b.t].memo
          /\ b.source \in Invoices => b.amount <= bank[b.t].amount
      BY <2>1, <2>2 DEF HookInv, Knows, Busy
    <2>4. Names(b.t, b.source)'
      BY <1>1, <2>1, <2>2, <2>3 DEF Names, KeepsRequests
    <2>5. b.source \in Invoices => b.amount <= bank'[b.t].amount
      BY <1>1, <2>3
    <2> QED
      BY <1>2, <2>1, <2>4, <2>5 DEF ByMemo
  <1> QED
    BY <1>2, <1>3, BookingKinds DEF ByMemo

(* What a handler knows stays true under its own steps and those of        *)
(* others.                                                                 *)
LEMMA KnowsKept ==
    ASSUME Operators = {}, IndInv, HookInv, [Next]_vars, NEW h \in Handlers
    PROVE  Knows(h)'
  <1> DEFINE t == web[h].t
             c == web[h].code
             s == request[web[h].code].source
  <1>0. Knows(h) /\ ByMemo
    BY DEF HookInv
  <1>1. bank' = bank /\ KeepsRequests /\ bookings \subseteq bookings'
    BY BankStays, RequestsKept, BookingsStay
  <1>2. web[h].pc \in Busy => c \in DOMAIN request /\ t \in Transfers /\ s \in Sources
    BY DEF IndInv, WebInHand, Busy, TypeOK, RequestRow
  <1>3. web[h].pc \in Busy => request'[c].source = s
    BY <1>1, <1>2 DEF KeepsRequests
  <1>4. CASE web'[h] = web[h]
    BY <1>0, <1>1, <1>3, <1>4 DEF Knows
  <1>5. CASE web'[h].pc \notin Busy
    BY <1>5 DEF Knows
  <1>6. CASE Matched(h)
    BY <1>1, <1>6 DEF Matched, Matches, Knows
  <1>7. CASE ReadsSource(h)
    <2>1. web[h].pc = "fund" /\ web[h].pc \in Busy /\ c = bank[t].memo
      BY <1>0, <1>7 DEF ReadsSource, Knows, Busy
    <2>2. CASE MovesOn(h, "pay") /\ web'[h].sum = Applicable(t, s, web[h].sum)
      <3>1. s \in Invoices => Applicable(t, s, web[h].sum) <= bank[t].amount
        <4>1. bank[t].amount \in Nat /\ Remaining(s) \in Nat /\ web[h].sum \in Nat
          BY <1>2, <2>1, RemainingIs, SePayAssumption DEF IndInv, TypeOK, WebRow
        <4> QED
          BY <4>1, MinOfThree DEF Applicable
      <3> HIDE DEF s, t, c
      <3>2. web'[h].pc = "pay" /\ web'[h].t = t /\ web'[h].code = c
        BY <2>2 DEF MovesOn, t, c
      <3>3. request'[web'[h].code].source = s
        BY <1>3, <2>1, <3>2
      <3> QED
        BY <1>1, <2>1, <2>2, <3>1, <3>2, <3>3 DEF Knows
    <2>3. ASSUME MovesOn(h, "confirm"), s \in Invoices,
                 NEW b \in EarlierPayment(t), web'[h].sum = b.amount
          PROVE  Knows(h)'
      <3>1. b \in bookings /\ b.t = t
        BY <2>3 DEF EarlierPayment, BookingsOf
      <3>2. b.source = s
        BY <1>0, <2>1, <3>1 DEF ByMemo, Names
      <3> HIDE DEF s, t, c
      <3>3. web'[h].pc = "confirm" /\ web'[h].t = t /\ web'[h].code = c
        BY <2>3 DEF MovesOn, t, c
      <3>4. request'[web'[h].code].source = s
        BY <1>3, <2>1, <3>3
      <3> QED
        BY <1>1, <2>1, <2>3, <3>1, <3>2, <3>3, <3>4 DEF Knows
    <2> QED
      BY <1>7, <2>2, <2>3 DEF ReadsSource
  <1>8. CASE BooksOrFinds(h)
    <2>1. /\ web[h].pc \in Busy /\ c = bank[t].memo
          /\ web'[h].pc = "confirm" /\ web'[h].t = t /\ web'[h].code = c
          /\ web'[h].sum = web[h].sum
      BY <1>0, <1>8 DEF BooksOrFinds, MovesOn, Knows, Busy
    <2>2. \E b \in bookings' : /\ b.t = t /\ b.source = s
                               /\ b.source \in Invoices => b.amount = web[h].sum
      <3>1. CASE Books(h)
        BY <3>1, BooksRow
      <3>2. CASE PaidBefore(t, s, web[h].sum)
        BY <1>1, <3>2 DEF PaidBefore, EarlierPayment, BookingsOf
      <3> QED
        BY <1>8, <3>1, <3>2 DEF BooksOrFinds
    <2> HIDE DEF s, t, c
    <2>3. request'[web'[h].code].source = s
      BY <1>3, <2>1
    <2> QED
      BY <1>1, <2>1, <2>2, <2>3 DEF Knows
  <1>9. CASE Confirms(h)
    <2>1. /\ web[h].pc = "confirm" /\ web[h].pc \in Busy
          /\ web'[h].pc = "close" /\ web'[h].t = t /\ web'[h].code = c
          /\ web'[h].sum = web[h].sum
      BY <1>9 DEF Confirms, MovesOn, Busy
    <2>2. /\ c = bank[t].memo
          /\ \E b \in bookings' : /\ b.t = t /\ b.source = s
                                  /\ b.source \in Invoices => b.amount = web[h].sum
      BY <1>0, <1>1, <2>1 DEF Knows
    <2> HIDE DEF s, t, c
    <2>3. request'[web'[h].code].source = s
      BY <1>3, <2>1
    <2> QED
      BY <1>1, <2>1, <2>2, <2>3 DEF Knows
  <1> QED
    BY <1>4, <1>5, <1>6, <1>7, <1>8, <1>9, WebKinds

(* A row becomes PROCESSED when a handler closes it that has booked all of *)
(* the transfer.                                                           *)
LEMMA LogKinds ==
    ASSUME Operators = {}, IndInv, [Next]_vars, NEW t \in Transfers,
           log'[t].status = "PROCESSED"
    PROVE  \/ log[t].status = "PROCESSED"
           \/ \E h \in Handlers : /\ web[h].pc = "close" /\ web[h].t = t
                                  /\ web[h].sum >= bank[t].amount
  <1>0. log \in [Transfers -> LogRow]
    BY DEF IndInv, TypeOK
  <1>1. ASSUME NEW x \in Transfers, NEW status, Row(x, status), status # "PROCESSED"
        PROVE  log[t].status = "PROCESSED"
    BY <1>0, <1>1 DEF Row, LogRow
  <1>2. ASSUME NEW h \in Handlers, CloseLog(h)
        PROVE  \/ log[t].status = "PROCESSED"
               \/ /\ web[h].pc = "close" /\ web[h].t = t
                  /\ web[h].sum >= bank[t].amount
    <2> DEFINE x == web[h].t
               status == CASE web[h].pc = "ignore" -> "IGNORED"
                           [] web[h].pc = "review" -> "NEEDS_REVIEW"
                           [] web[h].pc = "close"  -> Verdict(x, web[h].sum)
                           [] OTHER -> "FAILED"
    <2>1. log' = [log EXCEPT ![x].status = status, ![x].processed = TRUE]
      BY <1>2 DEF CloseLog
    <2>2. CASE t # x
      BY <1>0, <2>1, <2>2
    <2>3. CASE t = x
      <3>1. status = "PROCESSED"
        <4> HIDE DEF status
        <4> QED BY <1>0, <2>1, <2>3 DEF LogRow
      <3> QED
        BY <1>2, <2>3, <3>1 DEF CloseLog, Verdict
    <2> QED
      BY <2>2, <2>3
  <1>3. ASSUME NEW x \in Transfers, NEW h \in Handlers, Receive(h, x)
        PROVE  log[t].status = "PROCESSED"
    <2> DEFINE status == IF log[x].status = "ABSENT" THEN "RECEIVED" ELSE log[x].status
    <2>1. log' = [log EXCEPT ![x].payload = {}, ![x].status = status]
      BY <1>0, <1>3 DEF Receive, LogRow
    <2>2. log'[x].status = status
      <3> HIDE DEF status
      <3> QED BY <1>0, <2>1 DEF LogRow
    <2> QED
      BY <1>0, <2>1, <2>2
  <1>4. ASSUME NEW x \in Transfers, NEW p, log' = [log EXCEPT ![x].payload = p]
        PROVE  log[t].status = "PROCESSED"
    BY <1>0, <1>4 DEF LogRow
  <1>5. CASE UNCHANGED log
    BY <1>5
  <1>6. ASSUME NEW x \in Transfers, NEW seen,
               CompleteRefund(x, seen) \/ ReceiveAgain(x)
               \/ \E kind \in {"CREDIT", "REFUND"} : Resolve(x, kind, seen)
        PROVE  log[t].status = "PROCESSED"
    BY <1>4, <1>6 DEF CompleteRefund, ReceiveAgain, Resolve, Remember
  <1>7. ASSUME NEW h \in Handlers, ClaimLog(h) \/ FailLog(h)
        PROVE  log[t].status = "PROCESSED"
    <2>1. web[h].t \in Transfers
      BY <1>7 DEF ClaimLog, FailLog, IndInv, WebInHand
    <2> QED
      BY <1>1, <1>5, <1>7, <2>1 DEF ClaimLog, FailLog
  <1> QED
    BY <1>2, <1>3, <1>5, <1>6, <1>7, NobodyAtTheDesk
    DEF Surroundings, Handle, RequestPayment, PayCash, CloseSource, Reprice, StatementFails,
        Crash, MatchRequest, ReadSource, BookTransfer, Confirm, vars

(* A row that is PROCESSED keeps the booking that made it so. *)
LEMMA ProcessedKept ==
    ASSUME Operators = {}, IndInv, HookInv, [Next]_vars
    PROVE  ProcessedRows'
  <1> SUFFICES ASSUME NEW t \in Transfers, log'[t].status = "PROCESSED"
               PROVE  \E b \in bookings' : b.t = t /\ (b.source \in Invoices => b.amount >= bank'[t].amount)
    BY DEF ProcessedRows
  <1>1. bank' = bank /\ bookings \subseteq bookings'
    BY BankStays, BookingsStay
  <1>2. CASE log[t].status = "PROCESSED"
    BY <1>1, <1>2 DEF HookInv, ProcessedRows
  <1>3. ASSUME NEW h \in Handlers, web[h].pc = "close", web[h].t = t,
               web[h].sum >= bank[t].amount
        PROVE  \E b \in bookings' : b.t = t /\ (b.source \in Invoices => b.amount >= bank'[t].amount)
    BY <1>1, <1>3 DEF HookInv, Knows, Busy
  <1> QED
    BY <1>2, <1>3, LogKinds

(* Only a resolution and a payout write credits. *)
LEMMA CreditKinds ==
    ASSUME Operators = {}, [Next]_vars
    PROVE  \/ UNCHANGED credits
           \/ \E t \in Transfers : \E seen \in SUBSET log[t].payload :
                CompleteRefund(t, seen)
                \/ \E kind \in {"CREDIT", "REFUND"} : Resolve(t, kind, seen)
  BY NobodyAtTheDesk
  DEF Surroundings, Handle, RequestPayment, PayCash, CloseSource, Reprice, ReceiveAgain,
      StatementFails, Crash, Receive, ClaimLog, MatchRequest, ReadSource, BookTransfer,
      Confirm, CloseLog, FailLog, vars

(* A resolution adds the first credit of its transfer. *)
LEMMA ResolveRow ==
    ASSUME IndInv, HookInv, NEW t \in Transfers, NEW seen, NEW kind \in {"CREDIT", "REFUND"},
           Resolve(t, kind, seen)
    PROVE  \E c : /\ credits' = credits \cup {c} /\ c.t = t
                  /\ c.amount = Excess(t, request[bank[t].memo])
                  /\ \A d \in credits : d.t # t
                  /\ bank[t].memo \in DOMAIN request
                  /\ t \in request'[bank[t].memo].resolved
  <1> DEFINE c == [t |-> t, amount |-> Excess(t, request[bank[t].memo]), kind |-> kind,
                   out |-> FALSE, no |-> Cardinality(CreditsOf(t)) + 1]
  <1>1. /\ credits' = credits \cup {c} /\ bank[t].memo \in DOMAIN request
        /\ t \notin request[bank[t].memo].resolved
        /\ request' = [request EXCEPT ![bank[t].memo].resolved = @ \cup {t}]
    BY DEF Resolve, Resolved, Remember
  <1>2. c.t = t /\ c.amount = Excess(t, request[bank[t].memo])
    OBVIOUS
  <1>3. t \in request'[bank[t].memo].resolved
    BY <1>1 DEF IndInv, TypeOK, RequestRow
  <1>4. \A d \in credits : d.t # t
    BY <1>1 DEF HookInv, Marked
  <1> HIDE DEF c
  <1> QED
    BY <1>1, <1>2, <1>3, <1>4

(* Paying a refund out changes nothing else of the credit. *)
LEMMA RefundRow ==
    ASSUME IndInv, NEW t \in Transfers, NEW seen, CompleteRefund(t, seen)
    PROVE  \E c \in credits : \E d : /\ credits' = (credits \ {c}) \cup {d}
                                     /\ d.t = c.t /\ d.amount = c.amount
  <1>1. PICK c \in credits : credits' = (credits \ {c}) \cup {[c EXCEPT !.out = TRUE]}
    BY DEF CompleteRefund, CreditsOf
  <1> DEFINE d == [c EXCEPT !.out = TRUE]
  <1>2. d.t = c.t /\ d.amount = c.amount
    BY DEF IndInv, TypeOK, CreditRow
  <1> HIDE DEF d
  <1>3. credits' = (credits \ {c}) \cup {d}
    BY <1>1 DEF d
  <1> QED
    BY <1>2, <1>3

(* What is given back is remembered, so it is not given back again. *)
LEMMA CreditsKept ==
    ASSUME Operators = {}, IndInv, HookInv, [Next]_vars
    PROVE  Marked' /\ OneCredit'
  <1>1. bank' = bank /\ KeepsRequests
    BY BankStays, RequestsKept
  <1>2. \A c \in credits : /\ bank'[c.t].memo \in DOMAIN request'
                           /\ c.t \in request'[bank'[c.t].memo].resolved
    BY <1>1 DEF HookInv, Marked, KeepsRequests
  <1>3. CASE UNCHANGED credits
    BY <1>2, <1>3 DEF HookInv, Marked, OneCredit
  <1>4. ASSUME NEW t \in Transfers, NEW seen, CompleteRefund(t, seen)
        PROVE  Marked' /\ OneCredit'
    <2>1. PICK c \in credits : \E d : /\ credits' = (credits \ {c}) \cup {d}
                                      /\ d.t = c.t /\ d.amount = c.amount
      BY <1>4, RefundRow
    <2>2. PICK d : credits' = (credits \ {c}) \cup {d} /\ d.t = c.t
      BY <2>1
    <2> QED
      BY <1>2, <2>2 DEF HookInv, Marked, OneCredit
  <1>5. ASSUME NEW t \in Transfers, NEW seen, NEW kind \in {"CREDIT", "REFUND"},
               Resolve(t, kind, seen)
        PROVE  Marked' /\ OneCredit'
    <2>1. PICK c : /\ credits' = credits \cup {c} /\ c.t = t
                   /\ \A d \in credits : d.t # t
                   /\ bank[t].memo \in DOMAIN request
                   /\ t \in request'[bank[t].memo].resolved
      BY <1>5, ResolveRow
    <2>2. bank[t].memo \in DOMAIN request'
      BY <1>1, <2>1 DEF KeepsRequests
    <2> QED
      BY <1>1, <1>2, <2>1, <2>2 DEF HookInv, Marked, OneCredit
  <1> QED
    BY <1>3, <1>4, <1>5, CreditKinds

(* Nothing is booked at first. *)
LEMMA InitHook ==
    ASSUME Init
    PROVE  HookInv
  BY DEF Init, HookInv, ByMemo, Knows, Busy, Free, ProcessedRows, Marked, OneCredit

(* A set in which all are equal is empty or has one member. *)
LEMMA AtMostOne ==
    ASSUME NEW S, \A b, c \in S : b = c
    PROVE  Cardinality(S) <= 1 /\ (S = {} \/ \E b : S = {b})
  <1>1. CASE S = {}
    BY <1>1, FS_EmptySet
  <1>2. CASE S # {}
    <2>1. PICK b : b \in S
      BY <1>2
    <2>2. S = {b}
      BY <2>1
    <2>3. Cardinality({b}) = 1
      BY FS_Singleton
    <2>4. Cardinality(S) = 1
      BY <2>2, <2>3
    <2>5. \E c : S = {c}
      BY <2>2
    <2>6. Cardinality(S) <= 1
      BY <2>4
    <2> QED
      BY <2>5, <2>6
  <1> QED
    BY <1>1, <1>2

(* A sum over one row is the row. *)
LEMMA SumOfOne ==
    ASSUME NEW b, b.amount \in Int
    PROVE  SumFunction([x \in {b} |-> x.amount]) = b.amount
  <1>1. PICK f : f = [x \in {b} |-> x.amount]
    OBVIOUS
  <1>2. DOMAIN f = {b} /\ f[b] = b.amount
    BY <1>1
  <1>3. \A y \in {b} : f[y] \in Int
    BY <1>2
  <1>4. IsFiniteSet({b}) /\ b \in {b}
    BY FS_Singleton
  <1>5. Sum(f, {b}) = f[b] + Sum(f, {b} \ {b})
    BY <1>3, <1>4, SumRemove
  <1>6. Sum(f, {}) = 0
    BY SumEmpty
  <1>7. {b} \ {b} = {}
    OBVIOUS
  <1>8. PICK n : n = b.amount
    OBVIOUS
  <1>9. Sum(f, {b}) = n + 0
    BY <1>2, <1>5, <1>6, <1>7, <1>8
  <1>10. Sum(f, {b}) = n
    BY <1>8, <1>9
  <1> QED
    BY <1>1, <1>2, <1>8, <1>10 DEF Sum, SumFunction

(* The invariant of the webhook, without an operator. *)
THEOREM HookInvariant == Operators = {} => (Safety => [](IndInv /\ HookInv))
  <1> SUFFICES ASSUME Operators = {} PROVE Safety => [](IndInv /\ HookInv)
    OBVIOUS
  <1>1. Init => IndInv /\ HookInv
    BY InitInv, InitHook
  <1>2. IndInv /\ HookInv /\ [Next]_vars => (IndInv /\ HookInv)'
    <2> SUFFICES ASSUME IndInv, HookInv, [Next]_vars PROVE IndInv' /\ HookInv'
      OBVIOUS
    <2>1. IndInv'
      BY StepInv
    <2>2. \A h \in Handlers : Knows(h)'
      BY KnowsKept
    <2>3. ByMemo' /\ ProcessedRows' /\ Marked' /\ OneCredit'
      BY ByMemoKept, ProcessedKept, CreditsKept
    <2> QED
      BY <2>1, <2>2, <2>3 DEF HookInv
  <1> QED
    BY <1>1, <1>2, PTL DEF Safety

(* What a transfer paid too much is given back once, whatever is repeated, *)
(* stale or out of order, as long as nobody assigns transfers by hand.     *)
THEOREM GivenBackOnce == Operators = {} => (Safety => []ResolvedOnce)
  <1> SUFFICES ASSUME Operators = {} PROVE Safety => []ResolvedOnce
    OBVIOUS
  <1>1. HookInv => ResolvedOnce
    BY AtMostOne DEF HookInv, OneCredit, ResolvedOnce, CreditsOf
  <1> QED
    BY <1>1, HookInvariant, PTL

(* The booking of a PROCESSED row that pays an invoice is the whole        *)
(* transfer.                                                               *)
LEMMA ProcessedRowIsBooked ==
    ASSUME IndInv, HookInv
    PROVE  ProcessedIsBooked
  <1> SUFFICES ASSUME NEW t \in Transfers, log[t].status = "PROCESSED", BookingsOf(t, Deposits) = {}
               PROVE  Booked(t, Invoices) = bank[t].amount
    BY DEF ProcessedIsBooked
  <1>1. PICK b \in bookings : b.t = t /\ (b.source \in Invoices => b.amount >= bank[t].amount)
    BY DEF HookInv, ProcessedRows
  <1>2. b.source \in Invoices /\ b.amount \in Nat
    BY <1>1 DEF IndInv, TypeOK, BookingRow, Sources, BookingsOf
  <1>3. bank[t].amount \in Nat
    BY SePayAssumption DEF IndInv, TypeOK
  <1>4. b.amount = bank[t].amount
    BY <1>1, <1>2, <1>3 DEF HookInv, ByMemo
  <1>5. BookingsOf(t, Invoices) = {b}
    BY <1>1, <1>2 DEF BookingsOf, IndInv, OncePerKind
  <1> QED
    BY <1>2, <1>4, <1>5, SumOfOne DEF Booked

(* A transfer the webhook reports PROCESSED without having funded a        *)
(* deposit has paid an invoice, with every unit of it.                     *)
THEOREM ProcessedTransferBooked == Operators = {} => (Safety => []ProcessedIsBooked)
  <1> SUFFICES ASSUME Operators = {} PROVE Safety => []ProcessedIsBooked
    OBVIOUS
  <1> QED
    BY ProcessedRowIsBooked, HookInvariant, PTL

-----------------------------------------------------------------------------
(* Money.  Without a new price the balance of a source only falls, and a   *)
(* request never asks for less than the balance.  So a handler holds a     *)
(* transfer that covers what is left, and books exactly that: the source   *)
(* is spent, takes no second booking, and the excess of its transfer and   *)
(* all of any other transfer for it is free to be given back.              *)

Asked(t) == request[bank[t].memo]

Covered == \A c \in DOMAIN request : Remaining(request[c].source) <= request[c].amount

Affords(h) ==
    LET s == request[web[h].code].source
    IN  web[h].pc \in {"fund", "pay"} =>
          /\ Remaining(s) <= bank[web[h].t].amount
          /\ web[h].pc = "fund" \/ s \in Invoices => Remaining(s) <= web[h].sum

Spent ==
    \A b \in bookings : /\ Remaining(b.source) = 0
                        /\ b.amount <= Asked(b.t).amount /\ b.amount <= bank[b.t].amount

OnePerSource == \A b, c \in bookings : b.source = c.source => b = c

ConfirmedBooked ==
    \A c \in DOMAIN request : request[c].status = "CONFIRMED" =>
        \E b \in bookings : b.t = request[c].txn /\ b.source = request[c].source

CreditWithin ==
    \A c \in credits :
        \/ c.amount <= bank[c.t].amount - Asked(c.t).amount
        \/ /\ c.amount = bank[c.t].amount
           /\ \E b \in bookings : b.t # c.t /\ b.source = Asked(c.t).source

MoneyInv == /\ Covered /\ Spent /\ OnePerSource /\ ConfirmedBooked /\ CreditWithin
            /\ \A h \in Handlers : Affords(h)

(* What is above zero of a number. *)
LEMMA MaxWithZero ==
    ASSUME NEW x \in Int
    PROVE  Max({0, x}) = IF 0 < x THEN x ELSE 0
  <1>1. \E y \in {0, x} : \A z \in {0, x} : y >= z
    <2>1. x >= 0 \/ x < 0
      OBVIOUS
    <2> QED
      BY <2>1
  <1>2. Max({0, x}) \in {0, x} /\ Max({0, x}) >= 0 /\ Max({0, x}) >= x
    BY <1>1 DEF Max
  <1> QED
    BY <1>2

(* Money paid in lowers the balance by as much, and no other.              *)
LEMMA FundLowers ==
    ASSUME TypeOK, TypeOK', NEW s \in Sources, NEW a \in Nat, 0 < a, a <= Remaining(s), Fund(s, a)
    PROVE  /\ Remaining(s)' = Remaining(s) - a
           /\ \A x \in Sources : Remaining(x)' <= Remaining(x)
  <1>1. /\ source'[s].paid = source[s].paid + a /\ source'[s].amount = source[s].amount
        /\ \A x \in Sources : x # s => source'[x] = source[x]
    BY FundedSource
  <1>2. \A x \in Sources : source[x].amount \in Nat /\ source[x].paid \in Nat
    BY DEF TypeOK, SourceRow
  <1>3. \A x \in Sources : Remaining(x) = IF source[x].paid < source[x].amount
                                          THEN source[x].amount - source[x].paid ELSE 0
    BY <1>2, MaxWithZero DEF Remaining
  <1>4. \A x \in Sources : Remaining(x)' = IF source'[x].paid < source'[x].amount
                                           THEN source'[x].amount - source'[x].paid ELSE 0
    <2>1. \A x \in Sources : source'[x].amount \in Nat /\ source'[x].paid \in Nat
      BY DEF TypeOK, SourceRow
    <2> QED
      BY <2>1, MaxWithZero DEF Remaining
  <1>5. Remaining(s)' = Remaining(s) - a
    BY <1>1, <1>2, <1>3, <1>4
  <1>6. ASSUME NEW x \in Sources, x # s
        PROVE  Remaining(x)' <= Remaining(x)
    <2>1. Remaining(x)' = Remaining(x)
      BY <1>1, <1>3, <1>4, <1>6
    <2>2. Remaining(x) \in Nat
      BY RemainingIs
    <2> QED
      BY <2>1, <2>2
  <1>7. Remaining(s) \in Nat
    BY RemainingIs
  <1>8. Remaining(s)' <= Remaining(s)
    BY <1>5, <1>7
  <1> QED
    BY <1>5, <1>6, <1>8

(* A source that keeps amount and money keeps its balance. *)
LEMMA RemainingKept ==
    ASSUME TypeOK, NEW x \in Sources, source'[x].amount = source[x].amount,
           source'[x].paid = source[x].paid
    PROVE  Remaining(x)' = Remaining(x)
  BY DEF Remaining

(* Without a new price no step raises a balance. *)
LEMMA RemainingFalls ==
    ASSUME Operators = {}, Repriced = {}, IndInv, IndInv', [Next]_vars
    PROVE  \A x \in Sources : Remaining(x)' <= Remaining(x)
  <1>0. TypeOK /\ TypeOK' /\ \A x \in Sources : Remaining(x) \in Nat
    BY RemainingIs DEF IndInv
  <1>1. CASE UNCHANGED ledger
    BY <1>0, <1>1, RemainingKept DEF ledger
  <1>2. ASSUME NEW s \in Sources, CloseSource(s)
        PROVE  \A x \in Sources : Remaining(x)' <= Remaining(x)
    <2>1. \A x \in Sources : source'[x].amount = source[x].amount /\ source'[x].paid = source[x].paid
      BY <1>0, <1>2 DEF CloseSource, TypeOK, SourceRow
    <2> QED
      BY <1>0, <2>1, RemainingKept
  <1>3. ASSUME NEW s \in Sources, NEW a \in 1 .. Price[s], PayCash(s, a)
        PROVE  \A x \in Sources : Remaining(x)' <= Remaining(x)
    <2>1. a \in Nat /\ 0 < a /\ a <= Remaining(s) /\ Fund(s, a)
      BY <1>3, SePayAssumption DEF PayCash
    <2> QED
      BY <1>0, <2>1, FundLowers
  <1>4. ASSUME NEW h \in Handlers, Books(h)
        PROVE  \A x \in Sources : Remaining(x)' <= Remaining(x)
    <2>1. PICK b : /\ b.amount \in Nat /\ 0 < b.amount /\ b.amount <= Remaining(b.source)
                   /\ b.source = request[web[h].code].source
                   /\ Book(b.t, b.source, b.amount)
      BY <1>4, BooksRow
    <2>2. b.source \in Sources
      BY <1>4, <2>1 DEF Books, IndInv, WebInHand, TypeOK, RequestRow
    <2>3. Fund(b.source, b.amount)
      BY <2>1 DEF Book
    <2> QED
      BY <1>0, <2>1, <2>2, <2>3, FundLowers
  <1> QED
    BY <1>1, <1>2, <1>3, <1>4, LedgerWriters, BookTransferKinds

(* What a step may do to a request that is there afterwards. *)
Drawn(c) ==
    /\ c \notin DOMAIN request /\ request'[c].source \in Sources
    /\ request'[c].status = "PENDING" /\ request'[c].amount = Remaining(request'[c].source)
    /\ source' = source

Refreshed(c) ==
    /\ c \in DOMAIN request /\ request'[c].status = "PENDING"
    /\ request'[c].amount = Remaining(request[c].source) /\ Remaining(request[c].source) > 0
    /\ source' = source

Untouched(c) ==
    /\ c \in DOMAIN request /\ request'[c].amount = request[c].amount
    /\ request'[c].status = request[c].status /\ request'[c].txn = request[c].txn

Confirmed(c, h) ==
    /\ c \in DOMAIN request /\ request'[c].amount = request[c].amount
    /\ web[h].pc = "confirm" /\ web[h].code = c /\ request'[c].txn = web[h].t

RequestMoves ==
    \A c \in DOMAIN request' : \/ Drawn(c) \/ Refreshed(c) \/ Untouched(c)
                               \/ \E h \in Handlers : Confirmed(c, h)

(* Every step treats each request in one of these ways. *)
LEMMA RequestsMove ==
    ASSUME Operators = {}, IndInv, [Next]_vars
    PROVE  RequestMoves
  <1>1. CASE UNCHANGED request
    BY <1>1 DEF RequestMoves, Untouched
  <1>2. ASSUME NEW s \in Sources, NEW c \in Codes, RequestPayment(s, c)
        PROVE  RequestMoves
    <2>1. source' = source /\ Remaining(s) > 0
      BY <1>2 DEF RequestPayment, ledger
    <2>2. ASSUME NEW r, Put(c, r), r.amount = Remaining(s), r.status = "PENDING",
                 \/ c \notin DOMAIN request /\ r.source = s
                 \/ c \in DOMAIN request /\ request[c].source = s
          PROVE  RequestMoves
      <3>1. request'[c] = r /\ DOMAIN request' = DOMAIN request \cup {c}
        BY <2>2 DEF Put
      <3>2. \A x \in DOMAIN request' : x # c => x \in DOMAIN request /\ request'[x] = request[x]
        BY <2>2 DEF Put
      <3>3. Drawn(c) \/ Refreshed(c)
        BY <2>1, <2>2, <3>1 DEF Drawn, Refreshed
      <3> QED
        BY <3>2, <3>3 DEF RequestMoves, Untouched
    <2>3. CASE c \notin DOMAIN request /\ Put(c, Fresh(s, Remaining(s), None))
      <3> DEFINE r == Fresh(s, Remaining(s), None)
      <3>1. r.amount = Remaining(s) /\ r.status = "PENDING" /\ r.source = s
        BY DEF Fresh
      <3> HIDE DEF r
      <3>2. Put(c, r)
        BY <2>3 DEF r
      <3> QED
        BY <2>2, <2>3, <3>1, <3>2
    <2>4. CASE c \in Pending(s) /\ Put(c, [request[c] EXCEPT !.amount = Remaining(s)])
      <3> DEFINE r == [request[c] EXCEPT !.amount = Remaining(s)]
      <3>1. c \in DOMAIN request /\ request[c].source = s /\ request[c].status = "PENDING"
        BY <2>4 DEF Pending
      <3>2. r.amount = Remaining(s) /\ r.status = "PENDING"
        BY <3>1 DEF IndInv, TypeOK, RequestRow
      <3> HIDE DEF r
      <3>3. Put(c, r)
        BY <2>4 DEF r
      <3> QED
        BY <2>2, <3>1, <3>2, <3>3
    <2> QED
      BY <1>2, <2>3, <2>4 DEF RequestPayment
  <1>3. ASSUME NEW h \in Handlers, Confirm(h)
        PROVE  RequestMoves
    <2>1. UNCHANGED request \/ ConfirmRequest(web[h].t, web[h].code)
      BY <1>3 DEF Confirm
    <2>2. web[h].code \in DOMAIN request /\ web[h].pc = "confirm"
      BY <1>3 DEF Confirm, IndInv, WebInHand
    <2>3. ASSUME ConfirmRequest(web[h].t, web[h].code)
          PROVE  RequestMoves
      <3> DEFINE d == web[h].code
                 r == [request[d] EXCEPT !.status = "CONFIRMED", !.txn = web[h].t]
      <3>1. r.amount = request[d].amount /\ r.txn = web[h].t
        BY <2>2 DEF IndInv, TypeOK, RequestRow
      <3>2. request' = [request EXCEPT ![d] = r]
        BY <2>3 DEF ConfirmRequest
      <3>3. d \in DOMAIN request
        BY <2>2
      <3> HIDE DEF r
      <3>4. Confirmed(d, h)
        BY <2>2, <3>1, <3>2, <3>3 DEF Confirmed
      <3> HIDE DEF d
      <3>5. \A x \in DOMAIN request' : x # d => Untouched(x)
        BY <3>2 DEF Untouched
      <3> QED
        BY <3>4, <3>5 DEF RequestMoves
    <2> QED
      BY <1>1, <2>1, <2>3
  <1>4. ASSUME NEW t \in Transfers, NEW seen \in SUBSET log[t].payload,
               CompleteRefund(t, seen)
               \/ \E kind \in {"CREDIT", "REFUND"} : Resolve(t, kind, seen)
        PROVE  RequestMoves
    <2>1. request' = [request EXCEPT ![bank[t].memo].resolved = @ \cup {t}]
      BY <1>4 DEF CompleteRefund, Resolve, Remember
    <2>2. \A c \in DOMAIN request' : Untouched(c)
      BY <2>1 DEF Untouched, IndInv, TypeOK, RequestRow
    <2> QED
      BY <2>2 DEF RequestMoves
  <1> QED
    BY <1>1, <1>2, <1>3, <1>4, RequestWriters

(* A handler that books takes all that is left, and has it. *)
LEMMA BooksAll ==
    ASSUME IndInv, HookInv, MoneyInv, NEW h \in Handlers, Books(h)
    PROVE  \E b : /\ bookings' = bookings \cup {b} /\ b.t \in Transfers /\ b.source \in Sources
                  /\ Names(b.t, b.source)
                  /\ b.amount = Remaining(b.source) /\ b.amount \in Nat /\ 0 < b.amount
                  /\ b.amount <= bank[b.t].amount /\ b.amount <= Asked(b.t).amount
                  /\ Fund(b.source, b.amount)
  <1>1. PICK b : /\ bookings' = bookings \cup {b}
                 /\ b.t = web[h].t /\ b.source = request[web[h].code].source
                 /\ b.amount \in Nat /\ 0 < b.amount /\ b.amount <= Remaining(b.source)
                 /\ b.source \in Invoices => b.amount = web[h].sum
                 /\ b.source \in Deposits => b.amount = Remaining(b.source)
                 /\ Book(b.t, b.source, b.amount)
    BY BooksRow
  <1>2. web[h].pc = "pay" /\ web[h].t \in Transfers /\ web[h].code \in DOMAIN request
    BY DEF Books, IndInv, WebInHand
  <1>3. b.t \in Transfers /\ b.source \in Sources
    BY <1>1, <1>2 DEF IndInv, TypeOK, RequestRow
  <1>4. web[h].code = bank[b.t].memo
    BY <1>1, <1>2 DEF HookInv, Knows, Busy
  <1>5. /\ Remaining(b.source) <= bank[b.t].amount
        /\ b.source \in Invoices => Remaining(b.source) <= b.amount
    BY <1>1, <1>2 DEF MoneyInv, Affords
  <1>6. Remaining(b.source) \in Nat
    BY <1>3, RemainingIs DEF IndInv
  <1>7. b.amount = Remaining(b.source)
    BY <1>1, <1>3, <1>5, <1>6 DEF Sources
  <1>8. Names(b.t, b.source)
    BY <1>1, <1>2, <1>4 DEF Names
  <1>9. b.amount <= Asked(b.t).amount
    BY <1>7, <1>8 DEF MoneyInv, Covered, Asked, Names
  <1>10. Fund(b.source, b.amount)
    BY <1>1 DEF Book
  <1> QED
    BY <1>1, <1>3, <1>5, <1>7, <1>8, <1>9, <1>10

(* What all of the steps below rest on. *)
LEMMA MoneyStep ==
    ASSUME Operators = {}, Repriced = {}, IndInv, HookInv, MoneyInv, [Next]_vars
    PROVE  /\ bank' = bank /\ KeepsRequests /\ RequestMoves /\ bookings \subseteq bookings'
           /\ \A x \in Sources : Remaining(x)' <= Remaining(x)
           /\ \A x \in Sources : Remaining(x) \in Nat /\ Remaining(x)' \in Nat
           /\ \A c \in DOMAIN request : request[c] \in RequestRow
           /\ \A c \in DOMAIN request' : request'[c] \in RequestRow
  <1>1. IndInv'
    BY StepInv
  <1>2. \A x \in Sources : Remaining(x) \in Nat
    BY RemainingIs DEF IndInv
  <1>3. \A x \in Sources : source'[x].amount - source'[x].paid \in Int
    BY <1>1 DEF IndInv, TypeOK, SourceRow
  <1>4. \A x \in Sources : Remaining(x)' \in Nat
    BY <1>3, MaxOfTwo DEF Remaining
  <1> QED
    BY <1>1, <1>2, <1>4, BankStays, RequestsKept, RequestsMove, BookingsStay, RemainingFalls
    DEF IndInv, TypeOK

(* The request of a booked or credited transfer asks for no more than it   *)
(* did, and for the same once its source is spent.                         *)
LEMMA AskedFalls ==
    ASSUME Operators = {}, Repriced = {}, IndInv, HookInv, MoneyInv, [Next]_vars,
           NEW c \in DOMAIN request
    PROVE  /\ request'[c].amount \in Nat /\ request[c].amount \in Nat
           /\ request'[c].amount <= request[c].amount
           /\ Remaining(request[c].source) = 0 => request'[c].amount = request[c].amount
  <1>1. c \in DOMAIN request' /\ request[c].source \in Sources
    BY MoneyStep DEF KeepsRequests, RequestRow
  <1>2. request'[c].amount \in Nat /\ request[c].amount \in Nat
    BY <1>1, MoneyStep DEF RequestRow
  <1>3. CASE request'[c].amount = request[c].amount
    BY <1>2, <1>3
  <1>4. CASE Refreshed(c)
    BY <1>1, <1>2, <1>4 DEF Refreshed, MoneyInv, Covered
  <1>5. Refreshed(c) \/ request'[c].amount = request[c].amount
    BY <1>1, MoneyStep DEF RequestMoves, Drawn, Untouched, Confirmed
  <1> QED
    BY <1>3, <1>4, <1>5

(* A request is drawn or refreshed for the balance, which only falls. *)
LEMMA CoveredKept ==
    ASSUME Operators = {}, Repriced = {}, IndInv, HookInv, MoneyInv, [Next]_vars
    PROVE  Covered'
  <1> SUFFICES ASSUME NEW c \in DOMAIN request'
               PROVE  (Remaining(request[c].source) <= request[c].amount)'
    BY DEF Covered
  <1>1. PICK s \in Sources : s = request'[c].source
    BY MoneyStep DEF RequestRow
  <1>2. Remaining(s)' <= Remaining(s) /\ Remaining(s) \in Nat /\ Remaining(s)' \in Nat
    BY MoneyStep
  <1>3. Remaining(s)' <= request'[c].amount
    <2>1. CASE Drawn(c)
      BY <1>1, <1>2, <2>1 DEF Drawn
    <2>2. CASE Refreshed(c)
      <3>1. request[c].source = s
        BY <1>1, <2>2, MoneyStep DEF Refreshed, KeepsRequests
      <3> QED
        BY <1>2, <2>2, <3>1 DEF Refreshed
    <2>3. CASE c \in DOMAIN request /\ request'[c].amount = request[c].amount
      <3>1. request[c].source = s /\ request[c].amount \in Nat
        BY <1>1, <2>3, MoneyStep DEF KeepsRequests, RequestRow
      <3>2. Remaining(s) <= request[c].amount
        BY <2>3, <3>1 DEF MoneyInv, Covered
      <3> QED
        BY <1>2, <2>3, <3>1, <3>2
    <2> QED
      BY <2>1, <2>2, <2>3, MoneyStep DEF RequestMoves, Untouched, Confirmed
  <1> QED
    BY <1>1, <1>3 DEF Remaining

(* A handler matched a transfer that covers the request, and so the        *)
(* balance.                                                                *)
LEMMA AffordsKept ==
    ASSUME Operators = {}, Repriced = {}, IndInv, HookInv, MoneyInv, [Next]_vars,
           NEW h \in Handlers
    PROVE  Affords(h)'
  <1>1. CASE web'[h].pc \notin {"fund", "pay"}
    BY <1>1 DEF Affords
  <1>2. CASE Matched(h)
    <2>1. PICK c : /\ c = bank[web[h].t].memo /\ c \in DOMAIN request
                   /\ web'[h].t = web[h].t /\ web'[h].code = c
                   /\ web'[h].sum = request[c].amount
                   /\ request[c].amount <= bank[web[h].t].amount
      BY <1>2 DEF Matched, Matches
    <2>2. PICK s \in Sources : s = request[c].source /\ request'[c].source = s
      BY <2>1, MoneyStep DEF KeepsRequests, RequestRow
    <2>3. request[c].amount \in Nat /\ Remaining(s) <= request[c].amount
      BY <2>1, <2>2, MoneyStep DEF MoneyInv, Covered, RequestRow
    <2>4. bank[web[h].t].amount \in Nat
      <3>1. web[h].pc # "idle"
        BY <1>2 DEF Matched
      <3> QED
        BY <3>1, SePayAssumption DEF IndInv, TypeOK, WebInHand
    <2>5. Remaining(s)' <= request[c].amount /\ Remaining(s)' <= bank[web[h].t].amount
      BY <2>1, <2>2, <2>3, <2>4, MoneyStep
    <2> QED
      BY <2>1, <2>2, <2>5, MoneyStep DEF Affords, Remaining
  <1>3. ASSUME web[h].pc \in {"fund", "pay"}, web'[h].t = web[h].t, web'[h].code = web[h].code,
               \/ web'[h].pc = web[h].pc /\ web'[h].sum = web[h].sum
               \/ /\ web[h].pc = "fund" /\ web'[h].pc = "pay"
                  /\ web'[h].sum = Applicable(web[h].t, request[web[h].code].source, web[h].sum)
        PROVE  Affords(h)'
    <2>1. PICK t \in Transfers, c \in DOMAIN request, n \in Nat :
             t = web[h].t /\ c = web[h].code /\ n = web[h].sum
      BY <1>3 DEF IndInv, WebInHand, TypeOK, WebRow
    <2>2. PICK s \in Sources : s = request[c].source /\ request'[c].source = s
      BY <2>1, MoneyStep DEF KeepsRequests, RequestRow
    <2>3. /\ Remaining(s) <= bank[t].amount
          /\ web[h].pc = "fund" \/ s \in Invoices => Remaining(s) <= n
      BY <1>3, <2>1, <2>2 DEF MoneyInv, Affords
    <2>4. /\ Remaining(s) \in Nat /\ Remaining(s)' \in Nat /\ Remaining(s)' <= Remaining(s)
          /\ bank[t].amount \in Nat
      BY MoneyStep, SePayAssumption DEF IndInv, TypeOK
    <2>5. Remaining(s)' <= bank[t].amount
      BY <2>3, <2>4
    <2>6. web'[h].pc = "fund" \/ s \in Invoices => Remaining(s)' <= web'[h].sum
      <3>1. CASE web'[h].pc = web[h].pc /\ web'[h].sum = web[h].sum
        BY <2>1, <2>3, <2>4, <3>1
      <3>2. CASE /\ web[h].pc = "fund" /\ web'[h].pc = "pay"
                 /\ web'[h].sum = Applicable(t, s, n)
        <4>1. Min({bank[t].amount, Remaining(s), n}) \in {bank[t].amount, Remaining(s), n}
          BY <2>1, <2>4, MinOfThree
        <4>2. Remaining(s) <= Min({bank[t].amount, Remaining(s), n})
          BY <2>3, <2>4, <3>2, <4>1
        <4>3. Min({bank[t].amount, Remaining(s), n}) \in Nat
          BY <2>1, <2>4, MinOfThree
        <4>4. s \in Invoices => web'[h].sum = Min({bank[t].amount, Remaining(s), n})
          BY <3>2 DEF Applicable
        <4> QED
          BY <2>4, <3>2, <4>2, <4>3, <4>4
      <3> QED
        BY <1>3, <2>1, <2>2, <3>1, <3>2
    <2> QED
      BY <1>3, <2>1, <2>2, <2>5, <2>6, MoneyStep DEF Affords, Remaining
  <1>4. web[h].pc \in {"fund", "pay"} /\ web'[h] = web[h] => Affords(h)'
    BY <1>3
  <1>5. CASE ReadsSource(h)
    BY <1>1, <1>3, <1>5 DEF ReadsSource, MovesOn
  <1>6. CASE BooksOrFinds(h) \/ Confirms(h)
    BY <1>1, <1>6 DEF BooksOrFinds, Confirms, MovesOn
  <1>7. CASE web'[h].pc \notin Busy
    BY <1>1, <1>7 DEF Busy
  <1> QED
    BY <1>1, <1>2, <1>4, <1>5, <1>6, <1>7, WebKinds

(* What is booked stays within what was asked, and its source is spent. *)
LEMMA SpentKept ==
    ASSUME Operators = {}, Repriced = {}, IndInv, HookInv, MoneyInv, [Next]_vars
    PROVE  Spent' /\ OnePerSource'
  <1>0. bank' = bank /\ IndInv'
    BY MoneyStep, StepInv
  <1>1. ASSUME NEW b \in bookings
        PROVE  /\ Remaining(b.source)' = 0 /\ b.source \in Sources
               /\ b.amount <= Asked(b.t)'.amount /\ b.amount <= bank'[b.t].amount
    <2>1. /\ Remaining(b.source) = 0
          /\ b.amount <= Asked(b.t).amount /\ b.amount <= bank[b.t].amount
      BY DEF MoneyInv, Spent
    <2>2. b.source \in Sources /\ b.t \in Transfers
      BY DEF IndInv, TypeOK, BookingRow
    <2>3. PICK c \in DOMAIN request : c = bank[b.t].memo /\ request[c].source = b.source
      BY DEF HookInv, ByMemo, Names
    <2>4. request'[c].amount = request[c].amount
      BY <2>1, <2>3, AskedFalls
    <2>5. Remaining(b.source)' = 0
      BY <2>1, <2>2, MoneyStep
    <2> QED
      BY <1>0, <2>1, <2>2, <2>3, <2>4, <2>5 DEF Asked
  <1>2. CASE bookings' = bookings
    BY <1>1, <1>2 DEF Spent, OnePerSource, MoneyInv
  <1>3. ASSUME NEW h \in Handlers, Books(h)
        PROVE  Spent' /\ OnePerSource'
    <2>1. PICK b : /\ bookings' = bookings \cup {b} /\ b.t \in Transfers /\ b.source \in Sources
                   /\ Names(b.t, b.source)
                   /\ b.amount = Remaining(b.source) /\ b.amount \in Nat /\ 0 < b.amount
                   /\ b.amount <= bank[b.t].amount /\ b.amount <= Asked(b.t).amount
                   /\ Fund(b.source, b.amount)
      BY <1>3, BooksAll
    <2>2. Remaining(b.source)' = Remaining(b.source) - b.amount
      <3>1. b.amount <= Remaining(b.source)
        BY <2>1
      <3> QED
        BY <1>0, <2>1, <3>1, FundLowers DEF IndInv
    <2>3. Remaining(b.source)' = 0
      BY <2>1, <2>2
    <2>5. request' = request
      <3>1. b \notin bookings
        BY <1>1, <2>1 DEF MoneyInv, Spent
      <3>2. bookings' # bookings
        BY <2>1, <3>1
      <3> QED
        BY <3>2, LedgerWriters
        DEF ledger, CloseSource, PayCash, Reprice, BookTransfer
    <2>6. b.amount <= Asked(b.t)'.amount /\ b.amount <= bank'[b.t].amount
      BY <1>0, <2>1, <2>5 DEF Asked
    <2>7. \A c \in bookings : c.source # b.source
      BY <2>1 DEF MoneyInv, Spent
    <2>8. Spent'
      BY <1>1, <2>1, <2>3, <2>6 DEF Spent
    <2>9. OnePerSource'
      BY <2>1, <2>7 DEF OnePerSource, MoneyInv
    <2> QED
      BY <2>8, <2>9
  <1> QED
    BY <1>2, <1>3, BookingKinds

(* A request is confirmed by a handler that has booked. *)
LEMMA ConfirmedBookedKept ==
    ASSUME Operators = {}, Repriced = {}, IndInv, HookInv, MoneyInv, [Next]_vars
    PROVE  ConfirmedBooked'
  <1> SUFFICES ASSUME NEW c \in DOMAIN request', request'[c].status = "CONFIRMED"
               PROVE  \E b \in bookings' : b.t = request'[c].txn /\ b.source = request'[c].source
    BY DEF ConfirmedBooked
  <1>1. bookings \subseteq bookings' /\ KeepsRequests /\ bank' = bank
    BY MoneyStep
  <1>2. CASE Untouched(c)
    <2>1. \E b \in bookings : b.t = request[c].txn /\ b.source = request[c].source
      BY <1>2 DEF Untouched, MoneyInv, ConfirmedBooked
    <2> QED
      BY <1>1, <1>2, <2>1 DEF Untouched, KeepsRequests
  <1>3. ASSUME NEW h \in Handlers, Confirmed(c, h)
        PROVE  \E b \in bookings' : b.t = request'[c].txn /\ b.source = request'[c].source
    <2>1. \E b \in bookings : b.t = web[h].t /\ b.source = request[web[h].code].source
      BY <1>3 DEF Confirmed, HookInv, Knows, Busy
    <2> QED
      BY <1>1, <1>3, <2>1 DEF Confirmed, KeepsRequests
  <1> QED
    BY <1>2, <1>3, MoneyStep DEF RequestMoves, Drawn, Refreshed

(* What was given back stays within what nobody booked. *)
LEMMA CreditWithinKept ==
    ASSUME Operators = {}, Repriced = {}, IndInv, HookInv, MoneyInv, [Next]_vars
    PROVE  CreditWithin'
  <1> DEFINE Within(t, n) ==
               \/ n <= bank[t].amount - Asked(t).amount
               \/ n = bank[t].amount /\ \E b \in bookings : b.t # t /\ b.source = Asked(t).source
  <1>1. bookings \subseteq bookings' /\ KeepsRequests /\ bank' = bank
    BY MoneyStep
  <1>2. ASSUME NEW t \in Transfers, bank[t].memo \in DOMAIN request, NEW n \in Nat, Within(t, n)
        PROVE  Within(t, n)'
    <2>1. PICK c \in DOMAIN request : c = bank[t].memo
      BY <1>2
    <2>2. /\ request'[c].source = request[c].source
          /\ request'[c].amount \in Nat /\ request[c].amount \in Nat
          /\ request'[c].amount <= request[c].amount /\ bank[t].amount \in Nat
      BY <1>1, AskedFalls, SePayAssumption DEF KeepsRequests, IndInv, TypeOK
    <2>3. n <= bank[t].amount - request[c].amount => n <= bank[t].amount - request'[c].amount
      BY <2>2
    <2> QED
      BY <1>1, <1>2, <2>1, <2>2, <2>3 DEF Asked
  <1>3. ASSUME NEW c \in credits
        PROVE  Within(c.t, c.amount) /\ Within(c.t, c.amount)'
    <2>1. c.t \in Transfers /\ c.amount \in Nat /\ bank[c.t].memo \in DOMAIN request
      BY DEF IndInv, TypeOK, CreditRow, HookInv, Marked
    <2>2. Within(c.t, c.amount)
      BY DEF MoneyInv, CreditWithin
    <2> QED
      BY <1>2, <2>1, <2>2
  <1>4. ASSUME NEW t \in Transfers, NEW seen, NEW kind \in {"CREDIT", "REFUND"},
               Resolve(t, kind, seen)
        PROVE  \E n : n = Excess(t, request[bank[t].memo]) /\ Within(t, n)'
    <2>1. bank[t].memo \in DOMAIN request /\ Excess(t, request[bank[t].memo]) > 0
      BY <1>4 DEF Resolve
    <2>2. Excess(t, request[bank[t].memo]) \in Nat
      BY <2>1, MoneyStep, SePayAssumption DEF Excess, IndInv, TypeOK, RequestRow
    <2>3. Within(t, Excess(t, request[bank[t].memo]))
      <3>1. CASE Asked(t).status = "CONFIRMED" /\ Asked(t).txn # t
        BY <2>1, <3>1 DEF Asked, Excess, MoneyInv, ConfirmedBooked
      <3>2. CASE ~(Asked(t).status = "CONFIRMED" /\ Asked(t).txn # t)
        <4>1. Excess(t, request[bank[t].memo]) = bank[t].amount - Asked(t).amount
          BY <3>2 DEF Asked, Excess
        <4> QED
          BY <2>2, <4>1
      <3> QED
        BY <3>1, <3>2
    <2> HIDE DEF Within
    <2>4. PICK n \in Nat : n = Excess(t, request[bank[t].memo]) /\ Within(t, n)'
      BY <1>2, <2>1, <2>2, <2>3
    <2> QED
      BY <2>4
  <1>5. CASE UNCHANGED credits
    BY <1>3, <1>5 DEF CreditWithin
  <1>6. ASSUME NEW t \in Transfers, NEW seen, CompleteRefund(t, seen)
        PROVE  CreditWithin'
    <2>1. PICK c \in credits : \E d : /\ credits' = (credits \ {c}) \cup {d}
                                      /\ d.t = c.t /\ d.amount = c.amount
      BY <1>6, RefundRow
    <2>2. PICK d : /\ credits' = (credits \ {c}) \cup {d}
                   /\ d.t = c.t /\ d.amount = c.amount
      BY <2>1
    <2>3. Within(d.t, d.amount)'
      BY <1>3, <2>2
    <2> QED
      BY <1>3, <2>2, <2>3 DEF CreditWithin
  <1>7. ASSUME NEW t \in Transfers, NEW seen, NEW kind \in {"CREDIT", "REFUND"},
               Resolve(t, kind, seen)
        PROVE  CreditWithin'
    <2>1. PICK c : /\ credits' = credits \cup {c} /\ c.t = t
                   /\ c.amount = Excess(t, request[bank[t].memo])
      BY <1>7, ResolveRow
    <2>2. Within(c.t, c.amount)'
      BY <1>4, <1>7, <2>1
    <2> QED
      BY <1>3, <2>1, <2>2 DEF CreditWithin
  <1> QED
    BY <1>5, <1>6, <1>7, CreditKinds

(* A transfer has one booking and one credit at most, and they share it. *)
LEMMA NothingInvented ==
    ASSUME IndInv, HookInv, MoneyInv
    PROVE  MoneyNotInvented
  <1> SUFFICES ASSUME NEW t \in Transfers
               PROVE  Booked(t, Sources) + Credited(t) <= bank[t].amount
    BY DEF MoneyNotInvented
  <1> DEFINE B == BookingsOf(t, Sources)
             C == CreditsOf(t)
  <1>1. bank[t].amount \in Nat
    BY SePayAssumption DEF IndInv, TypeOK
  <1>2. \A b \in B : /\ b \in bookings /\ b.t = t /\ b.amount \in Nat
                     /\ b.source = Asked(t).source
                     /\ b.amount <= Asked(t).amount /\ b.amount <= bank[t].amount
                     /\ Asked(t).amount \in Nat
    BY DEF BookingsOf, IndInv, TypeOK, BookingRow, RequestRow, HookInv, ByMemo, Names, Asked,
           MoneyInv, Spent
  <1>3. \A c \in C : /\ c \in credits /\ c.t = t /\ c.amount \in Nat
                     /\ Asked(t).amount \in Nat
                     /\ \/ c.amount <= bank[t].amount - Asked(t).amount
                        \/ /\ c.amount = bank[t].amount
                           /\ \E b \in bookings : b.t # t /\ b.source = Asked(t).source
    BY DEF CreditsOf, IndInv, TypeOK, CreditRow, RequestRow, HookInv, Marked, Asked,
           MoneyInv, CreditWithin
  <1>4. B = {} \/ \E b : B = {b}
    <2>1. \A b, c \in B : b = c
      BY <1>2 DEF MoneyInv, OnePerSource
    <2> HIDE DEF B
    <2> QED
      BY <2>1, AtMostOne
  <1>5. C = {} \/ \E c : C = {c}
    <2>1. \A b, c \in C : b = c
      BY DEF CreditsOf, HookInv, OneCredit
    <2> HIDE DEF C
    <2> QED
      BY <2>1, AtMostOne
  <1> HIDE DEF B, C
  <1>6. SumFunction([b \in {} |-> b.amount]) = 0
    <2>1. PICK f : f = [b \in {} |-> b.amount]
      OBVIOUS
    <2> QED
      BY <2>1, SumEmpty DEF Sum, SumFunction
  <1>7. \/ B = {} /\ Booked(t, Sources) = 0
        \/ \E b : B = {b} /\ Booked(t, Sources) = b.amount
    <2>1. Booked(t, Sources) = SumFunction([x \in B |-> x.amount])
      BY DEF Booked, B
    <2>2. CASE B = {}
      BY <1>6, <2>1, <2>2
    <2>3. ASSUME NEW b, B = {b}
          PROVE  Booked(t, Sources) = b.amount
      <3>1. b.amount \in Int
        BY <1>2, <2>3
      <3>2. SumFunction([x \in {b} |-> x.amount]) = b.amount
        BY <3>1, SumOfOne
      <3> QED
        BY <2>1, <2>3, <3>2
    <2> QED
      BY <1>4, <2>2, <2>3
  <1>8. \/ C = {} /\ Credited(t) = 0
        \/ \E c : C = {c} /\ Credited(t) = c.amount
    <2>1. Credited(t) = SumFunction([x \in C |-> x.amount])
      BY DEF Credited, C
    <2>2. CASE C = {}
      BY <1>6, <2>1, <2>2
    <2>3. ASSUME NEW c, C = {c}
          PROVE  Credited(t) = c.amount
      <3>1. c.amount \in Int
        BY <1>3, <2>3
      <3>2. SumFunction([x \in {c} |-> x.amount]) = c.amount
        BY <3>1, SumOfOne
      <3> QED
        BY <2>1, <2>3, <3>2
    <2> QED
      BY <1>5, <2>2, <2>3
  <1>9. CASE B = {} /\ Booked(t, Sources) = 0
    BY <1>1, <1>3, <1>8, <1>9
  <1>10. ASSUME NEW b, B = {b}, Booked(t, Sources) = b.amount
         PROVE  Booked(t, Sources) + Credited(t) <= bank[t].amount
    <2>1. CASE Credited(t) = 0
      BY <1>1, <1>2, <1>10, <2>1
    <2>2. ASSUME NEW c, C = {c}, Credited(t) = c.amount
          PROVE  Booked(t, Sources) + Credited(t) <= bank[t].amount
      <3>1. c.amount <= bank[t].amount - Asked(t).amount
        BY <1>2, <1>3, <1>10, <2>2 DEF MoneyInv, OnePerSource
      <3> QED
        BY <1>1, <1>2, <1>3, <1>10, <2>2, <3>1
    <2> QED
      BY <1>8, <2>1, <2>2
  <1> QED
    BY <1>7, <1>9, <1>10

(* Nothing is asked for, booked or given back at first. *)
LEMMA InitMoney ==
    ASSUME Init
    PROVE  MoneyInv
  BY DEF Init, MoneyInv, Covered, Spent, OnePerSource, ConfirmedBooked, CreditWithin, Affords,
         Free

(* The invariant of the money, without an operator and without new prices. *)
THEOREM MoneyInvariant ==
    Operators = {} /\ Repriced = {} => (Safety => [](IndInv /\ HookInv /\ MoneyInv))
  <1> SUFFICES ASSUME Operators = {}, Repriced = {}
               PROVE  Safety => [](IndInv /\ HookInv /\ MoneyInv)
    OBVIOUS
  <1>1. Init => MoneyInv
    BY InitMoney
  <1>2. IndInv /\ HookInv /\ MoneyInv /\ [Next]_vars => MoneyInv'
    <2> SUFFICES ASSUME IndInv, HookInv, MoneyInv, [Next]_vars PROVE MoneyInv'
      OBVIOUS
    <2>1. \A h \in Handlers : Affords(h)'
      BY AffordsKept
    <2> QED
      BY <2>1, CoveredKept, SpentKept, ConfirmedBookedKept, CreditWithinKept DEF MoneyInv
  <1>3. Safety => [](IndInv /\ HookInv)
    BY HookInvariant
  <1> QED
    BY <1>1, <1>2, <1>3, PTL DEF Safety

(* What one transfer brings to the books, booked and given back together,  *)
(* is not more than what the bank received, however often the webhook is   *)
(* delivered, handled by several processes at once, or dies on the way.    *)
THEOREM TransferNotInvented ==
    Operators = {} /\ Repriced = {} => (Safety => []MoneyNotInvented)
  <1> SUFFICES ASSUME Operators = {}, Repriced = {} PROVE Safety => []MoneyNotInvented
    OBVIOUS
  <1>1. IndInv /\ HookInv /\ MoneyInv => MoneyNotInvented
    BY NothingInvented
  <1> QED
    BY <1>1, MoneyInvariant, PTL
=============================================================================
