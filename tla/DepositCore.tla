---------------------------- MODULE DepositCore ----------------------------
(***************************************************************************)
(* The deposit command core of the API (DepositCoreService): booking and   *)
(* security deposits, their append-only ledger, the room holds and the     *)
(* outbox rows of each command.                                            *)
(*                                                                         *)
(* Every command is one SERIALIZABLE transaction (runSerializable) and one *)
(* action here.  Its idempotency key names the DepositOperation it writes: *)
(* a key is used by one committed command, and a replay of a committed key *)
(* only returns or refuses, so it is a stuttering step.  The sweep of      *)
(* expired holds runs at the default isolation level and takes two steps.  *)
(*                                                                         *)
(* A ledger row is never changed, and a command writes at most one row of  *)
(* a type; rows of an operation are kept with it, as one amount per type,  *)
(* and balance[d] is the sum of balanceEffect the code aggregates.         *)
(***************************************************************************)
EXTENDS DepositPolicy, FiniteSetsExt

CONSTANTS
    Deposits, Cycles, Rooms, Holds,  \* identifiers of rows to come
    Keys,            \* idempotency keys clients will use
    Amounts,         \* deposit amounts clients ask for and pay
    Shares,          \* parts of a balance a cancellation may name
    Whole,           \* rooms let as a whole; the others by the slot
    Slots,           \* free places of a room: 1 for a whole one
    Expiries,        \* hold expiry times clients ask for
    MaxTime,         \* the clock stops here
    Horizon,         \* how far ahead of the clock a sweep may look
    CreateStatuses   \* statuses a new deposit may be given

ASSUME CoreAssumption ==
    \* identifiers and keys are strings of bounded length
    /\ IsFiniteSet(Deposits) /\ IsFiniteSet(Holds) /\ IsFiniteSet(Keys)
    /\ Amounts \subseteq Nat \ {0}
    /\ Shares \subseteq Nat
    /\ Whole \subseteq Rooms
    /\ Slots \in [Rooms -> Nat \ {0}]
    /\ \A r \in Whole : Slots[r] = 1
    /\ Expiries \subseteq Nat
    /\ MaxTime \in Nat /\ Horizon \in Nat
    /\ CreateStatuses \subseteq {"DRAFT", "PENDING", "PAID"}

VARIABLES
    now,         \* the database clock
    deposit,     \* Deposit table, with the billing stage of a booking hold
    cycle,       \* RentalCycle table, with the status of its booking contract
    roomStatus,  \* Room.status
    hold,        \* RoomHold table
    op,          \* DepositOperation table by idempotency key
    balance,     \* sum of the balance effects of a deposit's ledger rows
    outbox,      \* OutboxEvent rows written
    sweep        \* the running expireHolds, as a set of at most one

vars == <<now, deposit, cycle, roomStatus, hold, op, balance, outbox, sweep>>

-----------------------------------------------------------------------------
(* The tables.  A row exists when its identifier is in the domain. *)

IsTable(table, Id, Row) == DOMAIN table \subseteq Id /\ table \in [DOMAIN table -> Row]

Empty == [x \in {} |-> {}]

Put(table, id, row) ==
    [x \in DOMAIN table \cup {id} |-> IF x = id THEN row ELSE table[x]]

(* billing: "NONE" for a legacy deposit, "MARKED" for a booking hold whose *)
(* contract has the booking marker but no invoice yet, "INVOICED" after.   *)
DepositRow == [type: {"BOOKING", "SECURITY"},
               status: {"DRAFT", "PENDING", "PAID", "CONVERTED_TO_CONTRACT", "CANCELLED"},
               amount: Nat, cycle: Cycles,
               billing: {"NONE", "MARKED", "INVOICED"}, invoicePaid: Nat]

CycleRow == [status: {"PLANNED", "RESERVED", "CANCELLED"}, room: Rooms,
             contract: {"NONE", "DRAFT", "CANCELLED"}]

HoldRow == [status: {"ACTIVE", "EXPIRED", "RELEASED", "CANCELLED"},
            cycle: Cycles, deposit: Deposits, room: Rooms, expiresAt: Nat]

RowTypes == {"CASH_IN", "TRANSFER", "CREDIT", "REFUND", "KEEP", "DEDUCT"}

OperationRow ==
    [type: {"CREATE", "COLLECT", "CONVERT_TO_SECURITY", "CANCEL", "COMPLETE_REFUND",
            "REVERSE_LEDGER", "RENEW_HOLD", "TRANSFER_HOLD", "RELEASE_HOLD"},
     status: {"PENDING", "COMPLETED"},
     source: Deposits, target: Deposits,
     rows: [RowTypes -> Int],
     due: Nat,                          \* amount of its pending receipt
     reverses: SUBSET Keys]

(* What the row is about, the event, and the type of a single ledger row. *)
OutboxRow ==
    [about: Keys \cup Holds \cup Deposits,
     event: {"deposit.created", "deposit.collected", "deposit.converted_to_security",
             "deposit.cancelled", "deposit.refund_requested", "deposit.refunded",
             "deposit.deducted", "deposit.booking_disposition", "deposit.ledger.reversed",
             "deposit.hold.expired", "invoice.booking_hold.cancelled"},
     row: {"", "KEEP", "DEDUCT", "REFUND"}]

TypeOK ==
    /\ now \in 0 .. MaxTime
    /\ IsTable(deposit, Deposits, DepositRow)
    /\ IsTable(cycle, Cycles, CycleRow)
    /\ roomStatus \in [Rooms -> {"AVAILABLE", "RESERVED"}]
    /\ IsTable(hold, Holds, HoldRow)
    /\ IsTable(op, Keys, OperationRow)
    /\ \A k \in DOMAIN op : op[k].type # "REVERSE_LEDGER" => op[k].rows \in [RowTypes -> Nat]
    /\ balance \in [Deposits -> Int]
    /\ outbox \subseteq OutboxRow
    /\ sweep \subseteq [asOf: Nat, found: SUBSET Holds]

Init ==
    /\ now = 0
    /\ deposit = Empty /\ cycle = Empty /\ hold = Empty /\ op = Empty
    /\ roomStatus = [r \in Rooms |-> "AVAILABLE"]
    /\ balance = [d \in Deposits |-> 0]
    /\ outbox = {} /\ sweep = {}

-----------------------------------------------------------------------------
(* Operations and their ledger rows. *)

NoRows == [t \in RowTypes |-> 0]

Operation(type, d) ==
    [type |-> type, status |-> "COMPLETED", source |-> d, target |-> d,
     rows |-> NoRows, due |-> 0, reverses |-> {}]

\* Mutant: a deducted amount does not reduce the balance.
PaidWithoutDeduct(o) == o.rows["CREDIT"] + o.rows["REFUND"] + o.rows["KEEP"]

(* What the rows of an operation paid out of its source. *)
Paid(o) == o.rows["CREDIT"] + o.rows["REFUND"] + o.rows["KEEP"] + o.rows["DEDUCT"]

(* What the rows of operation o add to the balance of deposit d. *)
Effect(o, d) ==
    (IF d = o.source THEN o.rows["CASH_IN"] - o.rows["TRANSFER"] - Paid(o) ELSE 0)
  + (IF d = o.target THEN o.rows["TRANSFER"] ELSE 0)

Fresh(k) == k \in Keys \ DOMAIN op

Post(o) == balance' = [d \in Deposits |-> balance[d] + Effect(o, d)]

Write(k, o) == op' = Put(op, k, o) /\ Post(o)

Event(id, name) == [about |-> id, event |-> name, row |-> ""]
Disposition(k, rowType) ==
    [about |-> k, event |-> "deposit.booking_disposition", row |-> rowType]
Announce(events) == outbox' = outbox \cup events

-----------------------------------------------------------------------------
(* Room holds. *)

Active(h) == hold[h].status = "ACTIVE"
Live(h) == Active(h) /\ hold[h].expiresAt > now

\* Mutant: the status of the hold is not looked at.
LiveHoldsOfAnyStatus(d) ==
    {h \in DOMAIN hold : hold[h].expiresAt > now /\ hold[h].deposit = d}

LiveHolds(d) == {h \in DOMAIN hold : Live(h) /\ hold[h].deposit = d}

(* The hold table with the given holds closed. *)
Closed(S, status) ==
    [h \in DOMAIN hold |-> IF h \in S THEN [hold[h] EXCEPT !.status = status] ELSE hold[h]]

(* expireRoomHolds: the holds of the room that have run out. *)
Lapsed(r) == {h \in DOMAIN hold : Active(h) /\ hold[h].room = r /\ hold[h].expiresAt <= now}

\* Mutant: off by one.
HasPlaceOffByOne(r) ==
    Cardinality({h \in DOMAIN hold : Live(h) /\ hold[h].room = r}) <= Slots[r]

HasPlace(r) == Cardinality({h \in DOMAIN hold : Live(h) /\ hold[h].room = r}) < Slots[r]

(* The unique index on activeResourceKey: a whole room, or a slot of it *)
(* taken by one rental cycle.                                           *)
KeyFree(r, c, S) ==
    ~\E h \in DOMAIN hold \ S :
        Active(h) /\ hold[h].room = r /\ (r \in Whole \/ hold[h].cycle = c)

NewHold(d, c, r, until, S, status) ==
    /\ KeyFree(r, c, S)
    /\ until > now
    /\ \E h \in Holds \ DOMAIN hold :
        hold' = Put(Closed(S, status), h,
                    [status |-> "ACTIVE", cycle |-> c, deposit |-> d, room |-> r,
                     expiresAt |-> until])

(* ensureActiveHold: a live hold of the deposit is kept as it is. *)
EnsureActiveHold(d, c, r, until) ==
    \/ /\ LiveHolds(d) # {}
       /\ hold' = Closed(Lapsed(r), "EXPIRED")
    \/ /\ LiveHolds(d) = {}
       /\ HasPlace(r)
       /\ NewHold(d, c, r, until, Lapsed(r), "EXPIRED")

\* Mutant: a hold that has run out is overlooked.
HoldsOfLive(d) ==
    {h \in DOMAIN hold : Live(h) /\ hold[h].deposit = d /\ hold[h].cycle = deposit[d].cycle}

(* The active hold a deposit still has for its rental cycle, run out or not. *)
HoldsOf(d) ==
    {h \in DOMAIN hold : Active(h) /\ hold[h].deposit = d /\ hold[h].cycle = deposit[d].cycle}

Open(c) == cycle[c].status \in {"PLANNED", "RESERVED"}
RoomOf(d) == cycle[deposit[d].cycle].room

SetStatus(d, s) == deposit' = [deposit EXCEPT ![d].status = s]
Reserve(c) ==
    cycle' = IF Open(c) THEN [cycle EXCEPT ![c].status = "RESERVED"] ELSE cycle

-----------------------------------------------------------------------------
(* Creation. *)

AddDeposit(k, d, c, r, row, until) ==
    /\ Fresh(k)
    /\ d \in Deposits \ DOMAIN deposit
    /\ deposit' = Put(deposit, d, row)
    /\ IF row.type = "BOOKING"
       THEN /\ EnsureActiveHold(d, c, r, until)
            /\ roomStatus' = [roomStatus EXCEPT ![r] = "RESERVED"]
       ELSE UNCHANGED <<hold, roomStatus>>
    /\ Write(k, Operation("CREATE", d))
    /\ Announce({Event(k, "deposit.created")})
    /\ UNCHANGED <<now, sweep>>

NewDeposit(type, status, amount, c, billing) ==
    [type |-> type, status |-> status, amount |-> amount, cycle |-> c,
     billing |-> billing, invoicePaid |-> 0]

(* A deposit joins an open rental cycle of its customer and room, or opens *)
(* one.                                                                    *)
Create(k, d, c, r, type, status, amount, until) ==
    /\ IF c \in DOMAIN cycle
       THEN /\ Open(c) /\ cycle[c].room = r
            /\ UNCHANGED cycle
       ELSE cycle' = Put(cycle, c,
                [status |-> IF status = "PAID" THEN "RESERVED" ELSE "PLANNED",
                 room |-> r, contract |-> "NONE"])
    /\ AddDeposit(k, d, c, r, NewDeposit(type, status, amount, c, "NONE"), until)

(* createBookingHold, first transaction: cycle, draft contract carrying the *)
(* booking marker, and booking deposit.                                     *)
CreateBookingHold(k, d, c, r, amount, until) ==
    /\ c \notin DOMAIN cycle
    /\ cycle' = Put(cycle, c, [status |-> "PLANNED", room |-> r, contract |-> "DRAFT"])
    /\ AddDeposit(k, d, c, r, NewDeposit("BOOKING", "PENDING", amount, c, "MARKED"), until)

(* createBookingHold, last transaction: the invoice.  Cancellation or the *)
(* end of the hold may have come first.                                   *)
IssueBookingInvoice(d) ==
    LET c == deposit[d].cycle
    IN  /\ deposit[d].billing = "MARKED"
        /\ deposit[d].status \in {"PENDING", "PAID"}
        /\ \E h \in LiveHolds(d) : hold[h].cycle = c
        /\ Open(c) /\ cycle[c].contract = "DRAFT"
        /\ deposit' = [deposit EXCEPT ![d].billing = "INVOICED"]
        /\ UNCHANGED <<now, cycle, roomStatus, hold, op, balance, outbox, sweep>>

-----------------------------------------------------------------------------
(* Collection. *)

CashIn(k, d, amount) ==
    Write(k, [Operation("COLLECT", d) EXCEPT !.rows["CASH_IN"] = amount])

\* Mutant: the first instalment settles the deposit.
FundedStatusEarly(funds, amount) == IF funds > 0 THEN "PAID" ELSE "PENDING"

FundedStatus(funds, amount) == IF funds = amount THEN "PAID" ELSE "PENDING"

\* Mutant: the booking invoice is not looked for.
PaidDirectlyAlways(d) == deposit[d].status # "PAID"

(* A booking whose cycle has a booking invoice is paid through it only. *)
PaidDirectly(d) ==
    /\ deposit[d].billing = "NONE"
    /\ deposit[d].type = "BOOKING" =>
        \A x \in DOMAIN deposit :
            deposit[x].cycle = deposit[d].cycle => deposit[x].billing # "INVOICED"

(* A direct collection takes the whole missing amount.                     *)
Collect(k, d, until) ==
    LET row == deposit[d]
        missing == row.amount - balance[d]
    IN  /\ Fresh(k)
        /\ row.status \in {"DRAFT", "PENDING"}
        /\ missing > 0
        /\ PaidDirectly(d)
        /\ IF row.type = "BOOKING"
           THEN EnsureActiveHold(d, row.cycle, RoomOf(d), until)
           ELSE UNCHANGED hold
        /\ CashIn(k, d, missing)
        /\ SetStatus(d, "PAID")
        /\ Reserve(row.cycle)
        /\ Announce({Event(k, "deposit.collected")})
        /\ UNCHANGED <<now, roomStatus, sweep>>

(* A payment of the booking invoice and its collection are one transaction. *)
PayBookingInvoice(k, d, amount) ==
    LET row == deposit[d]
        total == row.invoicePaid + amount
    IN  /\ Fresh(k)
        /\ row.billing = "INVOICED" /\ row.status = "PENDING"
        /\ total <= row.amount
        /\ balance[d] = row.invoicePaid
        /\ cycle[row.cycle].contract = "DRAFT"
        /\ \E h \in LiveHolds(d) : hold[h].cycle = row.cycle /\ hold[h].room = RoomOf(d)
        /\ CashIn(k, d, amount)
        /\ deposit' = [deposit EXCEPT ![d] =
               [row EXCEPT !.invoicePaid = total, !.status = FundedStatus(total, row.amount)]]
        /\ Reserve(row.cycle)
        /\ Announce({Event(k, "deposit.collected")})
        /\ UNCHANGED <<now, roomStatus, hold, sweep>>

-----------------------------------------------------------------------------
(* Conversion of a booking into a security deposit. *)

(* resolveSecurityDeposit: a new deposit, or an unfunded one of the cycle. *)
IsTarget(d, s, required) ==
    IF s \in DOMAIN deposit
    THEN /\ deposit[s].type = "SECURITY"
         /\ deposit[s].cycle = deposit[d].cycle
         /\ deposit[s].amount = required
         /\ balance[s] = 0
    ELSE s \in Deposits

(* excess: what happens to money beyond the security deposit: CREDIT, or   *)
(* REFUND paid at once (COMPLETED) or later (PENDING).                     *)
Convert(k, d, s, required, excess, receipt) ==
    LET row == deposit[d]
        plan == ConversionPlan(balance[d], required)
        pending == plan.excess > 0 /\ excess = "REFUND" /\ receipt = "PENDING"
        rows == [NoRows EXCEPT
            !["TRANSFER"] = plan.transfer,
            !["CREDIT"] = IF excess = "CREDIT" THEN plan.excess ELSE 0,
            !["REFUND"] = IF excess = "REFUND" /\ ~pending THEN plan.excess ELSE 0]
        status == FundedStatus(required - plan.additional, required)
        target == IF s \in DOMAIN deposit THEN [deposit[s] EXCEPT !.status = status]
                  ELSE NewDeposit("SECURITY", status, required, row.cycle, "NONE")
    IN  /\ Fresh(k)
        /\ row.type = "BOOKING" /\ row.status = "PAID"
        /\ IsTarget(d, s, required)
        /\ Write(k, [Operation("CONVERT_TO_SECURITY", d) EXCEPT
                !.target = s, !.rows = rows,
                !.due = IF pending THEN plan.excess ELSE 0,
                !.status = IF pending THEN "PENDING" ELSE "COMPLETED"])
        /\ deposit' = Put([deposit EXCEPT ![d].status = "CONVERTED_TO_CONTRACT"], s, target)
        /\ hold' = [h \in DOMAIN hold |->
                       IF Active(h) /\ hold[h].cycle = row.cycle
                       THEN [hold[h] EXCEPT !.deposit = s] ELSE hold[h]]
        /\ Announce({Event(k, "deposit.converted_to_security")})
        /\ UNCHANGED <<now, cycle, roomStatus, sweep>>

-----------------------------------------------------------------------------
(* Cancellation. *)

Booked(d) == deposit[d].type = "BOOKING" /\ deposit[d].billing # "NONE"

(* Which amounts the code lets a cancellation dispose of.  An unfunded     *)
(* booking hold is closed with no amounts; everything else must be paid,   *)
(* or a booking hold whose invoice agrees with the ledger.                 *)
Cancellable(d, refund, keep, deduct) ==
    LET row == deposit[d]
    IN  /\ Booked(d) => row.billing = "INVOICED" /\ row.invoicePaid = balance[d]
        /\ row.status = "PAID" \/ (Booked(d) /\ row.status = "PENDING")
        /\ IF Booked(d) /\ row.status = "PENDING" /\ balance[d] = 0
           THEN refund = 0 /\ keep = 0 /\ deduct = 0
           ELSE CancellationPlan(balance[d], refund, keep, deduct)

\* Mutant: a deduction is not announced to the books.
CancellationEventsNoDeduct(k, d, refund, keep, deduct, pending) ==
    {Event(k, "deposit.cancelled")}
    \cup (IF keep > 0 THEN {Disposition(k, "KEEP")} ELSE {})
    \cup (IF refund > 0 /\ ~pending THEN {Disposition(k, "REFUND")} ELSE {})

CancellationEvents(k, d, refund, keep, deduct, pending) ==
    LET moved == [KEEP |-> keep, DEDUCT |-> deduct,
                  REFUND |-> IF pending THEN 0 ELSE refund]
    IN  {Event(k, IF refund = 0 THEN "deposit.cancelled"
                  ELSE IF pending THEN "deposit.refund_requested" ELSE "deposit.refunded")}
        \cup (IF deduct > 0 THEN {Event(k, "deposit.deducted")} ELSE {})
        \cup (IF Booked(d) THEN {Disposition(k, t) : t \in {u \in DOMAIN moved : moved[u] > 0}}
              ELSE {})
        \cup (IF Booked(d) /\ deposit[d].invoicePaid < deposit[d].amount
              THEN {Event(d, "invoice.booking_hold.cancelled")} ELSE {})

Cancel(k, d, refund, keep, deduct, receipt) ==
    LET c == deposit[d].cycle
        pending == refund > 0 /\ receipt = "PENDING"
    IN  /\ Fresh(k)
        /\ Cancellable(d, refund, keep, deduct)
        /\ Write(k, [Operation("CANCEL", d) EXCEPT
                !.rows = [NoRows EXCEPT !["KEEP"] = keep, !["DEDUCT"] = deduct,
                                        !["REFUND"] = IF pending THEN 0 ELSE refund],
                !.due = IF pending THEN refund ELSE 0,
                !.status = IF pending THEN "PENDING" ELSE "COMPLETED"])
        /\ SetStatus(d, "CANCELLED")
        /\ hold' = Closed(HoldsOf(d), "CANCELLED")
        /\ cycle' = IF deposit[d].type = "BOOKING"
                    THEN [cycle EXCEPT
                            ![c].status = IF Open(c) THEN "CANCELLED" ELSE @,
                            ![c].contract = IF Booked(d) THEN "CANCELLED" ELSE @]
                    ELSE cycle
        /\ Announce(CancellationEvents(k, d, refund, keep, deduct, pending))
        /\ UNCHANGED <<now, roomStatus, sweep>>

-----------------------------------------------------------------------------
\* Mutant: the balance is not checked when the refund is paid.
PayableUnchecked(p) == op[p].status = "PENDING" /\ op[p].due > 0

Payable(p) ==
    /\ op[p].status = "PENDING" /\ op[p].due > 0
    /\ op[p].due <= balance[op[p].source]

(* The cash-out of a pending refund, under a key of its own. *)
CompleteRefund(k, p) ==
    LET d == op[p].source
        done == [Operation("COMPLETE_REFUND", d) EXCEPT
                    !.target = op[p].target, !.rows["REFUND"] = op[p].due]
    IN  /\ Fresh(k)
        /\ Payable(p)
        /\ op' = Put([op EXCEPT ![p].status = "COMPLETED"], k, done)
        /\ Post(done)
        /\ Announce({Event(k, "deposit.refunded")} \cup
                    (IF Booked(d) THEN {Disposition(k, "REFUND")} ELSE {}))
        /\ UNCHANGED <<now, deposit, cycle, roomStatus, hold, sweep>>

\* Mutant: an operation may be reversed again.
ReversibleAgain(p) ==
    /\ op[p].type # "REVERSE_LEDGER"
    /\ \E t \in RowTypes : op[p].rows[t] # 0
    /\ op[p].rows["CREDIT"] = 0 /\ op[p].rows["REFUND"] = 0

(* The reversal of all rows of one operation.  Operations with a receipt   *)
(* or a credit note among their rows have a workflow of their own.         *)
Reversible(p) ==
    /\ op[p].type # "REVERSE_LEDGER"
    /\ \E t \in RowTypes : op[p].rows[t] # 0
    /\ op[p].rows["CREDIT"] = 0 /\ op[p].rows["REFUND"] = 0
    /\ \A q \in DOMAIN op : p \notin op[q].reverses

Reverse(k, p) ==
    LET o == op[p]
        undo == [Operation("REVERSE_LEDGER", o.source) EXCEPT
                    !.target = o.target, !.reverses = {p},
                    !.rows = [t \in RowTypes |-> -o.rows[t]]]
    IN  /\ Fresh(k)
        /\ Reversible(p)
        /\ \A d \in {o.source, o.target} : balance[d] - Effect(o, d) >= 0
        /\ Write(k, undo)
        /\ Announce({Event(k, "deposit.ledger.reversed")})
        /\ UNCHANGED <<now, deposit, cycle, roomStatus, hold, sweep>>

-----------------------------------------------------------------------------
(* Commands on a hold. *)

RenewHold(k, d, until) ==
    /\ Fresh(k)
    /\ \E h \in LiveHolds(d) :
        /\ hold[h].cycle = deposit[d].cycle
        /\ until > hold[h].expiresAt
        /\ hold' = [Closed(Lapsed(RoomOf(d)), "EXPIRED") EXCEPT ![h].expiresAt = until]
    /\ Write(k, Operation("RENEW_HOLD", d))
    /\ UNCHANGED <<now, deposit, cycle, roomStatus, outbox, sweep>>

MoveTo(c, r) == cycle' = [cycle EXCEPT ![c].room = r]

(* The cycle moves to another room; the old hold ends, a new one starts. *)
TransferHold(k, d, r, until) ==
    LET c == deposit[d].cycle
    IN  /\ Fresh(k)
        /\ deposit[d].status = "PAID"
        /\ r # RoomOf(d)
        /\ cycle[c].contract = "NONE"
        /\ \E h \in LiveHolds(d) :
            /\ hold[h].cycle = c /\ hold[h].room = RoomOf(d)
            /\ HasPlace(r)
            /\ KeyFree(r, c, Lapsed(r))
            /\ until > now
            /\ \E g \in Holds \ DOMAIN hold :
                hold' = Put([Closed(Lapsed(r) \cup Lapsed(RoomOf(d)), "EXPIRED")
                                EXCEPT ![h].status = "RELEASED"], g,
                            [hold[h] EXCEPT !.deposit = d, !.room = r, !.expiresAt = until])
        /\ MoveTo(c, r)
        /\ Write(k, Operation("TRANSFER_HOLD", d))
        /\ UNCHANGED <<now, deposit, roomStatus, outbox, sweep>>

(* A hold is released although it may have run out. *)
ReleaseHold(k, d) ==
    /\ Fresh(k)
    /\ \E h \in HoldsOf(d) : hold' = Closed({h}, "RELEASED")
    /\ Write(k, Operation("RELEASE_HOLD", d))
    /\ UNCHANGED <<now, deposit, cycle, roomStatus, outbox, sweep>>

-----------------------------------------------------------------------------
\* Mutant: off by one.
OverdueSoon(asOf) == {h \in DOMAIN hold : Active(h) /\ hold[h].expiresAt <= asOf + 1}

(* expireHolds: the holds are read, then expired by a second statement,    *)
(* then announced by what was read.  The scheduler sweeps as of now; an    *)
(* operator may give any time.                                             *)
Overdue(asOf) == {h \in DOMAIN hold : Active(h) /\ hold[h].expiresAt <= asOf}

ScanHolds(asOf) ==
    /\ sweep = {}
    /\ sweep' = {[asOf |-> asOf, found |-> Overdue(asOf)]}
    /\ UNCHANGED <<now, deposit, cycle, roomStatus, hold, op, balance, outbox>>

ExpireHolds ==
    \E run \in sweep :
        /\ hold' = Closed(Overdue(run.asOf), "EXPIRED")
        /\ Announce({Event(h, "deposit.hold.expired") : h \in run.found})
        /\ sweep' = {}
        /\ UNCHANGED <<now, deposit, cycle, roomStatus, op, balance>>

Tick ==
    /\ now < MaxTime
    /\ now' = now + 1
    /\ UNCHANGED <<deposit, cycle, roomStatus, hold, op, balance, outbox, sweep>>

-----------------------------------------------------------------------------
MoneyCommand(k) ==
    \/ \E d \in DOMAIN deposit, until \in Expiries : Collect(k, d, until)
    \/ \E d \in DOMAIN deposit, amount \in Amounts : PayBookingInvoice(k, d, amount)
    \/ \E d \in DOMAIN deposit, s \in Deposits, required \in Amounts,
          excess \in {"CREDIT", "REFUND"}, receipt \in {"PENDING", "COMPLETED"} :
            Convert(k, d, s, required, excess, receipt)
    \/ \E d \in DOMAIN deposit, refund, keep, deduct \in Shares,
          receipt \in {"PENDING", "COMPLETED"} :
            Cancel(k, d, refund, keep, deduct, receipt)
    \/ \E p \in DOMAIN op : CompleteRefund(k, p) \/ Reverse(k, p)

HoldCommand(k) ==
    \E d \in DOMAIN deposit :
        \/ \E until \in Expiries : RenewHold(k, d, until)
        \/ \E r \in Rooms, until \in Expiries : TransferHold(k, d, r, until)
        \/ ReleaseHold(k, d)

CreateCommand(k) ==
    \E d \in Deposits, c \in Cycles, r \in Rooms, amount \in Amounts, until \in Expiries :
        \/ \E type \in {"BOOKING", "SECURITY"}, status \in CreateStatuses :
                Create(k, d, c, r, type, status, amount, until)
        \/ CreateBookingHold(k, d, c, r, amount, until)

Command(k) == CreateCommand(k) \/ MoneyCommand(k) \/ HoldCommand(k)

(* What happens without an idempotency key. *)
Unkeyed ==
    \/ \E d \in DOMAIN deposit : IssueBookingInvoice(d)
    \/ \E asOf \in 0 .. now + Horizon : ScanHolds(asOf)
    \/ ExpireHolds
    \/ Tick

Next == (\E k \in Keys : Command(k)) \/ Unkeyed

Spec == Init /\ [][Next]_vars

-----------------------------------------------------------------------------
(* Properties. *)

Total(t) == SumFunction([k \in DOMAIN op |-> op[k].rows[t]])
TotalOn(d, t) == SumFunction([k \in {q \in DOMAIN op : op[q].source = d} |-> op[k].rows[t]])
Owed(d) == SumFunction(
    [k \in {q \in DOMAIN op : op[q].source = d /\ op[q].status = "PENDING"} |-> op[k].due])
Reversed(d) == \E k \in DOMAIN op :
    op[k].type = "REVERSE_LEDGER" /\ d \in {op[k].source, op[k].target}

(* No sequence of commands makes a deposit balance negative: what is paid  *)
(* out, kept, transferred or reversed was there.                           *)
BalanceNonNegative == \A d \in Deposits : balance[d] >= 0

(* Money is neither made nor lost: what was collected is held by the       *)
(* deposits or left them as a refund, a credit, a kept or a deducted       *)
(* amount, whatever was reversed in between.                               *)
MoneyAccounted ==
    Total("CASH_IN") = SumFunction(balance)
        + Total("REFUND") + Total("CREDIT") + Total("KEEP") + Total("DEDUCT")

(* A closed deposit holds exactly what is promised in its pending refund:  *)
(* cancellation and conversion dispose of the whole balance once, and no   *)
(* later command touches it.  (A reversal reopens the question.)           *)
ClosedDepositsOwe ==
    \A d \in DOMAIN deposit :
        deposit[d].status \in {"CONVERTED_TO_CONTRACT", "CANCELLED"} /\ ~Reversed(d)
            => balance[d] = Owed(d)

(* Nothing is reversed twice: counted with its reversals, no kind of row   *)
(* of a deposit comes to less than nothing.                                *)
NothingReversedTwice == \A d \in Deposits, t \in RowTypes : TotalOn(d, t) >= 0

(* The status of a deposit says how it is funded: a deposit opened unpaid  *)
(* is PAID when its ledger holds the full amount and only then, whichever  *)
(* path (direct, instalments, conversion) the money took.                  *)
StatusFollowsLedger ==
    \A d \in DOMAIN deposit : ~Reversed(d) /\ "PAID" \notin CreateStatuses =>
        /\ deposit[d].status = "PAID" => balance[d] = deposit[d].amount
        /\ deposit[d].status = "PENDING" => balance[d] < deposit[d].amount

(* The booking invoice and the deposit ledger agree while the booking is   *)
(* open, so an instalment or a cancellation is never refused for a         *)
(* disagreement the code itself produced.                                  *)
InvoiceMatchesLedger ==
    \A d \in DOMAIN deposit :
        Booked(d) /\ deposit[d].status \in {"PENDING", "PAID"} /\ ~Reversed(d)
            => balance[d] = deposit[d].invoicePaid

(* Concurrent commands never give out more places than a room has, however *)
(* holds run out, move or are renewed in between.                          *)
RoomNotOverbooked ==
    \A r \in Rooms : Cardinality({h \in DOMAIN hold : Live(h) /\ hold[h].room = r}) <= Slots[r]

(* An active hold belongs to a deposit that can still become a contract;   *)
(* conversion hands it to the security deposit, cancellation ends it.      *)
HeldByOpenDeposit ==
    \A h \in DOMAIN hold : Active(h) =>
        /\ hold[h].deposit \in DOMAIN deposit
        /\ deposit[hold[h].deposit].status \in {"DRAFT", "PENDING", "PAID"}
        /\ deposit[hold[h].deposit].cycle = hold[h].cycle

(* An ended hold is never revived or moved: late money needs a new hold    *)
(* and a new capacity check.                                               *)
EndedHoldsStay ==
    [][\A h \in DOMAIN hold : ~Active(h) => hold'[h] = hold[h]]_vars

(* Nobody is told that a room hold has run out while the place is still    *)
(* held: between the two statements of a sweep that looks at the present   *)
(* the hold may be released or cancelled but not renewed.                  *)
AnnouncedHoldsEnded ==
    \A h \in DOMAIN hold : Event(h, "deposit.hold.expired") \in outbox => ~Active(h)

(* What moved money or ended a booking is announced: every operation that  *)
(* wrote ledger rows has its outbox row, and each KEEP, DEDUCT or REFUND   *)
(* row that came from cancelling a booking hold has its own.               *)
MoneyIsAnnounced ==
    \A k \in DOMAIN op :
        /\ op[k].rows # NoRows => \E e \in outbox : e.about = k
        /\ \A t \in {"KEEP", "DEDUCT", "REFUND"} :
             /\ op[k].type \in {"CANCEL", "COMPLETE_REFUND"} /\ Booked(op[k].source)
             /\ op[k].rows[t] > 0
             => Disposition(k, t) \in outbox
=============================================================================
