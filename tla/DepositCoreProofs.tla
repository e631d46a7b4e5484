------------------------- MODULE DepositCoreProofs -------------------------
(***************************************************************************)
(* The deposit core for any number of deposits, rooms, holds and commands: *)
(* its tables keep their types, no deposit balance becomes negative, and   *)
(* no room is given to more holds than it has places.                      *)
(*                                                                         *)
(* The first two need one more fact, that the rental cycle of a deposit    *)
(* exists: the room of a new hold is read through it.  The facts about     *)
(* holds need no invariant of their own, only what a step may do to a hold *)
(* there is (HoldsStep) and to whom an active hold belongs.                *)
(***************************************************************************)
EXTENDS DepositCore, FiniteSetTheorems, TLAPS

CycleKnown == \A d \in DOMAIN deposit : deposit[d].cycle \in DOMAIN cycle

(* The part of TypeOK a committed operation writes. *)
BooksTyped ==
    /\ IsTable(op, Keys, OperationRow)
    /\ \A q \in DOMAIN op : op[q].type # "REVERSE_LEDGER" => op[q].rows \in [RowTypes -> Nat]
    /\ balance \in [Deposits -> Int]

IndInv == TypeOK /\ CycleKnown /\ BalanceNonNegative

-----------------------------------------------------------------------------
(* The split of a booking balance. *)

(* A conversion moves what the security deposit can take and no more; what *)
(* it moves and what is left over make up the balance, and what it moves   *)
(* and what is still to be paid make up the security deposit.              *)
THEOREM ConversionSplitsBalance ==
    ASSUME NEW funds \in Nat, NEW required \in Nat
    PROVE  LET plan == ConversionPlan(funds, required)
           IN  /\ plan.transfer \in Nat /\ plan.additional \in Nat /\ plan.excess \in Nat
               /\ plan.transfer + plan.excess = funds
               /\ plan.transfer + plan.additional = required
               /\ plan.additional = 0 \/ plan.excess = 0
  BY DEF ConversionPlan, Smaller

-----------------------------------------------------------------------------
(* Tables. *)

LEMMA PutTable ==
    ASSUME NEW Id, NEW Row, NEW table, IsTable(table, Id, Row),
           NEW id \in Id, NEW row \in Row
    PROVE  /\ IsTable(Put(table, id, row), Id, Row)
           /\ DOMAIN Put(table, id, row) = DOMAIN table \cup {id}
           /\ Put(table, id, row)[id] = row
           /\ \A x \in DOMAIN table : x # id => Put(table, id, row)[x] = table[x]
  BY DEF IsTable, Put

(* Ending holds keeps their table, *)
LEMMA ClosedTable ==
    ASSUME IsTable(hold, Holds, HoldRow), NEW S,
           NEW s \in {"ACTIVE", "EXPIRED", "RELEASED", "CANCELLED"}
    PROVE  /\ IsTable(Closed(S, s), Holds, HoldRow)
           /\ DOMAIN Closed(S, s) = DOMAIN hold
  <1>1. \A h \in DOMAIN hold : hold[h] \in HoldRow
    BY DEF IsTable
  <1>2. \A h \in DOMAIN hold : [hold[h] EXCEPT !.status = s] \in HoldRow
    BY <1>1 DEF HoldRow
  <1> QED
    BY <1>1, <1>2 DEF IsTable, Closed

(* and a new status that of the deposits. *)
LEMMA SetStatusTable ==
    ASSUME IsTable(deposit, Deposits, DepositRow), NEW d \in DOMAIN deposit,
           NEW s \in {"DRAFT", "PENDING", "PAID", "CONVERTED_TO_CONTRACT", "CANCELLED"}
    PROVE  /\ IsTable([deposit EXCEPT ![d].status = s], Deposits, DepositRow)
           /\ DOMAIN [deposit EXCEPT ![d].status = s] = DOMAIN deposit
           /\ \A x \in DOMAIN deposit :
                [deposit EXCEPT ![d].status = s][x].cycle = deposit[x].cycle
  <1>1. \A x \in DOMAIN deposit : deposit[x] \in DepositRow
    BY DEF IsTable
  <1>2. [deposit[d] EXCEPT !.status = s] \in DepositRow
    BY <1>1 DEF DepositRow
  <1>3. [deposit[d] EXCEPT !.status = s].cycle = deposit[d].cycle
    BY <1>1 DEF DepositRow
  <1> QED
    BY <1>1, <1>2, <1>3 DEF IsTable

-----------------------------------------------------------------------------
(* Operations. *)

LEMMA OperationType ==
    ASSUME NEW d \in Deposits,
           NEW t \in {"CREATE", "COLLECT", "CONVERT_TO_SECURITY", "CANCEL", "COMPLETE_REFUND",
                      "REVERSE_LEDGER", "RENEW_HOLD", "TRANSFER_HOLD", "RELEASE_HOLD"}
    PROVE  Operation(t, d) \in OperationRow
  BY DEF Operation, OperationRow, NoRows, RowTypes

(* A committed operation is typed, and so are the balances after it. *)
LEMMA WriteTyped ==
    ASSUME TypeOK, NEW k, NEW o \in OperationRow, Fresh(k), Write(k, o),
           o.type # "REVERSE_LEDGER" => o.rows \in [RowTypes -> Nat]
    PROVE  BooksTyped'
  <1>1. k \in Keys /\ k \notin DOMAIN op /\ IsTable(op, Keys, OperationRow)
    BY DEF Fresh, TypeOK
  <1>2. op' = Put(op, k, o)
    BY DEF Write
  <1>3. IsTable(op', Keys, OperationRow)
    BY <1>1, <1>2, PutTable
  <1>4. \A q \in DOMAIN op' : op'[q].type # "REVERSE_LEDGER" => op'[q].rows \in [RowTypes -> Nat]
    <2> SUFFICES ASSUME NEW q \in DOMAIN op', op'[q].type # "REVERSE_LEDGER"
                 PROVE  op'[q].rows \in [RowTypes -> Nat]
      OBVIOUS
    <2>1. CASE q = k
      BY <1>1, <1>2, <2>1 DEF Put
    <2>2. CASE q # k
      <3>1. q \in DOMAIN op /\ op'[q] = op[q]
        BY <1>1, <1>2, <2>2 DEF Put
      <3> QED
        BY <3>1 DEF TypeOK
    <2> QED
      BY <2>1, <2>2
  <1>5. \A t \in {"CASH_IN", "TRANSFER", "CREDIT", "REFUND", "KEEP", "DEDUCT"} : o.rows[t] \in Int
    BY DEF OperationRow, RowTypes
  <1>6. \A d \in Deposits : Effect(o, d) \in Int
    BY <1>5 DEF Effect, Paid
  <1> QED
    BY <1>3, <1>4, <1>6 DEF Write, Post, TypeOK, BooksTyped

(* An operation without ledger rows moves no money. *)
LEMMA MovesNothing ==
    ASSUME TypeOK, BalanceNonNegative, NEW k, NEW d \in Deposits, NEW t, Write(k, Operation(t, d))
    PROVE  balance' = balance /\ BalanceNonNegative'
  <1>1. \A x \in Deposits : Effect(Operation(t, d), x) = 0
    BY DEF Effect, Operation, NoRows, RowTypes, Paid
  <1>2. balance' = [x \in Deposits |-> balance[x]]
    BY <1>1 DEF Write, Post, TypeOK
  <1> QED
    BY <1>2 DEF TypeOK, BalanceNonNegative

(* An operation that moves no money. *)
LEMMA WriteNothing ==
    ASSUME TypeOK, BalanceNonNegative, NEW k, Fresh(k), NEW d \in Deposits,
           NEW t \in {"CREATE", "RENEW_HOLD", "TRANSFER_HOLD", "RELEASE_HOLD"},
           Write(k, Operation(t, d))
    PROVE  BooksTyped' /\ BalanceNonNegative'
  <1>1. Operation(t, d) \in OperationRow
    BY OperationType
  <1>2. Operation(t, d).rows \in [RowTypes -> Nat]
    BY DEF Operation, NoRows
  <1>3. BalanceNonNegative'
    BY MovesNothing
  <1> QED
    BY <1>1, <1>2, <1>3, WriteTyped

(* Money is taken from the source of an operation, and only its target and *)
(* a collection add to a balance: the source must hold what it gives.      *)
LEMMA EnoughMoney ==
    ASSUME TypeOK, BalanceNonNegative, NEW k, NEW o, Write(k, o),
           \A t \in RowTypes : o.rows[t] \in Nat,
           \A x \in Deposits : x = o.source =>
                o.rows["TRANSFER"] + Paid(o) <= balance[x] + o.rows["CASH_IN"]
    PROVE  BalanceNonNegative'
  <1> SUFFICES ASSUME NEW x \in Deposits PROVE balance[x] + Effect(o, x) >= 0
    BY DEF BalanceNonNegative, Write, Post
  <1>1. /\ o.rows["CASH_IN"] \in Nat /\ o.rows["TRANSFER"] \in Nat /\ o.rows["CREDIT"] \in Nat
        /\ o.rows["REFUND"] \in Nat /\ o.rows["KEEP"] \in Nat /\ o.rows["DEDUCT"] \in Nat
    BY DEF RowTypes
  <1>2. balance[x] \in Int /\ balance[x] >= 0
    BY DEF TypeOK, BalanceNonNegative
  <1> QED
    BY <1>1, <1>2 DEF Effect, Paid

-----------------------------------------------------------------------------
(* Room holds. *)

LEMMA NewHoldTyped ==
    ASSUME TypeOK, NEW d \in Deposits, NEW c \in Cycles, NEW r \in Rooms, NEW until \in Nat,
           NEW S, NEW s \in {"EXPIRED", "RELEASED"}, NewHold(d, c, r, until, S, s)
    PROVE  IsTable(hold', Holds, HoldRow)
  <1>1. PICK h \in Holds : hold' = Put(Closed(S, s), h,
            [status |-> "ACTIVE", cycle |-> c, deposit |-> d, room |-> r, expiresAt |-> until])
    BY DEF NewHold
  <1>2. IsTable(Closed(S, s), Holds, HoldRow)
    BY ClosedTable DEF TypeOK
  <1>3. [status |-> "ACTIVE", cycle |-> c, deposit |-> d, room |-> r, expiresAt |-> until]
            \in HoldRow
    BY DEF HoldRow
  <1> QED
    BY <1>1, <1>2, <1>3, PutTable

(* The hold that is renewed or created. *)
LEMMA EnsureTyped ==
    ASSUME TypeOK, NEW d \in Deposits, NEW c \in Cycles, NEW r \in Rooms, NEW until \in Nat,
           EnsureActiveHold(d, c, r, until)
    PROVE  IsTable(hold', Holds, HoldRow)
  <1>1. CASE hold' = Closed(Lapsed(r), "EXPIRED")
    BY <1>1, ClosedTable DEF TypeOK
  <1>2. CASE NewHold(d, c, r, until, Lapsed(r), "EXPIRED")
    BY <1>2, NewHoldTyped
  <1> QED
    BY <1>1, <1>2 DEF EnsureActiveHold

(* What the rows of the tables offer to the actions. *)
LEMMA RowsTyped ==
    ASSUME TypeOK, CycleKnown
    PROVE  /\ \A d \in DOMAIN deposit :
                /\ d \in Deposits /\ deposit[d] \in DepositRow
                /\ deposit[d].cycle \in Cycles /\ deposit[d].cycle \in DOMAIN cycle
                /\ RoomOf(d) \in Rooms
           /\ \A c \in DOMAIN cycle : c \in Cycles /\ cycle[c] \in CycleRow
           /\ \A h \in DOMAIN hold : h \in Holds /\ hold[h] \in HoldRow
           /\ \A k \in DOMAIN op : k \in Keys /\ op[k] \in OperationRow
  <1>1. \A d \in DOMAIN deposit : d \in Deposits /\ deposit[d] \in DepositRow
    BY DEF TypeOK, IsTable
  <1>2. \A c \in DOMAIN cycle : c \in Cycles /\ cycle[c] \in CycleRow
    BY DEF TypeOK, IsTable
  <1>3. \A d \in DOMAIN deposit : deposit[d].cycle \in Cycles
    BY <1>1 DEF DepositRow
  <1>4. \A d \in DOMAIN deposit : RoomOf(d) \in Rooms
    BY <1>2 DEF CycleKnown, RoomOf, CycleRow
  <1> QED
    BY <1>1, <1>2, <1>3, <1>4 DEF TypeOK, IsTable, CycleKnown

(* The cycle that is reserved. *)
LEMMA ReserveTyped ==
    ASSUME TypeOK, CycleKnown, NEW c, Reserve(c)
    PROVE  IsTable(cycle', Cycles, CycleRow) /\ DOMAIN cycle' = DOMAIN cycle
  <1>1. \A x \in DOMAIN cycle : [cycle[x] EXCEPT !.status = "RESERVED"] \in CycleRow
    BY RowsTyped DEF CycleRow
  <1> QED
    BY <1>1, RowsTyped DEF TypeOK, IsTable, Reserve

(* The events that are added. *)
LEMMA AnnounceTyped ==
    ASSUME TypeOK, NEW E, Announce(E), E \subseteq OutboxRow
    PROVE  outbox' \subseteq OutboxRow
  BY DEF Announce, TypeOK

-----------------------------------------------------------------------------
(* Creation and collection. *)

LEMMA AddDepositInv ==
    ASSUME IndInv, NEW k, NEW d, NEW c \in Cycles, NEW r \in Rooms, NEW until \in Nat,
           NEW row \in DepositRow, row.cycle = c,
           IsTable(cycle', Cycles, CycleRow), DOMAIN cycle' = DOMAIN cycle \cup {c},
           AddDeposit(k, d, c, r, row, until)
    PROVE  IndInv'
  <1>1. k \in Keys /\ d \in Deposits /\ Fresh(k) /\ Write(k, Operation("CREATE", d))
    BY DEF AddDeposit, Fresh
  <1>2. TypeOK /\ CycleKnown /\ BalanceNonNegative
    BY DEF IndInv
  <1>3. deposit' = Put(deposit, d, row)
    BY DEF AddDeposit
  <1>4. IsTable(deposit, Deposits, DepositRow)
    BY <1>2 DEF TypeOK
  <1>5. IsTable(deposit', Deposits, DepositRow)
    BY <1>1, <1>3, <1>4, PutTable
  <1>6. CycleKnown'
    BY <1>2, <1>3 DEF CycleKnown, Put
  <1>7. IsTable(hold', Holds, HoldRow)
    <2>1. CASE EnsureActiveHold(d, c, r, until)
      BY <1>1, <1>2, <2>1, EnsureTyped
    <2>2. CASE UNCHANGED hold
      BY <1>2, <2>2 DEF TypeOK
    <2> QED
      BY <2>1, <2>2 DEF AddDeposit
  <1>8. roomStatus' \in [Rooms -> {"AVAILABLE", "RESERVED"}]
    BY <1>2 DEF AddDeposit, TypeOK
  <1>9. BooksTyped' /\ BalanceNonNegative'
    BY <1>1, <1>2, WriteNothing
  <1>10. outbox' \subseteq OutboxRow
    <2>1. {Event(k, "deposit.created")} \subseteq OutboxRow
      BY <1>1 DEF Event, OutboxRow
    <2>2. Announce({Event(k, "deposit.created")})
      BY DEF AddDeposit
    <2> QED
      BY <1>2, <2>1, <2>2, AnnounceTyped
  <1>11. now' = now /\ sweep' = sweep
    BY DEF AddDeposit
  <1>12. TypeOK'
    BY <1>2, <1>5, <1>7, <1>8, <1>9, <1>10, <1>11 DEF TypeOK, BooksTyped
  <1> QED
    BY <1>6, <1>9, <1>12 DEF IndInv

(* The rows that are created. *)
LEMMA NewDepositTyped ==
    ASSUME NEW t \in {"BOOKING", "SECURITY"}, NEW s \in {"DRAFT", "PENDING", "PAID"},
           NEW amount \in Nat, NEW c \in Cycles, NEW b \in {"NONE", "MARKED"}
    PROVE  NewDeposit(t, s, amount, c, b) \in DepositRow /\ NewDeposit(t, s, amount, c, b).cycle = c
  BY DEF NewDeposit, DepositRow

(* A cycle that is added to the table. *)
LEMMA NewCycleTyped ==
    ASSUME TypeOK, NEW c \in Cycles, NEW row \in CycleRow, cycle' = Put(cycle, c, row)
    PROVE  IsTable(cycle', Cycles, CycleRow) /\ DOMAIN cycle' = DOMAIN cycle \cup {c}
  <1>1. IsTable(cycle, Cycles, CycleRow)
    BY DEF TypeOK
  <1>2. /\ IsTable(Put(cycle, c, row), Cycles, CycleRow)
        /\ DOMAIN Put(cycle, c, row) = DOMAIN cycle \cup {c}
    BY <1>1 DEF IsTable, Put
  <1> QED
    BY <1>2

(* The invariant, command by command. *)
LEMMA CreateInv ==
    ASSUME IndInv, NEW k, NEW d, NEW c \in Cycles, NEW r \in Rooms,
           NEW t \in {"BOOKING", "SECURITY"}, NEW s \in CreateStatuses,
           NEW amount \in Amounts, NEW until \in Expiries,
           Create(k, d, c, r, t, s, amount, until)
    PROVE  IndInv'
  <1>1. amount \in Nat /\ until \in Nat /\ s \in {"DRAFT", "PENDING", "PAID"}
    BY CoreAssumption
  <1>2. [status |-> IF s = "PAID" THEN "RESERVED" ELSE "PLANNED", room |-> r, contract |-> "NONE"]
            \in CycleRow
    BY DEF CycleRow
  <1>3. IsTable(cycle', Cycles, CycleRow) /\ DOMAIN cycle' = DOMAIN cycle \cup {c}
    BY <1>2, NewCycleTyped DEF Create, IndInv, TypeOK
  <1> DEFINE new == NewDeposit(t, s, amount, c, "NONE")
  <1>4. new \in DepositRow /\ new.cycle = c
    BY <1>1, NewDepositTyped
  <1>5. AddDeposit(k, d, c, r, new, until)
    BY DEF Create
  <1> HIDE DEF new
  <1> QED
    BY <1>1, <1>3, <1>4, <1>5, AddDepositInv

LEMMA CreateBookingHoldInv ==
    ASSUME IndInv, NEW k, NEW d, NEW c \in Cycles, NEW r \in Rooms,
           NEW amount \in Amounts, NEW until \in Expiries,
           CreateBookingHold(k, d, c, r, amount, until)
    PROVE  IndInv'
  <1>1. amount \in Nat /\ until \in Nat
    BY CoreAssumption
  <1>2. [status |-> "PLANNED", room |-> r, contract |-> "DRAFT"] \in CycleRow
    BY DEF CycleRow
  <1>3. IsTable(cycle', Cycles, CycleRow) /\ DOMAIN cycle' = DOMAIN cycle \cup {c}
    BY <1>2, NewCycleTyped DEF CreateBookingHold, IndInv
  <1> DEFINE new == NewDeposit("BOOKING", "PENDING", amount, c, "MARKED")
  <1>4. new \in DepositRow /\ new.cycle = c
    BY <1>1, NewDepositTyped
  <1>5. AddDeposit(k, d, c, r, new, until)
    BY DEF CreateBookingHold
  <1> HIDE DEF new
  <1> QED
    BY <1>1, <1>3, <1>4, <1>5, AddDepositInv

LEMMA IssueBookingInvoiceInv ==
    ASSUME IndInv, NEW d \in DOMAIN deposit, IssueBookingInvoice(d)
    PROVE  IndInv'
  <1> USE DEF IndInv, IssueBookingInvoice
  <1>1. deposit' = [deposit EXCEPT ![d].billing = "INVOICED"]
    OBVIOUS
  <1>2. /\ [deposit[d] EXCEPT !.billing = "INVOICED"] \in DepositRow
        /\ [deposit[d] EXCEPT !.billing = "INVOICED"].cycle = deposit[d].cycle
    BY RowsTyped DEF DepositRow
  <1>3. IsTable(deposit', Deposits, DepositRow)
    BY <1>1, <1>2, RowsTyped DEF IsTable, TypeOK
  <1>4. CycleKnown'
    BY <1>1, <1>2, RowsTyped DEF CycleKnown
  <1> QED
    BY <1>3, <1>4 DEF TypeOK, BalanceNonNegative

(* Money that comes in only raises a balance. *)
LEMMA CashInInv ==
    ASSUME TypeOK, BalanceNonNegative, NEW k, Fresh(k), NEW d \in Deposits, NEW amount \in Nat,
           CashIn(k, d, amount)
    PROVE  BooksTyped' /\ BalanceNonNegative'
  <1> DEFINE o == [Operation("COLLECT", d) EXCEPT !.rows["CASH_IN"] = amount]
  <1>1. Write(k, o)
    BY DEF CashIn
  <1>2. /\ o \in OperationRow /\ o.rows \in [RowTypes -> Nat]
        /\ o.rows["CASH_IN"] = amount /\ o.rows["TRANSFER"] = 0 /\ Paid(o) = 0
    BY DEF Operation, OperationRow, NoRows, RowTypes, Paid
  <1>3. \A x \in Deposits : balance[x] \in Int /\ balance[x] >= 0
    BY DEF TypeOK, BalanceNonNegative
  <1> HIDE DEF o
  <1>4. BooksTyped'
    BY <1>1, <1>2, WriteTyped
  <1>5. BalanceNonNegative'
    BY <1>1, <1>2, <1>3, EnoughMoney
  <1> QED
    BY <1>4, <1>5

LEMMA CollectInv ==
    ASSUME IndInv, NEW k, NEW d \in DOMAIN deposit, NEW until \in Expiries, Collect(k, d, until)
    PROVE  IndInv'
  <1>1. TypeOK /\ CycleKnown /\ BalanceNonNegative
    BY DEF IndInv
  <1>2. d \in Deposits /\ deposit[d].cycle \in Cycles /\ RoomOf(d) \in Rooms /\ until \in Nat
    BY <1>1, RowsTyped, CoreAssumption
  <1>3. deposit[d].amount - balance[d] \in Nat
    <2>1. deposit[d].amount \in Nat /\ balance[d] \in Int
      BY <1>1, <1>2, RowsTyped DEF DepositRow, TypeOK
    <2> QED
      BY <2>1 DEF Collect
  <1>4. BooksTyped' /\ BalanceNonNegative'
    BY <1>1, <1>2, <1>3, CashInInv DEF Collect
  <1>5. IsTable(deposit', Deposits, DepositRow) /\ CycleKnown'
    <2>1. deposit' = [deposit EXCEPT ![d].status = "PAID"] /\ IsTable(deposit, Deposits, DepositRow)
      BY <1>1 DEF Collect, SetStatus, TypeOK
    <2>2. DOMAIN cycle' = DOMAIN cycle
      BY <1>1, ReserveTyped DEF Collect
    <2> QED
      BY <1>1, <2>1, <2>2, SetStatusTable DEF CycleKnown
  <1>6. IsTable(cycle', Cycles, CycleRow)
    BY <1>1, ReserveTyped DEF Collect
  <1>7. IsTable(hold', Holds, HoldRow)
    <2>1. CASE EnsureActiveHold(d, deposit[d].cycle, RoomOf(d), until)
      BY <1>1, <1>2, <2>1, EnsureTyped
    <2>2. CASE UNCHANGED hold
      BY <1>1, <2>2 DEF TypeOK
    <2> QED
      BY <2>1, <2>2 DEF Collect
  <1>8. outbox' \subseteq OutboxRow
    <2>1. k \in Keys
      BY DEF Collect, Fresh
    <2>2. Announce({Event(k, "deposit.collected")})
      BY DEF Collect
    <2>3. {Event(k, "deposit.collected")} \subseteq OutboxRow
      BY <2>1 DEF Event, OutboxRow
    <2> QED
      BY <1>1, <2>2, <2>3, AnnounceTyped
  <1>9. UNCHANGED <<now, roomStatus, sweep>>
    BY DEF Collect
  <1> QED
    BY <1>1, <1>4, <1>5, <1>6, <1>7, <1>8, <1>9 DEF IndInv, TypeOK, BooksTyped

LEMMA PayBookingInvoiceInv ==
    ASSUME IndInv, NEW k, NEW d \in DOMAIN deposit, NEW amount \in Amounts,
           PayBookingInvoice(k, d, amount)
    PROVE  IndInv'
  <1>1. TypeOK /\ CycleKnown /\ BalanceNonNegative
    BY DEF IndInv
  <1>2. k \in Keys /\ Fresh(k) /\ d \in Deposits /\ amount \in Nat
    BY <1>1, RowsTyped, CoreAssumption DEF PayBookingInvoice, Fresh
  <1>3. BooksTyped' /\ BalanceNonNegative'
    BY <1>1, <1>2, CashInInv DEF PayBookingInvoice
  <1>4. IsTable(cycle', Cycles, CycleRow) /\ DOMAIN cycle' = DOMAIN cycle
    BY <1>1, ReserveTyped DEF PayBookingInvoice
  <1>5. IsTable(deposit', Deposits, DepositRow) /\ CycleKnown'
    <2> DEFINE total == deposit[d].invoicePaid + amount
               row == [deposit[d] EXCEPT !.invoicePaid = total,
                          !.status = FundedStatus(total, deposit[d].amount)]
    <2>1. deposit' = [deposit EXCEPT ![d] = row]
      BY DEF PayBookingInvoice
    <2>2. row \in DepositRow /\ row.cycle = deposit[d].cycle
      <3>1. deposit[d] \in DepositRow
        BY <1>1, RowsTyped
      <3>2. total \in Nat
        BY <1>2, <3>1 DEF DepositRow
      <3>3. FundedStatus(total, deposit[d].amount) \in {"PAID", "PENDING"}
        BY DEF FundedStatus
      <3> HIDE DEF total
      <3> QED
        BY <3>1, <3>2, <3>3 DEF DepositRow
    <2>3. IsTable(deposit, Deposits, DepositRow)
      BY <1>1 DEF TypeOK
    <2> HIDE DEF row
    <2> QED
      BY <1>1, <1>4, <2>1, <2>2, <2>3 DEF IsTable, CycleKnown
  <1>6. outbox' \subseteq OutboxRow
    <2>1. Announce({Event(k, "deposit.collected")})
      BY DEF PayBookingInvoice
    <2>2. {Event(k, "deposit.collected")} \subseteq OutboxRow
      BY <1>2 DEF Event, OutboxRow
    <2> QED
      BY <1>1, <2>1, <2>2, AnnounceTyped
  <1>7. UNCHANGED <<now, roomStatus, hold, sweep>>
    BY DEF PayBookingInvoice
  <1> QED
    BY <1>1, <1>3, <1>4, <1>5, <1>6, <1>7 DEF IndInv, TypeOK, BooksTyped

-----------------------------------------------------------------------------
(* Conversion and cancellation. *)

LEMMA ConvertInv ==
    ASSUME IndInv, NEW k, NEW d \in DOMAIN deposit, NEW s \in Deposits, NEW required \in Amounts,
           NEW excess \in {"CREDIT", "REFUND"}, NEW receipt \in {"PENDING", "COMPLETED"},
           Convert(k, d, s, required, excess, receipt)
    PROVE  IndInv'
  <1> DEFINE plan == ConversionPlan(balance[d], required)
             pending == plan.excess > 0 /\ excess = "REFUND" /\ receipt = "PENDING"
             rows == [NoRows EXCEPT
                !["TRANSFER"] = plan.transfer,
                !["CREDIT"] = IF excess = "CREDIT" THEN plan.excess ELSE 0,
                !["REFUND"] = IF excess = "REFUND" /\ ~pending THEN plan.excess ELSE 0]
             status == FundedStatus(required - plan.additional, required)
             target == IF s \in DOMAIN deposit THEN [deposit[s] EXCEPT !.status = status]
                       ELSE NewDeposit("SECURITY", status, required, deposit[d].cycle, "NONE")
             due == IF pending THEN plan.excess ELSE 0
             done == IF pending THEN "PENDING" ELSE "COMPLETED"
             o == [Operation("CONVERT_TO_SECURITY", d) EXCEPT
                !.target = s, !.rows = rows, !.due = due, !.status = done]
             booking == [deposit EXCEPT ![d].status = "CONVERTED_TO_CONTRACT"]
  <1>1. TypeOK /\ CycleKnown /\ BalanceNonNegative
    BY DEF IndInv
  <1>2. k \in Keys /\ Fresh(k)
    BY DEF Convert, Fresh
  <1>3. /\ d \in Deposits /\ deposit[d].cycle \in Cycles /\ deposit[d].cycle \in DOMAIN cycle
        /\ required \in Nat /\ balance[d] \in Nat
    BY <1>1, RowsTyped, CoreAssumption DEF TypeOK, BalanceNonNegative
  <1>4. /\ plan.transfer \in Nat /\ plan.additional \in Nat /\ plan.excess \in Nat
        /\ plan.transfer + plan.excess = balance[d]
        /\ plan.transfer + plan.additional = required
    BY <1>3, ConversionSplitsBalance
  <1>5. Write(k, o)
    BY DEF Convert
  <1>6. deposit' = Put(booking, s, target)
    BY DEF Convert
  <1> HIDE DEF plan
  <1>7. /\ rows \in [RowTypes -> Nat]
        /\ rows["CASH_IN"] = 0 /\ rows["KEEP"] = 0 /\ rows["DEDUCT"] = 0
        /\ rows["TRANSFER"] = plan.transfer
        /\ rows["CREDIT"] \in Nat /\ rows["REFUND"] \in Nat
        /\ rows["CREDIT"] + rows["REFUND"] <= plan.excess
    BY <1>4 DEF NoRows, RowTypes
  <1>8. /\ o \in OperationRow /\ o.rows = rows /\ o.source = d
    <2>1. due \in Nat /\ done \in {"PENDING", "COMPLETED"} /\ rows \in [RowTypes -> Int]
      BY <1>4, <1>7
    <2>2. Operation("CONVERT_TO_SECURITY", d) \in OperationRow
      BY <1>3, OperationType
    <2>3. Operation("CONVERT_TO_SECURITY", d).source = d
      BY DEF Operation
    <2> HIDE DEF rows, due, done
    <2> QED
      BY <2>1, <2>2, <2>3 DEF OperationRow
  <1> HIDE DEF o, rows
  <1>9. BooksTyped'
    BY <1>1, <1>2, <1>5, <1>7, <1>8, WriteTyped DEF RowTypes
  <1>10. BalanceNonNegative'
    <2>1. o.rows["TRANSFER"] + Paid(o) <= balance[d] + o.rows["CASH_IN"]
      BY <1>3, <1>4, <1>7, <1>8 DEF Paid
    <2> QED
      BY <1>1, <1>5, <1>7, <1>8, <2>1, EnoughMoney
  <1>11. status \in {"PAID", "PENDING"}
    BY DEF FundedStatus
  <1> HIDE DEF status
  <1>12. target \in DepositRow /\ target.cycle \in DOMAIN cycle
    <2>1. CASE s \in DOMAIN deposit
      BY <1>1, <1>11, <2>1, RowsTyped DEF DepositRow
    <2>2. CASE s \notin DOMAIN deposit
      BY <1>3, <1>11, <2>2 DEF NewDeposit, DepositRow
    <2> QED
      BY <2>1, <2>2
  <1>13. /\ IsTable(booking, Deposits, DepositRow) /\ DOMAIN booking = DOMAIN deposit
         /\ \A x \in DOMAIN deposit : booking[x].cycle = deposit[x].cycle
    <2>1. IsTable(deposit, Deposits, DepositRow)
      BY <1>1 DEF TypeOK
    <2> QED
      BY <2>1, SetStatusTable
  <1> HIDE DEF target, booking
  <1>14. IsTable(deposit', Deposits, DepositRow)
    BY <1>6, <1>12, <1>13, PutTable
  <1>15. UNCHANGED <<now, cycle, roomStatus, sweep>>
    BY DEF Convert
  <1>16. CycleKnown'
    BY <1>1, <1>6, <1>12, <1>13, <1>15 DEF CycleKnown, Put
  <1>17. IsTable(hold', Holds, HoldRow)
    <2>1. hold' = [h \in DOMAIN hold |->
                       IF Active(h) /\ hold[h].cycle = deposit[d].cycle
                       THEN [hold[h] EXCEPT !.deposit = s] ELSE hold[h]]
      BY DEF Convert
    <2>2. \A h \in DOMAIN hold : hold[h] \in HoldRow /\ [hold[h] EXCEPT !.deposit = s] \in HoldRow
      BY <1>1, RowsTyped DEF HoldRow
    <2> QED
      BY <1>1, <2>1, <2>2 DEF IsTable, TypeOK
  <1>18. outbox' \subseteq OutboxRow
    <2>1. Announce({Event(k, "deposit.converted_to_security")})
      BY DEF Convert
    <2>2. {Event(k, "deposit.converted_to_security")} \subseteq OutboxRow
      BY <1>2 DEF Event, OutboxRow
    <2> QED
      BY <1>1, <2>1, <2>2, AnnounceTyped
  <1> QED
    BY <1>1, <1>9, <1>10, <1>14, <1>15, <1>16, <1>17, <1>18 DEF IndInv, TypeOK, BooksTyped

(* The events of a cancellation. *)
LEMMA CancelEventsTyped ==
    ASSUME NEW k \in Keys, NEW d \in Deposits, NEW refund, NEW keep, NEW deduct, NEW pending
    PROVE  CancellationEvents(k, d, refund, keep, deduct, pending) \subseteq OutboxRow
  <1>1. \A name \in {"deposit.cancelled", "deposit.refund_requested", "deposit.refunded",
                    "deposit.deducted"} : Event(k, name) \in OutboxRow
    BY DEF Event, OutboxRow
  <1>2. Event(d, "invoice.booking_hold.cancelled") \in OutboxRow
    BY DEF Event, OutboxRow
  <1>3. \A t \in {"KEEP", "DEDUCT", "REFUND"} : Disposition(k, t) \in OutboxRow
    BY DEF Disposition, OutboxRow
  <1> HIDE DEF OutboxRow
  <1> QED
    BY <1>1, <1>2, <1>3 DEF CancellationEvents

LEMMA CancelInv ==
    ASSUME IndInv, NEW k, NEW d \in DOMAIN deposit,
           NEW refund \in Nat, NEW keep \in Nat, NEW deduct \in Nat,
           NEW receipt \in {"PENDING", "COMPLETED"},
           Cancel(k, d, refund, keep, deduct, receipt)
    PROVE  IndInv'
  <1> DEFINE pending == refund > 0 /\ receipt = "PENDING"
             rows == [NoRows EXCEPT !["KEEP"] = keep, !["DEDUCT"] = deduct,
                                    !["REFUND"] = IF pending THEN 0 ELSE refund]
             due == IF pending THEN refund ELSE 0
             done == IF pending THEN "PENDING" ELSE "COMPLETED"
             o == [Operation("CANCEL", d) EXCEPT !.rows = rows, !.due = due, !.status = done]
  <1>1. TypeOK /\ CycleKnown /\ BalanceNonNegative
    BY DEF IndInv
  <1>2. k \in Keys /\ Fresh(k)
    BY DEF Cancel, Fresh
  <1>3. d \in Deposits /\ balance[d] \in Nat
    BY <1>1, RowsTyped DEF TypeOK, BalanceNonNegative
  <1>4. Write(k, o)
    BY DEF Cancel
  <1>5. /\ rows \in [RowTypes -> Nat]
        /\ rows["CASH_IN"] = 0 /\ rows["TRANSFER"] = 0 /\ rows["CREDIT"] = 0
        /\ rows["KEEP"] = keep /\ rows["DEDUCT"] = deduct
        /\ rows["REFUND"] \in Nat /\ rows["REFUND"] <= refund
    BY <1>3 DEF NoRows, RowTypes
  <1>6. o \in OperationRow /\ o.rows = rows /\ o.source = d
    <2>1. due \in Nat /\ done \in {"PENDING", "COMPLETED"} /\ rows \in [RowTypes -> Int]
      BY <1>3, <1>5
    <2>2. Operation("CANCEL", d) \in OperationRow
      BY <1>3, OperationType
    <2>3. Operation("CANCEL", d).source = d
      BY DEF Operation
    <2> HIDE DEF rows, due, done
    <2> QED
      BY <2>1, <2>2, <2>3 DEF OperationRow
  <1> HIDE DEF o, rows
  <1>7. BooksTyped'
    BY <1>1, <1>2, <1>4, <1>5, <1>6, WriteTyped DEF RowTypes
  <1>8. refund + keep + deduct <= balance[d]
    BY <1>3 DEF Cancel, Cancellable, CancellationPlan
  <1>9. BalanceNonNegative'
    <2>1. o.rows["TRANSFER"] + Paid(o) <= balance[d] + o.rows["CASH_IN"]
      BY <1>3, <1>5, <1>6, <1>8 DEF Paid
    <2> QED
      BY <1>1, <1>4, <1>5, <1>6, <2>1, EnoughMoney
  <1>10. /\ IsTable(deposit', Deposits, DepositRow) /\ DOMAIN deposit' = DOMAIN deposit
         /\ \A x \in DOMAIN deposit : deposit'[x].cycle = deposit[x].cycle
    <2>1. deposit' = [deposit EXCEPT ![d].status = "CANCELLED"] /\ IsTable(deposit, Deposits, DepositRow)
      BY <1>1 DEF Cancel, SetStatus, TypeOK
    <2> QED
      BY <2>1, SetStatusTable
  <1>11. IsTable(cycle', Cycles, CycleRow) /\ DOMAIN cycle' = DOMAIN cycle
    <2> DEFINE c == deposit[d].cycle
               row == [cycle[c] EXCEPT !.status = IF Open(c) THEN "CANCELLED" ELSE @,
                                       !.contract = IF Booked(d) THEN "CANCELLED" ELSE @]
    <2>1. IsTable(cycle, Cycles, CycleRow) /\ c \in DOMAIN cycle /\ cycle[c] \in CycleRow
      BY <1>1, RowsTyped DEF TypeOK
    <2>2. row \in CycleRow
      BY <2>1 DEF CycleRow
    <2>3. cycle' = [cycle EXCEPT ![c] = row] \/ cycle' = cycle
      BY DEF Cancel
    <2> HIDE DEF c, row
    <2> QED
      BY <2>1, <2>2, <2>3 DEF IsTable
  <1>12. CycleKnown'
    BY <1>1, <1>10, <1>11 DEF CycleKnown
  <1>13. IsTable(hold', Holds, HoldRow)
    BY <1>1, ClosedTable DEF Cancel, TypeOK
  <1>14. outbox' \subseteq OutboxRow
    BY <1>1, <1>2, <1>3, CancelEventsTyped, AnnounceTyped DEF Cancel
  <1>15. UNCHANGED <<now, roomStatus, sweep>>
    BY DEF Cancel
  <1> QED
    BY <1>1, <1>7, <1>9, <1>10, <1>11, <1>12, <1>13, <1>14, <1>15 DEF IndInv, TypeOK, BooksTyped

-----------------------------------------------------------------------------
(* Refunds paid later and reversals. *)

LEMMA CompleteRefundInv ==
    ASSUME IndInv, NEW k, NEW p \in DOMAIN op, CompleteRefund(k, p)
    PROVE  IndInv'
  <1> DEFINE d == op[p].source
             rows == [NoRows EXCEPT !["REFUND"] = op[p].due]
             done == [Operation("COMPLETE_REFUND", d) EXCEPT
                         !.target = op[p].target, !.rows["REFUND"] = op[p].due]
             paid == [op EXCEPT ![p].status = "COMPLETED"]
  <1>1. TypeOK /\ CycleKnown /\ BalanceNonNegative
    BY DEF IndInv
  <1>2. k \in Keys /\ k \notin DOMAIN op
    BY DEF CompleteRefund, Fresh
  <1>3. /\ op[p] \in OperationRow /\ d \in Deposits /\ op[p].target \in Deposits
        /\ op[p].due \in Nat
    BY <1>1, RowsTyped DEF OperationRow
  <1>4. op[p].due <= balance[d]
    BY DEF CompleteRefund, Payable
  <1>5. op' = Put(paid, k, done) /\ Post(done)
    BY DEF CompleteRefund
  <1>6. /\ done \in OperationRow /\ done.type = "COMPLETE_REFUND"
        /\ done.source = d
        /\ done.rows = rows
    <2>1. /\ Operation("COMPLETE_REFUND", d) \in OperationRow
          /\ Operation("COMPLETE_REFUND", d).source = d
          /\ Operation("COMPLETE_REFUND", d).type = "COMPLETE_REFUND"
          /\ Operation("COMPLETE_REFUND", d).rows = NoRows
      BY <1>3, OperationType DEF Operation
    <2>2. rows \in [RowTypes -> Int]
      BY <1>3 DEF NoRows, RowTypes
    <2>3. done = [Operation("COMPLETE_REFUND", d) EXCEPT !.target = op[p].target, !.rows = rows]
      BY <2>1 DEF OperationRow
    <2> HIDE DEF d, rows, done
    <2> QED
      BY <1>3, <2>1, <2>2, <2>3 DEF OperationRow
  <1>7. /\ done.rows \in [RowTypes -> Nat] /\ done.rows["REFUND"] = op[p].due
        /\ done.rows["CASH_IN"] = 0 /\ done.rows["TRANSFER"] = 0 /\ done.rows["CREDIT"] = 0
        /\ done.rows["KEEP"] = 0 /\ done.rows["DEDUCT"] = 0
    <2>1. done.rows = rows
      BY <1>6
    <2> HIDE DEF done
    <2> QED
      BY <1>3, <2>1 DEF NoRows, RowTypes
  <1> HIDE DEF done
  <1>8. /\ IsTable(paid, Keys, OperationRow) /\ DOMAIN paid = DOMAIN op
        /\ \A q \in DOMAIN op : paid[q].type = op[q].type /\ paid[q].rows = op[q].rows
    <2>1. IsTable(op, Keys, OperationRow)
      BY <1>1 DEF TypeOK
    <2>2. /\ [op[p] EXCEPT !.status = "COMPLETED"] \in OperationRow
          /\ [op[p] EXCEPT !.status = "COMPLETED"].type = op[p].type
          /\ [op[p] EXCEPT !.status = "COMPLETED"].rows = op[p].rows
      BY <1>3 DEF OperationRow
    <2> HIDE DEF OperationRow
    <2> QED
      BY <2>1, <2>2 DEF IsTable
  <1> HIDE DEF paid
  <1>9. IsTable(op', Keys, OperationRow)
    BY <1>2, <1>5, <1>6, <1>8, PutTable
  <1>10. \A q \in DOMAIN op' : op'[q].type # "REVERSE_LEDGER" => op'[q].rows \in [RowTypes -> Nat]
    <2> SUFFICES ASSUME NEW q \in DOMAIN op', op'[q].type # "REVERSE_LEDGER"
                 PROVE  op'[q].rows \in [RowTypes -> Nat]
      OBVIOUS
    <2>1. CASE q = k
      BY <1>5, <1>7, <1>8, <2>1 DEF Put
    <2>2. CASE q # k
      <3>1. q \in DOMAIN op /\ op'[q] = paid[q]
        BY <1>5, <1>8, <2>2 DEF Put
      <3> QED
        BY <1>1, <1>8, <3>1 DEF TypeOK
    <2> QED
      BY <2>1, <2>2
  <1>11. \A x \in Deposits : balance[x] + Effect(done, x) \in Int /\ balance[x] + Effect(done, x) >= 0
    <2> TAKE x \in Deposits
    <2>1. balance[x] \in Int /\ balance[x] >= 0
      BY <1>1 DEF TypeOK, BalanceNonNegative
    <2>2. CASE x = d
      BY <1>3, <1>4, <1>6, <1>7, <2>1, <2>2 DEF Effect, Paid
    <2>3. CASE x # d
      BY <1>6, <1>7, <2>1, <2>3 DEF Effect
    <2> QED
      BY <2>2, <2>3
  <1>12. balance' \in [Deposits -> Int] /\ BalanceNonNegative'
    BY <1>5, <1>11 DEF Post, BalanceNonNegative
  <1>13. outbox' \subseteq OutboxRow
    <2>1. Event(k, "deposit.refunded") \in OutboxRow /\ Disposition(k, "REFUND") \in OutboxRow
      BY <1>2 DEF Event, Disposition, OutboxRow
    <2>2. Announce({Event(k, "deposit.refunded")} \cup
                    (IF Booked(d) THEN {Disposition(k, "REFUND")} ELSE {}))
      BY DEF CompleteRefund
    <2> HIDE DEF d, OutboxRow
    <2> QED
      BY <1>1, <2>1, <2>2, AnnounceTyped
  <1>14. UNCHANGED <<now, deposit, cycle, roomStatus, hold, sweep>>
    BY DEF CompleteRefund
  <1>15. TypeOK' /\ CycleKnown'
    BY <1>1, <1>9, <1>10, <1>12, <1>13, <1>14 DEF TypeOK, CycleKnown
  <1> QED
    BY <1>12, <1>15 DEF IndInv

LEMMA ReverseInv ==
    ASSUME IndInv, NEW k, NEW p \in DOMAIN op, Reverse(k, p)
    PROVE  IndInv'
  <1> DEFINE o == op[p]
             undo == [Operation("REVERSE_LEDGER", o.source) EXCEPT
                         !.target = o.target, !.reverses = {p},
                         !.rows = [t \in RowTypes |-> -o.rows[t]]]
  <1>1. TypeOK /\ CycleKnown /\ BalanceNonNegative
    BY DEF IndInv
  <1>2. k \in Keys /\ Fresh(k)
    BY DEF Reverse, Fresh
  <1>3. /\ o \in OperationRow /\ o.source \in Deposits /\ o.target \in Deposits
        /\ p \in Keys /\ o.rows \in [RowTypes -> Int]
    BY <1>1, RowsTyped DEF OperationRow
  <1>4. Write(k, undo)
    BY DEF Reverse
  <1>5. /\ undo \in OperationRow /\ undo.type = "REVERSE_LEDGER"
        /\ undo.source = o.source /\ undo.target = o.target
        /\ undo.rows = [t \in RowTypes |-> -o.rows[t]]
    <2>1. /\ Operation("REVERSE_LEDGER", o.source) \in OperationRow
          /\ Operation("REVERSE_LEDGER", o.source).source = o.source
          /\ Operation("REVERSE_LEDGER", o.source).type = "REVERSE_LEDGER"
      BY <1>3, OperationType DEF Operation
    <2>2. [t \in RowTypes |-> -o.rows[t]] \in [RowTypes -> Int]
      BY <1>3
    <2> HIDE DEF o
    <2> QED
      BY <1>3, <2>1, <2>2 DEF OperationRow
  <1> HIDE DEF undo
  <1>6. BooksTyped'
    BY <1>1, <1>2, <1>4, <1>5, WriteTyped
  <1>7. \A x \in Deposits : Effect(undo, x) = -Effect(o, x) /\ Effect(o, x) \in Int
    <2>1. \A t \in RowTypes : o.rows[t] \in Int /\ undo.rows[t] = -o.rows[t]
      BY <1>3, <1>5
    <2> HIDE DEF o
    <2>2. Paid(undo) = -Paid(o) /\ Paid(o) \in Int
      BY <2>1 DEF Paid, RowTypes
    <2>3. /\ o.rows["CASH_IN"] \in Int /\ undo.rows["CASH_IN"] = -o.rows["CASH_IN"]
          /\ o.rows["TRANSFER"] \in Int /\ undo.rows["TRANSFER"] = -o.rows["TRANSFER"]
      BY <2>1 DEF RowTypes
    <2> QED
      BY <1>5, <2>2, <2>3 DEF Effect
  <1>8. \A x \in Deposits : x \notin {o.source, o.target} => Effect(o, x) = 0
    BY DEF Effect
  <1>9. \A x \in {o.source, o.target} : balance[x] - Effect(o, x) >= 0
    BY DEF Reverse
  <1>10. BalanceNonNegative'
    <2> SUFFICES ASSUME NEW x \in Deposits PROVE balance[x] + Effect(undo, x) >= 0
      BY <1>4 DEF Write, Post, BalanceNonNegative
    <2>1. balance[x] \in Int /\ balance[x] >= 0
      BY <1>1 DEF TypeOK, BalanceNonNegative
    <2> HIDE DEF o
    <2>2. CASE x \in {o.source, o.target}
      BY <1>7, <1>9, <2>1, <2>2
    <2>3. CASE x \notin {o.source, o.target}
      BY <1>7, <1>8, <2>1, <2>3
    <2> QED
      BY <2>2, <2>3
  <1>11. outbox' \subseteq OutboxRow
    <2>1. {Event(k, "deposit.ledger.reversed")} \subseteq OutboxRow
      BY <1>2 DEF Event, OutboxRow, Fresh
    <2> QED
      BY <1>1, <2>1, AnnounceTyped DEF Reverse
  <1>12. UNCHANGED <<now, deposit, cycle, roomStatus, hold, sweep>>
    BY DEF Reverse
  <1>13. TypeOK' /\ CycleKnown'
    BY <1>1, <1>6, <1>11, <1>12 DEF TypeOK, CycleKnown, BooksTyped
  <1> QED
    BY <1>10, <1>13 DEF IndInv

-----------------------------------------------------------------------------
(* Holds and the sweep. *)

LEMMA RenewHoldInv ==
    ASSUME IndInv, NEW k, NEW d \in DOMAIN deposit, NEW until \in Expiries, RenewHold(k, d, until)
    PROVE  IndInv'
  <1>1. TypeOK /\ CycleKnown /\ BalanceNonNegative
    BY DEF IndInv
  <1>2. Fresh(k) /\ d \in Deposits /\ until \in Nat
    BY <1>1, RowsTyped, CoreAssumption DEF RenewHold
  <1>3. BooksTyped' /\ BalanceNonNegative'
    BY <1>1, <1>2, WriteNothing DEF RenewHold
  <1>4. IsTable(hold', Holds, HoldRow)
    <2> DEFINE T == Closed(Lapsed(RoomOf(d)), "EXPIRED")
    <2>1. PICK h \in LiveHolds(d) : hold' = [T EXCEPT ![h].expiresAt = until]
      BY DEF RenewHold
    <2>2. IsTable(T, Holds, HoldRow)
      BY <1>1, ClosedTable DEF TypeOK
    <2> HIDE DEF T
    <2>3. \A x \in DOMAIN T : T[x] \in HoldRow /\ [T[x] EXCEPT !.expiresAt = until] \in HoldRow
      BY <1>2, <2>2 DEF IsTable, HoldRow
    <2> QED
      BY <2>1, <2>2, <2>3 DEF IsTable
  <1>5. UNCHANGED <<now, deposit, cycle, roomStatus, outbox, sweep>>
    BY DEF RenewHold
  <1> QED
    BY <1>1, <1>3, <1>4, <1>5 DEF IndInv, TypeOK, CycleKnown, BooksTyped

LEMMA TransferHoldInv ==
    ASSUME IndInv, NEW k, NEW d \in DOMAIN deposit, NEW r \in Rooms, NEW until \in Expiries,
           TransferHold(k, d, r, until)
    PROVE  IndInv'
  <1>1. TypeOK /\ CycleKnown /\ BalanceNonNegative
    BY DEF IndInv
  <1>2. Fresh(k) /\ d \in Deposits /\ until \in Nat
    BY <1>1, RowsTyped, CoreAssumption DEF TransferHold
  <1>3. BooksTyped' /\ BalanceNonNegative'
    BY <1>1, <1>2, WriteNothing DEF TransferHold
  <1>4. IsTable(hold', Holds, HoldRow)
    <2> DEFINE T == Closed(Lapsed(r) \cup Lapsed(RoomOf(d)), "EXPIRED")
    <2>1. PICK h \in LiveHolds(d), g \in Holds :
              hold' = Put([T EXCEPT ![h].status = "RELEASED"], g,
                          [hold[h] EXCEPT !.deposit = d, !.room = r, !.expiresAt = until])
      BY DEF TransferHold
    <2>2. IsTable(T, Holds, HoldRow)
      BY <1>1, ClosedTable DEF TypeOK
    <2> HIDE DEF T
    <2>3. \A x \in DOMAIN T : T[x] \in HoldRow /\ [T[x] EXCEPT !.status = "RELEASED"] \in HoldRow
      BY <2>2 DEF IsTable, HoldRow
    <2>4. IsTable([T EXCEPT ![h].status = "RELEASED"], Holds, HoldRow)
      BY <2>2, <2>3 DEF IsTable
    <2>5. hold[h] \in HoldRow
      BY <1>1, RowsTyped DEF LiveHolds
    <2>6. [hold[h] EXCEPT !.deposit = d, !.room = r, !.expiresAt = until] \in HoldRow
      BY <1>2, <2>5 DEF HoldRow
    <2> QED
      BY <2>1, <2>4, <2>6, PutTable
  <1>5. IsTable(cycle', Cycles, CycleRow) /\ DOMAIN cycle' = DOMAIN cycle
    <2>1. cycle' = [cycle EXCEPT ![deposit[d].cycle].room = r]
      BY DEF TransferHold, MoveTo
    <2>2. IsTable(cycle, Cycles, CycleRow)
      BY <1>1 DEF TypeOK
    <2>3. \A c \in DOMAIN cycle : cycle[c] \in CycleRow /\ [cycle[c] EXCEPT !.room = r] \in CycleRow
      BY <1>1, RowsTyped DEF CycleRow
    <2> QED
      BY <2>1, <2>2, <2>3 DEF IsTable
  <1>6. UNCHANGED <<now, deposit, roomStatus, outbox, sweep>>
    BY DEF TransferHold
  <1> QED
    BY <1>1, <1>3, <1>4, <1>5, <1>6 DEF IndInv, TypeOK, CycleKnown, BooksTyped

LEMMA ReleaseHoldInv ==
    ASSUME IndInv, NEW k, NEW d \in DOMAIN deposit, ReleaseHold(k, d)
    PROVE  IndInv'
  <1>1. TypeOK /\ CycleKnown /\ BalanceNonNegative
    BY DEF IndInv
  <1>2. Fresh(k) /\ d \in Deposits
    BY <1>1, RowsTyped DEF ReleaseHold
  <1>3. BooksTyped' /\ BalanceNonNegative'
    BY <1>1, <1>2, WriteNothing DEF ReleaseHold
  <1>4. IsTable(hold', Holds, HoldRow)
    BY <1>1, ClosedTable DEF ReleaseHold, TypeOK
  <1>5. UNCHANGED <<now, deposit, cycle, roomStatus, outbox, sweep>>
    BY DEF ReleaseHold
  <1> QED
    BY <1>1, <1>3, <1>4, <1>5 DEF IndInv, TypeOK, CycleKnown, BooksTyped

LEMMA ScanHoldsInv ==
    ASSUME IndInv, NEW asOf \in 0 .. now + Horizon, ScanHolds(asOf)
    PROVE  IndInv'
  <1>1. asOf \in Nat
    BY CoreAssumption DEF IndInv, TypeOK
  <1>2. Overdue(asOf) \subseteq Holds
    BY DEF Overdue, IndInv, TypeOK, IsTable
  <1>3. sweep' \subseteq [asOf: Nat, found: SUBSET Holds]
    BY <1>1, <1>2 DEF ScanHolds
  <1>4. UNCHANGED <<now, deposit, cycle, roomStatus, hold, op, balance, outbox>>
    BY DEF ScanHolds
  <1> QED
    BY <1>3, <1>4 DEF IndInv, TypeOK, CycleKnown, BalanceNonNegative

LEMMA ExpireHoldsInv ==
    ASSUME IndInv, ExpireHolds
    PROVE  IndInv'
  <1>1. TypeOK /\ CycleKnown /\ BalanceNonNegative
    BY DEF IndInv
  <1>2. PICK run \in sweep :
            /\ hold' = Closed(Overdue(run.asOf), "EXPIRED")
            /\ Announce({Event(h, "deposit.hold.expired") : h \in run.found})
            /\ sweep' = {}
            /\ UNCHANGED <<now, deposit, cycle, roomStatus, op, balance>>
    BY DEF ExpireHolds
  <1>3. IsTable(hold', Holds, HoldRow)
    BY <1>1, <1>2, ClosedTable DEF TypeOK
  <1>4. outbox' \subseteq OutboxRow
    <2>1. run.found \subseteq Holds
      BY <1>1 DEF TypeOK
    <2>2. \A h \in Holds : Event(h, "deposit.hold.expired") \in OutboxRow
      BY DEF Event, OutboxRow
    <2> HIDE DEF OutboxRow
    <2>3. {Event(h, "deposit.hold.expired") : h \in run.found} \subseteq OutboxRow
      BY <2>1, <2>2
    <2> QED
      BY <1>1, <1>2, <2>3, AnnounceTyped
  <1> QED
    BY <1>1, <1>2, <1>3, <1>4 DEF IndInv, TypeOK, CycleKnown, BalanceNonNegative

LEMMA TickInv ==
    ASSUME IndInv, Tick
    PROVE  IndInv'
  BY CoreAssumption DEF Tick, IndInv, TypeOK, CycleKnown, BalanceNonNegative

-----------------------------------------------------------------------------
(* The invariant. *)

LEMMA InitInv == Init => IndInv
  BY CoreAssumption DEF Init, IndInv, TypeOK, CycleKnown, BalanceNonNegative, IsTable, Empty

LEMMA CreateCommandInv ==
    ASSUME IndInv, NEW k, CreateCommand(k)
    PROVE  IndInv'
  BY CreateInv, CreateBookingHoldInv DEF CreateCommand

LEMMA MoneyCommandInv ==
    ASSUME IndInv, NEW k, MoneyCommand(k)
    PROVE  IndInv'
  <1>1. CASE \E d \in DOMAIN deposit, until \in Expiries : Collect(k, d, until)
    BY <1>1, CollectInv
  <1>2. CASE \E d \in DOMAIN deposit, amount \in Amounts : PayBookingInvoice(k, d, amount)
    BY <1>2, PayBookingInvoiceInv
  <1>3. CASE \E d \in DOMAIN deposit, s \in Deposits, required \in Amounts,
               excess \in {"CREDIT", "REFUND"}, receipt \in {"PENDING", "COMPLETED"} :
                  Convert(k, d, s, required, excess, receipt)
    BY <1>3, ConvertInv
  <1>4. CASE \E d \in DOMAIN deposit, refund, keep, deduct \in Shares,
               receipt \in {"PENDING", "COMPLETED"} :
                  Cancel(k, d, refund, keep, deduct, receipt)
    BY <1>4, CancelInv, CoreAssumption
  <1>5. CASE \E p \in DOMAIN op : CompleteRefund(k, p) \/ Reverse(k, p)
    BY <1>5, CompleteRefundInv, ReverseInv
  <1> QED
    BY <1>1, <1>2, <1>3, <1>4, <1>5 DEF MoneyCommand

LEMMA HoldCommandInv ==
    ASSUME IndInv, NEW k, HoldCommand(k)
    PROVE  IndInv'
  BY RenewHoldInv, TransferHoldInv, ReleaseHoldInv DEF HoldCommand

LEMMA StutterInv ==
    ASSUME IndInv, UNCHANGED vars
    PROVE  IndInv'
  BY DEF vars, IndInv, TypeOK, CycleKnown, BalanceNonNegative

(* Every step keeps the invariant. *)
LEMMA StepInv == IndInv /\ [Next]_vars => IndInv'
  <1> SUFFICES ASSUME IndInv, [Next]_vars PROVE IndInv'
    OBVIOUS
  <1>1. CASE \E k \in Keys : Command(k)
    BY <1>1, CreateCommandInv, MoneyCommandInv, HoldCommandInv DEF Command
  <1>2. CASE \E d \in DOMAIN deposit : IssueBookingInvoice(d)
    BY <1>2, IssueBookingInvoiceInv
  <1>3. CASE \E asOf \in 0 .. now + Horizon : ScanHolds(asOf)
    BY <1>3, ScanHoldsInv
  <1>4. CASE ExpireHolds
    BY <1>4, ExpireHoldsInv
  <1>5. CASE Tick
    BY <1>5, TickInv
  <1>6. CASE UNCHANGED vars
    BY <1>6, StutterInv
  <1> QED
    BY <1>1, <1>2, <1>3, <1>4, <1>5, <1>6 DEF Next, Unkeyed

(* IndInv holds in every state of every behaviour. *)
THEOREM CoreInvariant == Spec => []IndInv
  BY InitInv, StepInv, PTL DEF Spec

(* Every table keeps its type: no command writes a row the schema or the   *)
(* readers of the table do not know, and only reversals write negative     *)
(* ledger amounts.                                                         *)
THEOREM CoreTypes == Spec => []TypeOK
  <1>1. IndInv => TypeOK
    BY DEF IndInv
  <1> QED
    BY <1>1, CoreInvariant, PTL

(* However many deposits, operations and clients there are, no balance is  *)
(* ever negative: a conversion, a cancellation, a refund completed late    *)
(* and a reversal never take money that is not there.                      *)
THEOREM NoDepositOverdrawn == Spec => []BalanceNonNegative
  <1>1. IndInv => BalanceNonNegative
    BY DEF IndInv
  <1> QED
    BY <1>1, CoreInvariant, PTL

-----------------------------------------------------------------------------
(* The life of a room hold. *)
Ends == {"EXPIRED", "RELEASED", "CANCELLED"}

(* What a step may do to a hold there is: nothing; end it, hand it over or *)
(* renew it, the first two only while it is active and the last only while *)
(* it has not run out.                                                     *)
KeepsHold(h) ==
    \/ hold'[h] = hold[h]
    \/ Active(h) /\ \E s \in Ends : hold'[h] = [hold[h] EXCEPT !.status = s]
    \/ Active(h) /\ \E x \in Deposits : hold'[h] = [hold[h] EXCEPT !.deposit = x]
    \/ Live(h) /\ \E u \in Nat : u > now /\ hold'[h] = [hold[h] EXCEPT !.expiresAt = u]

AddsHold(g, d, c) ==
    /\ g \in Holds \ DOMAIN hold
    /\ DOMAIN hold' = DOMAIN hold \cup {g}
    /\ hold'[g].deposit = d /\ hold'[g].cycle = c
    /\ HasPlace(hold'[g].room)

HoldsStep ==
    /\ \A h \in DOMAIN hold : h \in DOMAIN hold' /\ KeepsHold(h)
    /\ DOMAIN hold' = DOMAIN hold \/ \E g, d, c : AddsHold(g, d, c)

(* Every active hold was active before and belongs to whom it did, or is a *)
(* new one of deposit d for cycle c.                                       *)
OwnedAsBefore(h) ==
    /\ h \in DOMAIN hold /\ Active(h)
    /\ hold'[h].deposit = hold[h].deposit /\ hold'[h].cycle = hold[h].cycle
OwnersStay == \A h \in DOMAIN hold' : Active(h)' => OwnedAsBefore(h)
OwnersAdd(d, c) ==
    \A h \in DOMAIN hold' : Active(h)' =>
        OwnedAsBefore(h) \/ (hold'[h].deposit = d /\ hold'[h].cycle = c)

(* A hold that has lapsed is active and no longer live. *)
LEMMA LapsedEnd ==
    ASSUME TypeOK, NEW r
    PROVE  \A h \in Lapsed(r) : h \in DOMAIN hold /\ Active(h) /\ ~Live(h)
<1>1. \A h \in DOMAIN hold : hold[h].expiresAt \in Nat
  BY DEF TypeOK, IsTable, HoldRow
<1>2. now \in Nat
  BY CoreAssumption DEF TypeOK
<1> QED
  BY <1>1, <1>2 DEF Lapsed, Live

(* A table in which active holds were closed. *)
LEMMA ClosedHold ==
    ASSUME TypeOK, NEW S, \A h \in S : h \in DOMAIN hold => Active(h), NEW s \in Ends
    PROVE  \A h \in DOMAIN hold :
             /\ h \in S => Closed(S, s)[h] = [hold[h] EXCEPT !.status = s] /\ Active(h)
             /\ h \notin S => Closed(S, s)[h] = hold[h]
             /\ Closed(S, s)[h].status = "ACTIVE" => h \notin S /\ Active(h)
             /\ Closed(S, s)[h].deposit = hold[h].deposit
             /\ Closed(S, s)[h].cycle = hold[h].cycle
<1>1. \A h \in DOMAIN hold : hold[h] \in HoldRow
  BY DEF TypeOK, IsTable
<1> QED
  BY <1>1 DEF Closed, HoldRow, Ends, Active

(* What each write may do to the holds there are: ending some, *)
LEMMA ClosedStep ==
    ASSUME TypeOK, NEW S, \A h \in S : h \in DOMAIN hold => Active(h), NEW s \in Ends,
           hold' = Closed(S, s)
    PROVE  HoldsStep /\ OwnersStay
<1>1. DOMAIN hold' = DOMAIN hold
  BY DEF Closed
<1> DEFINE T == Closed(S, s)
<1>0. \A h \in DOMAIN hold :
         /\ T[h] = hold[h] \/ (Active(h) /\ T[h] = [hold[h] EXCEPT !.status = s])
         /\ T[h].status = "ACTIVE" => Active(h)
         /\ T[h].deposit = hold[h].deposit /\ T[h].cycle = hold[h].cycle
  BY ClosedHold
<1> HIDE DEF T
<1>2. hold' = T
  BY DEF T
<1>3. \A h \in DOMAIN hold : KeepsHold(h)
  BY <1>0, <1>2 DEF KeepsHold
<1>4. ASSUME NEW h \in DOMAIN hold', Active(h)' PROVE OwnedAsBefore(h)
  BY <1>0, <1>1, <1>2, <1>4 DEF OwnedAsBefore, Active
<1> QED
  BY <1>1, <1>3, <1>4 DEF HoldsStep, OwnersStay

(* adding one where a place is free, *)
LEMMA NewHoldStep ==
    ASSUME TypeOK, NEW d \in Deposits, NEW c \in Cycles, NEW r \in Rooms, NEW until,
           HasPlace(r), NewHold(d, c, r, until, Lapsed(r), "EXPIRED")
    PROVE  HoldsStep /\ OwnersAdd(d, c)
<1> DEFINE T == Closed(Lapsed(r), "EXPIRED")
           row == [status |-> "ACTIVE", cycle |-> c, deposit |-> d, room |-> r,
                   expiresAt |-> until]
<1>1. PICK g \in Holds \ DOMAIN hold : hold' = Put(T, g, row)
  BY DEF NewHold
<1>2. DOMAIN T = DOMAIN hold
  BY DEF Closed
<1>3. row.room = r /\ row.deposit = d /\ row.cycle = c
  OBVIOUS
<1>4. \A h \in Lapsed(r) : h \in DOMAIN hold /\ Active(h)
  BY LapsedEnd
<1>0. \A h \in DOMAIN hold :
         /\ T[h] = hold[h] \/ (Active(h) /\ T[h] = [hold[h] EXCEPT !.status = "EXPIRED"])
         /\ T[h].status = "ACTIVE" => Active(h)
         /\ T[h].deposit = hold[h].deposit /\ T[h].cycle = hold[h].cycle
         /\ h \notin Lapsed(r) => T[h] = hold[h]
  BY <1>4, ClosedHold DEF Ends
<1> HIDE DEF T, row
<1>5. /\ DOMAIN hold' = DOMAIN hold \cup {g} /\ hold'[g] = row
      /\ \A h \in DOMAIN hold : hold'[h] = T[h]
  BY <1>1, <1>2 DEF Put
<1>6. AddsHold(g, d, c)
  BY <1>3, <1>5 DEF AddsHold
<1>7. ASSUME NEW h \in DOMAIN hold PROVE KeepsHold(h)
  BY <1>0, <1>5 DEF KeepsHold, Ends
<1>8. ASSUME NEW h \in DOMAIN hold, Active(h)' PROVE OwnedAsBefore(h)
  BY <1>0, <1>5, <1>8 DEF OwnedAsBefore, Active
<1> QED
  BY <1>3, <1>5, <1>6, <1>7, <1>8 DEF HoldsStep, OwnersAdd

(* renewing or adding one, *)
LEMMA EnsureStep ==
    ASSUME TypeOK, NEW d \in Deposits, NEW c \in Cycles, NEW r \in Rooms, NEW until,
           EnsureActiveHold(d, c, r, until)
    PROVE  HoldsStep /\ OwnersAdd(d, c)
<1>1. CASE hold' = Closed(Lapsed(r), "EXPIRED")
  <2>1. \A h \in Lapsed(r) : Active(h)
    BY LapsedEnd
  <2>2. HoldsStep /\ OwnersStay
    BY <1>1, <2>1, ClosedStep DEF Ends
  <2> QED
    BY <2>2 DEF OwnersStay, OwnersAdd
<1>2. CASE HasPlace(r) /\ NewHold(d, c, r, until, Lapsed(r), "EXPIRED")
  BY <1>2, NewHoldStep
<1> QED
  BY <1>1, <1>2 DEF EnsureActiveHold

(* or nothing. *)
LEMMA HoldsUnchanged ==
    ASSUME UNCHANGED hold
    PROVE  HoldsStep /\ OwnersStay
  BY DEF HoldsStep, OwnersStay, OwnedAsBefore, KeepsHold, Active

-----------------------------------------------------------------------------
(* Every step is such a step. *)

LEMMA ConvertStep ==
    ASSUME TypeOK, CycleKnown, NEW k, NEW d \in DOMAIN deposit, NEW s \in Deposits, NEW required \in Amounts,
           NEW excess, NEW receipt,
           Convert(k, d, s, required, excess, receipt)
    PROVE  HoldsStep
<1>1. hold' = [h \in DOMAIN hold |->
                  IF Active(h) /\ hold[h].cycle = deposit[d].cycle
                  THEN [hold[h] EXCEPT !.deposit = s] ELSE hold[h]]
  BY DEF Convert
<1> QED
  BY <1>1 DEF HoldsStep, KeepsHold

(* The same of the commands, one by one. *)
LEMMA RenewHoldStep ==
    ASSUME TypeOK, CycleKnown, NEW k, NEW d \in DOMAIN deposit, NEW until \in Expiries,
           RenewHold(k, d, until)
    PROVE  HoldsStep /\ OwnersStay
<1> DEFINE L == Lapsed(RoomOf(d))
           T == Closed(L, "EXPIRED")
<1>1. PICK h \in LiveHolds(d) : until > hold[h].expiresAt /\ hold' = [T EXCEPT ![h].expiresAt = until]
  BY DEF RenewHold
<1>2. \A x \in L : x \in DOMAIN hold /\ Active(x) /\ ~Live(x)
  BY LapsedEnd
<1>3. h \in DOMAIN hold /\ Live(h) /\ h \notin L
  BY <1>2 DEF LiveHolds
<1>4. until \in Nat /\ until > now
  BY <1>1, <1>3, CoreAssumption DEF Live, TypeOK, IsTable, HoldRow
<1>5. DOMAIN T = DOMAIN hold
  BY DEF Closed
<1>6. hold[h] \in HoldRow
  BY <1>3 DEF TypeOK, IsTable
<1>0. \A x \in DOMAIN hold :
         /\ T[x] = hold[x] \/ (Active(x) /\ T[x] = [hold[x] EXCEPT !.status = "EXPIRED"])
         /\ T[x].status = "ACTIVE" => Active(x)
         /\ T[x].deposit = hold[x].deposit /\ T[x].cycle = hold[x].cycle
         /\ x \notin L => T[x] = hold[x]
  BY <1>2, ClosedHold DEF Ends
<1>7. T[h] = hold[h]
  BY <1>0, <1>3
<1> HIDE DEF T
<1>8. /\ DOMAIN hold' = DOMAIN hold
      /\ hold'[h] = [hold[h] EXCEPT !.expiresAt = until]
      /\ \A x \in DOMAIN hold : x # h => hold'[x] = T[x]
  BY <1>1, <1>3, <1>5, <1>7
<1>9. ASSUME NEW x \in DOMAIN hold PROVE KeepsHold(x)
  <2>1. CASE x = h
    BY <1>3, <1>4, <1>8, <2>1 DEF KeepsHold
  <2>2. CASE x # h
    BY <1>0, <1>8, <2>2 DEF KeepsHold, Ends
  <2> QED
    BY <2>1, <2>2
<1>10. ASSUME NEW x \in DOMAIN hold, Active(x)' PROVE OwnedAsBefore(x)
  <2>1. CASE x = h
    BY <1>3, <1>6, <1>8, <2>1 DEF OwnedAsBefore, Live, HoldRow
  <2>2. CASE x # h
    BY <1>0, <1>8, <1>10, <2>2 DEF OwnedAsBefore, Active
  <2> QED
    BY <2>1, <2>2
<1> QED
  BY <1>8, <1>9, <1>10 DEF HoldsStep, OwnersStay

LEMMA TransferHoldStep ==
    ASSUME TypeOK, CycleKnown, NEW k, NEW d \in DOMAIN deposit, NEW r \in Rooms, NEW until \in Expiries,
           TransferHold(k, d, r, until)
    PROVE  HoldsStep /\ OwnersAdd(d, deposit[d].cycle)
<1> DEFINE L == Lapsed(r) \cup Lapsed(RoomOf(d))
           T == Closed(L, "EXPIRED")
<1>1. PICK h \in LiveHolds(d), g \in Holds \ DOMAIN hold :
         /\ hold[h].cycle = deposit[d].cycle
         /\ hold' = Put([T EXCEPT ![h].status = "RELEASED"], g,
                        [hold[h] EXCEPT !.deposit = d, !.room = r, !.expiresAt = until])
  BY DEF TransferHold
<1>2. \A x \in L : x \in DOMAIN hold /\ Active(x) /\ ~Live(x)
  BY LapsedEnd
<1>3. h \in DOMAIN hold /\ Live(h) /\ h \notin L
  BY <1>2 DEF LiveHolds
<1>4. HasPlace(r)
  BY DEF TransferHold
<1>5. DOMAIN T = DOMAIN hold
  BY DEF Closed
<1>6. hold[h] \in HoldRow
  BY <1>3 DEF TypeOK, IsTable
<1>0. \A x \in DOMAIN hold :
         /\ T[x] = hold[x] \/ (Active(x) /\ T[x] = [hold[x] EXCEPT !.status = "EXPIRED"])
         /\ T[x].status = "ACTIVE" => Active(x)
         /\ T[x].deposit = hold[x].deposit /\ T[x].cycle = hold[x].cycle
         /\ x \notin L => T[x] = hold[x]
  BY <1>2, ClosedHold DEF Ends
<1>7. T[h] = hold[h]
  BY <1>0, <1>3
<1> DEFINE row == [hold[h] EXCEPT !.deposit = d, !.room = r, !.expiresAt = until]
<1>8. row.deposit = d /\ row.room = r /\ row.cycle = deposit[d].cycle
  BY <1>1, <1>6 DEF HoldRow
<1> HIDE DEF T, row, L
<1>9. /\ DOMAIN hold' = DOMAIN hold \cup {g}
      /\ hold'[g] = row
      /\ hold'[h] = [hold[h] EXCEPT !.status = "RELEASED"]
      /\ \A x \in DOMAIN hold : x # h => hold'[x] = T[x]
  BY <1>1, <1>3, <1>5, <1>7 DEF Put, row
<1>10. AddsHold(g, d, deposit[d].cycle)
  BY <1>4, <1>8, <1>9 DEF AddsHold
<1>11. ASSUME NEW x \in DOMAIN hold PROVE KeepsHold(x)
  <2>1. CASE x = h
    BY <1>3, <1>9, <2>1 DEF KeepsHold, Live, Ends
  <2>2. CASE x # h
    BY <1>0, <1>9, <2>2 DEF KeepsHold, Ends
  <2> QED
    BY <2>1, <2>2
<1>12. ASSUME NEW x \in DOMAIN hold, Active(x)' PROVE OwnedAsBefore(x)
  <2>1. x # h
    BY <1>6, <1>9, <1>12 DEF Active, HoldRow
  <2> QED
    BY <1>0, <1>9, <1>12, <2>1 DEF OwnedAsBefore, Active
<1> QED
  BY <1>8, <1>9, <1>10, <1>11, <1>12 DEF HoldsStep, OwnersAdd

LEMMA ReleaseHoldStep ==
    ASSUME TypeOK, NEW k, NEW d, ReleaseHold(k, d)
    PROVE  HoldsStep /\ OwnersStay
<1>1. PICK h \in HoldsOf(d) : hold' = Closed({h}, "RELEASED")
  BY DEF ReleaseHold
<1>2. \A x \in {h} : Active(x)
  BY DEF HoldsOf
<1> QED
  BY <1>1, <1>2, ClosedStep DEF Ends

LEMMA CancelStep ==
    ASSUME TypeOK, NEW k, NEW d, NEW refund, NEW keep, NEW deduct, NEW receipt,
           Cancel(k, d, refund, keep, deduct, receipt)
    PROVE  HoldsStep /\ OwnersStay
<1>1. hold' = Closed(HoldsOf(d), "CANCELLED")
  BY DEF Cancel
<1>2. \A x \in HoldsOf(d) : Active(x)
  BY DEF HoldsOf
<1> QED
  BY <1>1, <1>2, ClosedStep DEF Ends

LEMMA ExpireHoldsStep ==
    ASSUME TypeOK, ExpireHolds
    PROVE  HoldsStep /\ OwnersStay
<1>1. PICK run \in sweep : hold' = Closed(Overdue(run.asOf), "EXPIRED")
  BY DEF ExpireHolds
<1>2. \A x \in Overdue(run.asOf) : Active(x)
  BY DEF Overdue
<1> QED
  BY <1>1, <1>2, ClosedStep DEF Ends

LEMMA AddDepositStep ==
    ASSUME TypeOK, NEW k, NEW d, NEW c \in Cycles, NEW r \in Rooms, NEW row, NEW until,
           AddDeposit(k, d, c, r, row, until)
    PROVE  HoldsStep /\ OwnersAdd(d, c) /\ (row.type # "BOOKING" => OwnersStay)
<1>1. d \in Deposits
  BY DEF AddDeposit
<1>2. CASE row.type = "BOOKING"
  BY <1>1, <1>2, EnsureStep DEF AddDeposit
<1>3. CASE row.type # "BOOKING"
  <2>1. HoldsStep /\ OwnersStay
    BY <1>3, HoldsUnchanged DEF AddDeposit
  <2> QED
    BY <2>1 DEF OwnersStay, OwnersAdd
<1> QED
  BY <1>2, <1>3

LEMMA CollectStep ==
    ASSUME TypeOK, CycleKnown, NEW k, NEW d \in DOMAIN deposit, NEW until, Collect(k, d, until)
    PROVE  HoldsStep /\ OwnersAdd(d, deposit[d].cycle)
<1>1. d \in Deposits /\ deposit[d].cycle \in Cycles /\ RoomOf(d) \in Rooms
  BY RowsTyped
<1>2. CASE deposit[d].type = "BOOKING"
  BY <1>1, <1>2, EnsureStep DEF Collect
<1>3. CASE deposit[d].type # "BOOKING"
  <2>1. HoldsStep /\ OwnersStay
    BY <1>3, HoldsUnchanged DEF Collect
  <2> QED
    BY <2>1 DEF OwnersStay, OwnersAdd
<1> QED
  BY <1>2, <1>3

LEMMA MoneyCommandStep ==
    ASSUME TypeOK, CycleKnown, NEW k, MoneyCommand(k)
    PROVE  HoldsStep
<1>1. CASE \E d \in DOMAIN deposit, until \in Expiries : Collect(k, d, until)
  BY <1>1, CollectStep
<1>2. CASE \E d \in DOMAIN deposit, amount \in Amounts : PayBookingInvoice(k, d, amount)
  BY <1>2, HoldsUnchanged DEF PayBookingInvoice
<1>3. CASE \E d \in DOMAIN deposit, s \in Deposits, required \in Amounts,
             excess \in {"CREDIT", "REFUND"}, receipt \in {"PENDING", "COMPLETED"} :
                Convert(k, d, s, required, excess, receipt)
  BY <1>3, ConvertStep
<1>4. CASE \E d \in DOMAIN deposit, refund, keep, deduct \in Shares,
             receipt \in {"PENDING", "COMPLETED"} :
                Cancel(k, d, refund, keep, deduct, receipt)
  BY <1>4, CancelStep
<1>5. CASE \E p \in DOMAIN op : CompleteRefund(k, p) \/ Reverse(k, p)
  BY <1>5, HoldsUnchanged DEF CompleteRefund, Reverse
<1> QED
  BY <1>1, <1>2, <1>3, <1>4, <1>5 DEF MoneyCommand

(* Every step treats the holds in one of these ways. *)
LEMMA StepKeepsHolds ==
    ASSUME TypeOK, CycleKnown, [Next]_vars
    PROVE  HoldsStep
<1>1. ASSUME NEW k \in Keys, CreateCommand(k) PROVE HoldsStep
  <2>1. ASSUME NEW d \in Deposits, NEW c \in Cycles, NEW r \in Rooms, NEW amount \in Amounts,
               NEW until \in Expiries, NEW type, NEW status,
               \/ Create(k, d, c, r, type, status, amount, until)
               \/ CreateBookingHold(k, d, c, r, amount, until)
        PROVE  HoldsStep
    <3>1. PICK row : AddDeposit(k, d, c, r, row, until)
      BY <2>1 DEF Create, CreateBookingHold
    <3> QED
      BY <3>1, AddDepositStep
  <2> QED
    BY <1>1, <2>1 DEF CreateCommand
<1>2. ASSUME NEW k \in Keys, HoldCommand(k) PROVE HoldsStep
  BY <1>2, RenewHoldStep, TransferHoldStep, ReleaseHoldStep DEF HoldCommand
<1>3. CASE \E k \in Keys : Command(k)
  BY <1>1, <1>2, <1>3, MoneyCommandStep DEF Command
<1>4. CASE Unkeyed
  BY <1>4, ExpireHoldsStep, HoldsUnchanged
     DEF Unkeyed, IssueBookingInvoice, ScanHolds, Tick
<1>5. CASE UNCHANGED vars
  BY <1>5, HoldsUnchanged DEF vars
<1> QED
  BY <1>3, <1>4, <1>5 DEF Next

-----------------------------------------------------------------------------
(* What follows. *)

LEMMA EndedHoldsStep ==
    ASSUME HoldsStep
    PROVE  \A h \in DOMAIN hold : ~Active(h) => hold'[h] = hold[h]
  BY DEF HoldsStep, KeepsHold, Live

(* An ended hold is never revived, moved or handed to another deposit, in  *)
(* whatever order commands, sweeps and the clock come.                     *)
THEOREM EndedHoldsNeverReturn == Spec => EndedHoldsStay
<1>1. IndInv /\ [Next]_vars => [\A h \in DOMAIN hold : ~Active(h) => hold'[h] = hold[h]]_vars
  BY StepKeepsHolds, EndedHoldsStep DEF IndInv
<1> QED
  BY <1>1, CoreInvariant, PTL DEF Spec, EndedHoldsStay

LiveIn(r) == {h \in DOMAIN hold : Live(h) /\ hold[h].room = r}

(* Every way to create a deposit goes through AddDeposit. *)
LEMMA Adds ==
    ASSUME NEW k, CreateCommand(k)
    PROVE  \E d, c, r, row, until : AddDeposit(k, d, c, r, row, until)
<1>1. ASSUME NEW d, NEW c, NEW r, NEW amount, NEW until, NEW type, NEW status,
             Create(k, d, c, r, type, status, amount, until)
      PROVE  \E row : AddDeposit(k, d, c, r, row, until)
  BY <1>1 DEF Create
<1>2. ASSUME NEW d, NEW c, NEW r, NEW amount, NEW until,
             CreateBookingHold(k, d, c, r, amount, until)
      PROVE  \E row : AddDeposit(k, d, c, r, row, until)
  BY <1>2 DEF CreateBookingHold
<1> QED
  BY <1>1, <1>2 DEF CreateCommand

(* Time does not run backwards. *)
LEMMA ClockRuns ==
    ASSUME TypeOK, [Next]_vars
    PROVE  now' >= now
<1>1. now \in Nat
  BY CoreAssumption DEF TypeOK
<1>2. now' = now \/ now' = now + 1
  <2>1. ASSUME NEW k, CreateCommand(k) PROVE now' = now
    <3>1. ASSUME NEW d, NEW c, NEW r, NEW row, NEW until, AddDeposit(k, d, c, r, row, until)
          PROVE  now' = now
      BY <3>1 DEF AddDeposit
    <3> QED
      BY <2>1, <3>1, Adds
  <2>2. ASSUME NEW k, MoneyCommand(k) PROVE now' = now
    <3>1. ASSUME NEW d, NEW until, Collect(k, d, until) PROVE now' = now
      BY <3>1 DEF Collect
    <3>2. ASSUME NEW d, NEW amount, PayBookingInvoice(k, d, amount) PROVE now' = now
      BY <3>2 DEF PayBookingInvoice
    <3>3. ASSUME NEW d, NEW s, NEW required, NEW excess, NEW receipt,
                 Convert(k, d, s, required, excess, receipt)
          PROVE  now' = now
      BY <3>3 DEF Convert
    <3>4. ASSUME NEW d, NEW refund, NEW keep, NEW deduct, NEW receipt,
                 Cancel(k, d, refund, keep, deduct, receipt)
          PROVE  now' = now
      BY <3>4 DEF Cancel
    <3>5. ASSUME NEW p, CompleteRefund(k, p) \/ Reverse(k, p) PROVE now' = now
      BY <3>5 DEF CompleteRefund, Reverse
    <3> QED
      BY <2>2, <3>1, <3>2, <3>3, <3>4, <3>5 DEF MoneyCommand
  <2>3. ASSUME NEW k, HoldCommand(k) PROVE now' = now
    <3>1. ASSUME NEW d, NEW until, RenewHold(k, d, until) PROVE now' = now
      BY <3>1 DEF RenewHold
    <3>2. ASSUME NEW d, NEW r, NEW until, TransferHold(k, d, r, until) PROVE now' = now
      BY <3>2 DEF TransferHold
    <3>3. ASSUME NEW d, ReleaseHold(k, d) PROVE now' = now
      BY <3>3 DEF ReleaseHold
    <3> QED
      BY <2>3, <3>1, <3>2, <3>3 DEF HoldCommand
  <2>4. ASSUME Unkeyed PROVE now' = now \/ now' = now + 1
    BY <2>4 DEF Unkeyed, IssueBookingInvoice, ScanHolds, ExpireHolds, Tick
  <2> QED
    BY <2>1, <2>2, <2>3, <2>4 DEF Next, Command, vars
<1> QED
  BY <1>1, <1>2

(* A new hold needs a free place, and time only frees places. *)
LEMMA RoomStep ==
    ASSUME IndInv, RoomNotOverbooked, [Next]_vars
    PROVE  RoomNotOverbooked'
<1>1. TypeOK /\ CycleKnown /\ TypeOK'
  BY StepInv DEF IndInv
<1>2. HoldsStep /\ now' >= now
  BY <1>1, StepKeepsHolds, ClockRuns
<1> SUFFICES ASSUME NEW r \in Rooms PROVE Cardinality(LiveIn(r))' <= Slots[r]
  BY DEF RoomNotOverbooked, LiveIn
<1>3. ASSUME NEW h \in DOMAIN hold, h \in LiveIn(r)' PROVE h \in LiveIn(r)
  <2>1. h \in DOMAIN hold' /\ Live(h)' /\ hold'[h].room = r
    BY <1>3 DEF LiveIn
  <2>2. hold[h] \in HoldRow /\ now \in Nat /\ now' \in Nat
    BY <1>1, CoreAssumption DEF TypeOK, IsTable
  <2>3. hold[h].expiresAt \in Nat
    BY <2>2 DEF HoldRow
  <2>4. CASE hold'[h] = hold[h]
    BY <1>2, <2>1, <2>2, <2>3, <2>4 DEF LiveIn, Live, Active
  <2>5. CASE \E s \in Ends : hold'[h] = [hold[h] EXCEPT !.status = s]
    BY <2>1, <2>2, <2>5 DEF Ends, Live, Active, HoldRow
  <2>6. CASE \E x \in Deposits : hold'[h] = [hold[h] EXCEPT !.deposit = x]
    <3>1. hold'[h].status = hold[h].status /\ hold'[h].expiresAt = hold[h].expiresAt
          /\ hold'[h].room = hold[h].room
      BY <2>2, <2>6 DEF HoldRow
    <3> QED
      BY <1>2, <2>1, <2>2, <2>3, <3>1 DEF LiveIn, Live, Active
  <2>7. CASE Live(h) /\ \E u \in Nat : hold'[h] = [hold[h] EXCEPT !.expiresAt = u]
    <3>1. hold'[h].room = hold[h].room
      BY <2>2, <2>7 DEF HoldRow
    <3> QED
      BY <2>1, <2>7, <3>1 DEF LiveIn
  <2> QED
    BY <1>2, <2>4, <2>5, <2>6, <2>7 DEF HoldsStep, KeepsHold
<1>4. IsFiniteSet(LiveIn(r)) /\ Cardinality(LiveIn(r)) \in Nat
  <2>1. LiveIn(r) \subseteq Holds
    BY <1>1 DEF LiveIn, TypeOK, IsTable
  <2> QED
    BY <2>1, CoreAssumption, FS_Subset, FS_CardinalityType
<1>5. Cardinality(LiveIn(r)) <= Slots[r] /\ Slots[r] \in Nat
  BY CoreAssumption DEF RoomNotOverbooked, LiveIn
<1>6. CASE DOMAIN hold' = DOMAIN hold
  <2>1. LiveIn(r)' \subseteq LiveIn(r)
    BY <1>3, <1>6 DEF LiveIn
  <2>2. Cardinality(LiveIn(r)') <= Cardinality(LiveIn(r)) /\ Cardinality(LiveIn(r)') \in Nat
    BY <1>4, <2>1, FS_Subset, FS_CardinalityType
  <2> QED
    BY <1>4, <1>5, <2>2
<1>7. ASSUME NEW g, NEW d, NEW c, AddsHold(g, d, c) PROVE Cardinality(LiveIn(r)') <= Slots[r]
  <2>1. LiveIn(r)' \subseteq LiveIn(r) \cup {g}
    BY <1>3, <1>7 DEF LiveIn, AddsHold
  <2>2. CASE hold'[g].room # r
    <3>1. LiveIn(r)' \subseteq LiveIn(r)
      BY <2>1, <2>2 DEF LiveIn
    <3>2. Cardinality(LiveIn(r)') <= Cardinality(LiveIn(r)) /\ Cardinality(LiveIn(r)') \in Nat
      BY <1>4, <3>1, FS_Subset, FS_CardinalityType
    <3> QED
      BY <1>4, <1>5, <3>2
  <2>3. CASE hold'[g].room = r
    <3>1. Cardinality(LiveIn(r)) < Slots[r]
      BY <1>7, <2>3 DEF AddsHold, HasPlace, LiveIn
    <3>2. /\ IsFiniteSet(LiveIn(r) \cup {g})
          /\ Cardinality(LiveIn(r) \cup {g}) <= Cardinality(LiveIn(r)) + 1
          /\ Cardinality(LiveIn(r) \cup {g}) \in Nat
      <4> DEFINE S == LiveIn(r)
      <4>1. IsFiniteSet(S) /\ Cardinality(S) \in Nat
        BY <1>4
      <4> HIDE DEF S
      <4>2. /\ IsFiniteSet(S \cup {g})
            /\ Cardinality(S \cup {g}) = IF g \in S THEN Cardinality(S) ELSE Cardinality(S) + 1
        BY <4>1, FS_AddElement
      <4>3. Cardinality(S \cup {g}) <= Cardinality(S) + 1 /\ Cardinality(S \cup {g}) \in Nat
        BY <4>1, <4>2
      <4> QED
        BY <4>2, <4>3 DEF S
    <3>3. /\ Cardinality(LiveIn(r)') <= Cardinality(LiveIn(r) \cup {g})
          /\ Cardinality(LiveIn(r)') \in Nat
      BY <2>1, <3>2, FS_Subset, FS_CardinalityType
    <3> QED
      BY <1>4, <1>5, <3>1, <3>2, <3>3
  <2> QED
    BY <2>2, <2>3
<1> QED
  BY <1>2, <1>6, <1>7 DEF HoldsStep

(* Concurrent commands never give out more places than a room has. *)
THEOREM NoRoomOverbooked == Spec => []RoomNotOverbooked
<1>1. Init => RoomNotOverbooked
  <2> SUFFICES ASSUME Init, NEW r \in Rooms PROVE Cardinality(LiveIn(r)) <= Slots[r]
    BY DEF RoomNotOverbooked, LiveIn
  <2>1. LiveIn(r) = {}
    BY DEF Init, Empty, LiveIn
  <2> QED
    BY <2>1, FS_EmptySet, CoreAssumption
<1>2. IndInv /\ RoomNotOverbooked /\ [Next]_vars => RoomNotOverbooked'
  BY RoomStep
<1> QED
  BY <1>1, <1>2, CoreInvariant, PTL DEF Spec

-----------------------------------------------------------------------------
(* Whose holds they are. *)

OpenStatus == {"DRAFT", "PENDING", "PAID"}

(* A deposit that stays as open as it was, for the same cycle. *)
Stays(d) ==
    /\ d \in DOMAIN deposit' /\ deposit'[d].cycle = deposit[d].cycle
    /\ deposit[d].status \in OpenStatus => deposit'[d].status \in OpenStatus

(* Holds keep their deposits open if no new hold is given and no open      *)
(* deposit is closed,                                                      *)
LEMMA OwnersStayOpen ==
    ASSUME HeldByOpenDeposit, OwnersStay, \A x \in DOMAIN deposit : Stays(x)
    PROVE  HeldByOpenDeposit'
  BY DEF HeldByOpenDeposit, OwnersStay, OwnedAsBefore, Stays, Active, OpenStatus

(* or if the new one belongs to an open deposit. *)
LEMMA OwnersAddOpen ==
    ASSUME HeldByOpenDeposit, NEW d, NEW c, OwnersAdd(d, c), \A x \in DOMAIN deposit : Stays(x),
           d \in DOMAIN deposit', deposit'[d].cycle = c, deposit'[d].status \in OpenStatus
    PROVE  HeldByOpenDeposit'
  BY DEF HeldByOpenDeposit, OwnersAdd, OwnedAsBefore, Stays, Active, OpenStatus

(* A step that leaves the deposits alone closes none. *)
LEMMA SameDeposits ==
    ASSUME UNCHANGED deposit
    PROVE  \A x \in DOMAIN deposit : Stays(x)
  BY DEF Stays

(* That an active hold has an open deposit, command by command. *)
LEMMA HeldAfterAdd ==
    ASSUME IndInv, HeldByOpenDeposit, NEW k, NEW d, NEW c \in Cycles, NEW r \in Rooms,
           NEW row, NEW until, AddDeposit(k, d, c, r, row, until),
           row.cycle = c, row.status \in OpenStatus
    PROVE  HeldByOpenDeposit'
<1>1. OwnersAdd(d, c)
  BY AddDepositStep DEF IndInv
<1>2. d \notin DOMAIN deposit /\ deposit' = Put(deposit, d, row)
  BY DEF AddDeposit
<1>3. \A x \in DOMAIN deposit : Stays(x)
  BY <1>2 DEF Put, Stays
<1>4. d \in DOMAIN deposit' /\ deposit'[d] = row
  BY <1>2 DEF Put
<1> QED
  BY <1>1, <1>3, <1>4, OwnersAddOpen

LEMMA HeldAfterCreate ==
    ASSUME IndInv, HeldByOpenDeposit, NEW k, CreateCommand(k)
    PROVE  HeldByOpenDeposit'
<1>1. ASSUME NEW d, NEW c \in Cycles, NEW r \in Rooms, NEW amount, NEW until, NEW type,
             NEW status \in CreateStatuses, Create(k, d, c, r, type, status, amount, until)
      PROVE  HeldByOpenDeposit'
  <2> DEFINE row == NewDeposit(type, status, amount, c, "NONE")
  <2>1. AddDeposit(k, d, c, r, row, until)
    BY <1>1 DEF Create
  <2>2. row.cycle = c /\ row.status \in OpenStatus
    BY CoreAssumption DEF NewDeposit, OpenStatus
  <2> HIDE DEF row
  <2> QED
    BY <2>1, <2>2, HeldAfterAdd
<1>2. ASSUME NEW d, NEW c \in Cycles, NEW r \in Rooms, NEW amount, NEW until,
             CreateBookingHold(k, d, c, r, amount, until)
      PROVE  HeldByOpenDeposit'
  <2> DEFINE row == NewDeposit("BOOKING", "PENDING", amount, c, "MARKED")
  <2>1. AddDeposit(k, d, c, r, row, until)
    BY <1>2 DEF CreateBookingHold
  <2>2. row.cycle = c /\ row.status \in OpenStatus
    BY DEF NewDeposit, OpenStatus
  <2> HIDE DEF row
  <2> QED
    BY <2>1, <2>2, HeldAfterAdd
<1> QED
  BY <1>1, <1>2 DEF CreateCommand

LEMMA HeldAfterCollect ==
    ASSUME IndInv, HeldByOpenDeposit, NEW k, NEW d \in DOMAIN deposit, NEW until, Collect(k, d, until)
    PROVE  HeldByOpenDeposit'
<1>1. OwnersAdd(d, deposit[d].cycle)
  BY CollectStep DEF IndInv
<1>2. deposit' = [deposit EXCEPT ![d].status = "PAID"] /\ deposit[d] \in DepositRow
  BY RowsTyped DEF Collect, SetStatus, IndInv
<1>3. DOMAIN deposit' = DOMAIN deposit
      /\ deposit'[d].status = "PAID" /\ deposit'[d].cycle = deposit[d].cycle
  BY <1>2 DEF DepositRow
<1>4. \A x \in DOMAIN deposit : Stays(x)
  BY <1>2, <1>3 DEF Stays, OpenStatus
<1> QED
  BY <1>1, <1>3, <1>4, OwnersAddOpen DEF OpenStatus

LEMMA HeldAfterPay ==
    ASSUME IndInv, HeldByOpenDeposit, NEW k, NEW d \in DOMAIN deposit, NEW amount,
           PayBookingInvoice(k, d, amount)
    PROVE  HeldByOpenDeposit'
<1> DEFINE total == deposit[d].invoicePaid + amount
           new == FundedStatus(total, deposit[d].amount)
<1>1. deposit' = [deposit EXCEPT ![d] = [@ EXCEPT !.invoicePaid = total, !.status = new]]
  BY DEF PayBookingInvoice
<1>2. deposit[d] \in DepositRow /\ new \in OpenStatus
  BY RowsTyped DEF IndInv, FundedStatus, OpenStatus
<1> HIDE DEF total, new
<1>3. DOMAIN deposit' = DOMAIN deposit
      /\ deposit'[d].status = new /\ deposit'[d].cycle = deposit[d].cycle
  BY <1>1, <1>2 DEF DepositRow
<1>4. \A x \in DOMAIN deposit : Stays(x)
  BY <1>1, <1>2, <1>3 DEF Stays
<1>5. OwnersStay
  BY HoldsUnchanged DEF PayBookingInvoice
<1> QED
  BY <1>4, <1>5, OwnersStayOpen

(* The holds of the cycle go over to the security deposit; those of the    *)
(* booking are among them.                                                 *)
LEMMA HeldAfterConvert ==
    ASSUME IndInv, HeldByOpenDeposit, NEW k, NEW d \in DOMAIN deposit, NEW s \in Deposits,
           NEW required, NEW excess, NEW receipt,
           Convert(k, d, s, required, excess, receipt)
    PROVE  HeldByOpenDeposit'
<1> DEFINE plan == ConversionPlan(balance[d], required)
           status == FundedStatus(required - plan.additional, required)
           target == IF s \in DOMAIN deposit THEN [deposit[s] EXCEPT !.status = status]
                     ELSE NewDeposit("SECURITY", status, required, deposit[d].cycle, "NONE")
           booking == [deposit EXCEPT ![d].status = "CONVERTED_TO_CONTRACT"]
<1>1. deposit' = Put(booking, s, target)
  BY DEF Convert
<1>2. status \in OpenStatus
  BY DEF FundedStatus, OpenStatus
<1> HIDE DEF status
<1>3. \A x \in DOMAIN deposit : deposit[x] \in DepositRow
  BY RowsTyped DEF IndInv
<1>4. target.status = status /\ target.cycle = deposit[d].cycle
  <2>1. CASE s \in DOMAIN deposit
    BY <1>3, <2>1 DEF DepositRow, Convert, IsTarget
  <2>2. CASE s \notin DOMAIN deposit
    BY <2>2 DEF NewDeposit
  <2> QED
    BY <2>1, <2>2
<1> HIDE DEF target
<1>5. /\ DOMAIN deposit' = DOMAIN deposit \cup {s} /\ deposit'[s] = target
      /\ \A x \in DOMAIN deposit : x # d /\ x # s => deposit'[x] = deposit[x]
      /\ d # s => deposit'[d].cycle = deposit[d].cycle
  BY <1>1, <1>3 DEF Put, DepositRow
<1>6. hold' = [h \in DOMAIN hold |->
                  IF Active(h) /\ hold[h].cycle = deposit[d].cycle
                  THEN [hold[h] EXCEPT !.deposit = s] ELSE hold[h]]
  BY DEF Convert
<1>7. SUFFICES ASSUME NEW h \in DOMAIN hold', Active(h)'
               PROVE  /\ hold'[h].deposit \in DOMAIN deposit'
                      /\ deposit'[hold'[h].deposit].status \in OpenStatus
                      /\ deposit'[hold'[h].deposit].cycle = hold'[h].cycle
  BY DEF HeldByOpenDeposit, OpenStatus
<1>8. h \in DOMAIN hold /\ hold[h] \in HoldRow
  BY <1>6, RowsTyped DEF IndInv
<1>9. Active(h)
  BY <1>6, <1>7, <1>8 DEF Active, HoldRow
<1>10. CASE hold[h].cycle = deposit[d].cycle
  <2>1. hold'[h].deposit = s /\ hold'[h].cycle = deposit[d].cycle
    BY <1>6, <1>8, <1>9, <1>10 DEF HoldRow
  <2> QED
    BY <1>2, <1>4, <1>5, <2>1
<1>11. CASE hold[h].cycle # deposit[d].cycle
  <2>1. hold'[h] = hold[h]
    BY <1>6, <1>8, <1>11
  <2>2. /\ hold[h].deposit \in DOMAIN deposit
        /\ deposit[hold[h].deposit].status \in OpenStatus
        /\ deposit[hold[h].deposit].cycle = hold[h].cycle
    BY <1>8, <1>9 DEF HeldByOpenDeposit, OpenStatus
  <2>3. hold[h].deposit # d
    BY <1>11, <2>2
  <2>4. hold[h].deposit # s
    BY <1>11, <2>2 DEF Convert, IsTarget
  <2> QED
    BY <1>5, <2>1, <2>2, <2>3, <2>4
<1> QED
  BY <1>10, <1>11

LEMMA HeldAfterCancel ==
    ASSUME IndInv, HeldByOpenDeposit, NEW k, NEW d \in DOMAIN deposit, NEW refund, NEW keep,
           NEW deduct, NEW receipt, Cancel(k, d, refund, keep, deduct, receipt)
    PROVE  HeldByOpenDeposit'
<1>1. deposit' = [deposit EXCEPT ![d].status = "CANCELLED"]
  BY DEF Cancel, SetStatus
<1>2. hold' = Closed(HoldsOf(d), "CANCELLED")
  BY DEF Cancel
<1>3. DOMAIN deposit' = DOMAIN deposit /\ \A x \in DOMAIN deposit : x # d => deposit'[x] = deposit[x]
  BY <1>1
<1>4. OwnersStay
  BY CancelStep DEF IndInv
<1>5. SUFFICES ASSUME NEW h \in DOMAIN hold', Active(h)'
               PROVE  /\ hold'[h].deposit \in DOMAIN deposit'
                      /\ deposit'[hold'[h].deposit].status \in OpenStatus
                      /\ deposit'[hold'[h].deposit].cycle = hold'[h].cycle
  BY DEF HeldByOpenDeposit, OpenStatus
<1>6. OwnedAsBefore(h)
  BY <1>4, <1>5 DEF OwnersStay
<1>7. /\ hold[h].deposit \in DOMAIN deposit
      /\ deposit[hold[h].deposit].status \in OpenStatus
      /\ deposit[hold[h].deposit].cycle = hold[h].cycle
  BY <1>6 DEF HeldByOpenDeposit, OpenStatus, OwnedAsBefore
<1>8. h \notin HoldsOf(d)
  <2>1. \A x \in HoldsOf(d) : Active(x)
    BY DEF HoldsOf
  <2>2. h \in HoldsOf(d) => hold'[h] = [hold[h] EXCEPT !.status = "CANCELLED"]
    BY <1>2, <1>6 DEF Closed, OwnedAsBefore
  <2>3. hold[h] \in HoldRow
    BY <1>6, RowsTyped DEF IndInv, OwnedAsBefore
  <2> QED
    BY <1>5, <2>2, <2>3 DEF Active, HoldRow
<1>9. hold[h].deposit # d
  BY <1>6, <1>7, <1>8 DEF HoldsOf, OwnedAsBefore
<1> QED
  BY <1>3, <1>6, <1>7, <1>9 DEF OwnedAsBefore

LEMMA HeldAfterTransfer ==
    ASSUME IndInv, HeldByOpenDeposit, NEW k, NEW d \in DOMAIN deposit, NEW r \in Rooms,
           NEW until \in Expiries, TransferHold(k, d, r, until)
    PROVE  HeldByOpenDeposit'
<1>1. OwnersAdd(d, deposit[d].cycle)
  BY TransferHoldStep DEF IndInv
<1>2. UNCHANGED deposit /\ deposit[d].status \in OpenStatus
  BY DEF TransferHold, OpenStatus
<1>3. \A x \in DOMAIN deposit : Stays(x)
  BY <1>2, SameDeposits
<1> QED
  BY <1>1, <1>2, <1>3, OwnersAddOpen

LEMMA HeldAfterIssue ==
    ASSUME IndInv, HeldByOpenDeposit, NEW d \in DOMAIN deposit, IssueBookingInvoice(d)
    PROVE  HeldByOpenDeposit'
<1>1. deposit' = [deposit EXCEPT ![d].billing = "INVOICED"] /\ UNCHANGED hold
  BY DEF IssueBookingInvoice
<1>2. \A x \in DOMAIN deposit : deposit[x] \in DepositRow
  BY RowsTyped DEF IndInv
<1>3. \A x \in DOMAIN deposit : Stays(x)
  BY <1>1, <1>2 DEF Stays, DepositRow
<1> QED
  BY <1>1, <1>3, HoldsUnchanged, OwnersStayOpen

(* Every step keeps the holds with open deposits. *)
LEMMA HeldStep ==
    ASSUME IndInv, HeldByOpenDeposit, [Next]_vars
    PROVE  HeldByOpenDeposit'
<1>0. TypeOK /\ CycleKnown
  BY DEF IndInv
<1>1. ASSUME NEW k, MoneyCommand(k) PROVE HeldByOpenDeposit'
  <2>1. CASE \E d \in DOMAIN deposit, until \in Expiries : Collect(k, d, until)
    BY <2>1, HeldAfterCollect
  <2>2. CASE \E d \in DOMAIN deposit, amount \in Amounts : PayBookingInvoice(k, d, amount)
    BY <2>2, HeldAfterPay
  <2>3. CASE \E d \in DOMAIN deposit, s \in Deposits, required \in Amounts,
               excess \in {"CREDIT", "REFUND"}, receipt \in {"PENDING", "COMPLETED"} :
                  Convert(k, d, s, required, excess, receipt)
    BY <2>3, HeldAfterConvert
  <2>4. CASE \E d \in DOMAIN deposit, refund, keep, deduct \in Shares,
               receipt \in {"PENDING", "COMPLETED"} :
                  Cancel(k, d, refund, keep, deduct, receipt)
    BY <2>4, HeldAfterCancel
  <2>5. CASE \E p \in DOMAIN op : CompleteRefund(k, p) \/ Reverse(k, p)
    BY <2>5, HoldsUnchanged, SameDeposits, OwnersStayOpen DEF CompleteRefund, Reverse
  <2> QED
    BY <1>1, <2>1, <2>2, <2>3, <2>4, <2>5 DEF MoneyCommand
<1>2. ASSUME NEW k, NEW d \in DOMAIN deposit, NEW until \in Expiries,
             RenewHold(k, d, until) \/ ReleaseHold(k, d)
      PROVE  HeldByOpenDeposit'
  BY <1>0, <1>2, RenewHoldStep, ReleaseHoldStep, SameDeposits, OwnersStayOpen
     DEF RenewHold, ReleaseHold
<1>3. ASSUME NEW k, HoldCommand(k) PROVE HeldByOpenDeposit'
  <2>1. CASE \E d \in DOMAIN deposit : ReleaseHold(k, d)
    <3>1. PICK d \in DOMAIN deposit : ReleaseHold(k, d)
      BY <2>1
    <3> QED
      BY <1>0, <3>1, ReleaseHoldStep, SameDeposits, OwnersStayOpen DEF ReleaseHold
  <2> QED
    BY <1>2, <1>3, <2>1, HeldAfterTransfer DEF HoldCommand
<1>4. ASSUME Unkeyed PROVE HeldByOpenDeposit'
  <2>1. CASE \E d \in DOMAIN deposit : IssueBookingInvoice(d)
    BY <2>1, HeldAfterIssue
  <2>2. CASE ExpireHolds
    BY <1>0, <2>2, ExpireHoldsStep, SameDeposits, OwnersStayOpen DEF ExpireHolds
  <2>3. CASE \/ \E asOf \in 0 .. now + Horizon : ScanHolds(asOf)
             \/ Tick
    BY <2>3, HoldsUnchanged, SameDeposits, OwnersStayOpen DEF ScanHolds, Tick
  <2> QED
    BY <1>4, <2>1, <2>2, <2>3 DEF Unkeyed
<1>5. CASE UNCHANGED vars
  BY <1>5, HoldsUnchanged, SameDeposits, OwnersStayOpen DEF vars
<1> QED
  BY <1>1, <1>3, <1>4, <1>5, HeldAfterCreate DEF Next, Command

(* An active hold always belongs to a deposit that can still become a      *)
(* contract, and to the rental cycle of that deposit.                      *)
THEOREM HoldsHaveOpenDeposits == Spec => []HeldByOpenDeposit
<1>1. Init => HeldByOpenDeposit
  BY DEF Init, Empty, HeldByOpenDeposit
<1>2. IndInv /\ HeldByOpenDeposit /\ [Next]_vars => HeldByOpenDeposit'
  BY HeldStep
<1> QED
  BY <1>1, <1>2, CoreInvariant, PTL DEF Spec

-----------------------------------------------------------------------------
(* The sweep.  What it found it will expire, unless somebody else ends it  *)
(* first: a renewal takes a hold that has not run out.                     *)

Told(h) == Event(h, "deposit.hold.expired") \in outbox

SweepInv ==
    /\ \A h \in Holds : Told(h) => h \in DOMAIN hold /\ ~Active(h)
    /\ \A run \in sweep :
         /\ run.asOf <= now
         /\ \A h \in run.found :
              h \in DOMAIN hold /\ (Active(h) => hold[h].expiresAt <= run.asOf)

(* Nobody is told of an expiry. *)
Quiet ==
    /\ \A h \in Holds : Told(h)' => Told(h)
    /\ sweep' = sweep

(* An announcement of anything else than an expiry tells of no hold. *)
LEMMA QuietAnnouncement ==
    ASSUME NEW E, Announce(E), \A e \in E : e.event # "deposit.hold.expired", sweep' = sweep
    PROVE  Quiet
<1>1. \A h \in Holds : Event(h, "deposit.hold.expired").event = "deposit.hold.expired"
  BY DEF Event
<1> QED
  BY <1>1 DEF Announce, Quiet, Told

(* So does a single event, *)
LEMMA QuietEvent ==
    ASSUME NEW k, NEW name, name # "deposit.hold.expired", Announce({Event(k, name)}),
           sweep' = sweep
    PROVE  Quiet
<1>1. Event(k, name).event = name
  BY DEF Event
<1>2. \A e \in {Event(k, name)} : e.event # "deposit.hold.expired"
  BY <1>1
<1> QED
  BY <1>2, QuietAnnouncement

(* nor do the events of a cancellation *)
LEMMA CancellationEventNames ==
    ASSUME NEW k, NEW d, NEW refund, NEW keep, NEW deduct, NEW pending,
           NEW e \in CancellationEvents(k, d, refund, keep, deduct, pending)
    PROVE  e.event # "deposit.hold.expired"
<1>1. \A x, name : Event(x, name).event = name
  BY DEF Event
<1>2. \A t : Disposition(k, t).event = "deposit.booking_disposition"
  BY DEF Disposition
<1>3. \/ e \in {Event(k, "deposit.cancelled"), Event(k, "deposit.refund_requested"),
               Event(k, "deposit.refunded"), Event(k, "deposit.deducted"),
               Event(d, "invoice.booking_hold.cancelled")}
      \/ \E t : e = Disposition(k, t)
  BY DEF CancellationEvents
<1> QED
  BY <1>1, <1>2, <1>3

(* or of any command about money *)
LEMMA QuietMoney ==
    ASSUME NEW k, MoneyCommand(k)
    PROVE  Quiet
<1>1. ASSUME NEW d, NEW until, Collect(k, d, until) PROVE Quiet
  <2>1. Announce({Event(k, "deposit.collected")}) /\ sweep' = sweep
    BY <1>1 DEF Collect
  <2> QED
    BY <2>1, QuietEvent
<1>2. ASSUME NEW d, NEW amount, PayBookingInvoice(k, d, amount) PROVE Quiet
  <2>1. Announce({Event(k, "deposit.collected")}) /\ sweep' = sweep
    BY <1>2 DEF PayBookingInvoice
  <2> QED
    BY <2>1, QuietEvent
<1>3. ASSUME NEW d, NEW s, NEW required, NEW excess, NEW receipt,
             Convert(k, d, s, required, excess, receipt)
      PROVE  Quiet
  <2>1. Announce({Event(k, "deposit.converted_to_security")}) /\ sweep' = sweep
    BY <1>3 DEF Convert
  <2> QED
    BY <2>1, QuietEvent
<1>4. ASSUME NEW d, NEW refund, NEW keep, NEW deduct, NEW receipt,
             Cancel(k, d, refund, keep, deduct, receipt)
      PROVE  Quiet
  <2>1. PICK pending : /\ Announce(CancellationEvents(k, d, refund, keep, deduct, pending))
                       /\ sweep' = sweep
    BY <1>4 DEF Cancel
  <2>2. \A e \in CancellationEvents(k, d, refund, keep, deduct, pending) :
            e.event # "deposit.hold.expired"
    BY CancellationEventNames
  <2> QED
    BY <2>1, <2>2, QuietAnnouncement
<1>5. ASSUME NEW p, CompleteRefund(k, p) PROVE Quiet
  <2>1. PICK E : /\ Announce(E) /\ sweep' = sweep
                 /\ E \subseteq {Event(k, "deposit.refunded"), Disposition(k, "REFUND")}
    <3> DEFINE E == {Event(k, "deposit.refunded")} \cup
                    (IF Booked(op[p].source) THEN {Disposition(k, "REFUND")} ELSE {})
    <3>1. Announce(E) /\ sweep' = sweep
      BY <1>5 DEF CompleteRefund
    <3>2. E \subseteq {Event(k, "deposit.refunded"), Disposition(k, "REFUND")}
      OBVIOUS
    <3> QED
      BY <3>1, <3>2
  <2>2. /\ Event(k, "deposit.refunded").event = "deposit.refunded"
        /\ Disposition(k, "REFUND").event = "deposit.booking_disposition"
    BY DEF Event, Disposition
  <2>3. \A e \in E : e.event # "deposit.hold.expired"
    BY <2>1, <2>2
  <2> QED
    BY <2>1, <2>3, QuietAnnouncement
<1>6. ASSUME NEW p, Reverse(k, p) PROVE Quiet
  <2>1. Announce({Event(k, "deposit.ledger.reversed")}) /\ sweep' = sweep
    BY <1>6 DEF Reverse
  <2> QED
    BY <2>1, QuietEvent
<1> QED
  BY <1>1, <1>2, <1>3, <1>4, <1>5, <1>6 DEF MoneyCommand

(* or any other. *)
LEMMA QuietCommand ==
    ASSUME NEW k, Command(k)
    PROVE  Quiet
<1>1. ASSUME NEW d, NEW c, NEW r, NEW row, NEW until, AddDeposit(k, d, c, r, row, until)
      PROVE  Quiet
  <2>1. Announce({Event(k, "deposit.created")}) /\ sweep' = sweep
    BY <1>1 DEF AddDeposit
  <2> QED
    BY <2>1, QuietEvent
<1>2. ASSUME CreateCommand(k) PROVE Quiet
  <2>1. \E d, c, r, row, until : AddDeposit(k, d, c, r, row, until)
    BY <1>2, Adds
  <2> QED
    BY <1>1, <2>1
<1>3. ASSUME NEW d, NEW until, RenewHold(k, d, until) PROVE Quiet
  BY <1>3 DEF RenewHold, Quiet, Told
<1>4. ASSUME NEW d, NEW r, NEW until, TransferHold(k, d, r, until) PROVE Quiet
  BY <1>4 DEF TransferHold, Quiet, Told
<1>5. ASSUME NEW d, ReleaseHold(k, d) PROVE Quiet
  BY <1>5 DEF ReleaseHold, Quiet, Told
<1>6. ASSUME HoldCommand(k) PROVE Quiet
  BY <1>3, <1>4, <1>5, <1>6 DEF HoldCommand
<1> QED
  BY <1>2, <1>6, QuietMoney DEF Command

(* What a sweep found stays found under any step. *)
LEMMA FoundStay ==
    ASSUME IndInv, SweepInv, [Next]_vars, NEW run \in sweep
    PROVE  /\ run.asOf <= now'
           /\ \A h \in run.found :
                h \in DOMAIN hold' /\ (Active(h)' => hold'[h].expiresAt <= run.asOf)
<1>1. TypeOK /\ CycleKnown /\ TypeOK'
  BY StepInv DEF IndInv
<1>2. HoldsStep /\ now' >= now
  BY <1>1, StepKeepsHolds, ClockRuns
<1>3. now \in Nat /\ now' \in Nat /\ run.asOf \in Nat /\ run.asOf <= now
  BY <1>1, CoreAssumption DEF TypeOK, SweepInv
<1>4. ASSUME NEW h \in run.found, Active(h)' PROVE hold'[h].expiresAt <= run.asOf
  <2>1. h \in DOMAIN hold /\ (Active(h) => hold[h].expiresAt <= run.asOf)
    BY DEF SweepInv
  <2>2. hold[h] \in HoldRow
    BY <1>1, <2>1 DEF TypeOK, IsTable
  <2>3. hold[h].expiresAt \in Nat
    BY <2>2 DEF HoldRow
  <2>4. CASE hold'[h] = hold[h]
    BY <1>4, <2>1, <2>4 DEF Active
  <2>5. CASE \E s \in Ends : hold'[h] = [hold[h] EXCEPT !.status = s]
    BY <1>4, <2>2, <2>5 DEF Ends, Active, HoldRow
  <2>6. CASE Active(h) /\ \E x \in Deposits : hold'[h] = [hold[h] EXCEPT !.deposit = x]
    <3>1. hold'[h].expiresAt = hold[h].expiresAt
      BY <2>2, <2>6 DEF HoldRow
    <3> QED
      BY <2>1, <2>6, <3>1
  <2>7. CASE Live(h)
    BY <1>3, <2>1, <2>3, <2>7 DEF Live
  <2> QED
    BY <1>2, <2>1, <2>4, <2>5, <2>6, <2>7 DEF HoldsStep, KeepsHold
<1>5. \A h \in run.found : h \in DOMAIN hold'
  BY <1>2 DEF SweepInv, HoldsStep
<1> QED
  BY <1>2, <1>3, <1>4, <1>5

(* A hold that was announced as expired has ended and stays so. *)
LEMMA ToldStay ==
    ASSUME IndInv, SweepInv, [Next]_vars, NEW h \in Holds, Told(h)
    PROVE  h \in DOMAIN hold' /\ ~Active(h)'
<1>1. HoldsStep
  BY StepKeepsHolds DEF IndInv
<1>2. h \in DOMAIN hold /\ ~Active(h)
  BY DEF SweepInv
<1>3. h \in DOMAIN hold' /\ hold'[h] = hold[h]
  BY <1>1, <1>2, EndedHoldsStep DEF HoldsStep
<1> QED
  BY <1>2, <1>3 DEF Active

(* A sweep that looks no further than now announces holds that have run    *)
(* out.                                                                    *)
LEMMA SweepStep ==
    ASSUME Horizon = 0, IndInv, SweepInv, [Next]_vars
    PROVE  SweepInv'
<1>0. TypeOK /\ now \in Nat
  BY CoreAssumption DEF IndInv, TypeOK
<1>1. CASE Quiet
  BY <1>1, FoundStay, ToldStay DEF Quiet, SweepInv
<1>2. ASSUME NEW asOf \in 0 .. now + Horizon, ScanHolds(asOf) PROVE SweepInv'
  <2>1. asOf <= now /\ asOf \in Nat
    BY <1>0
  <2>2. sweep' = {[asOf |-> asOf, found |-> Overdue(asOf)]} /\ UNCHANGED <<now, hold, outbox>>
    BY <1>2 DEF ScanHolds
  <2>3. \A h \in Overdue(asOf) : h \in DOMAIN hold /\ hold[h].expiresAt <= asOf
    BY DEF Overdue
  <2> QED
    BY <2>1, <2>2, <2>3 DEF SweepInv, Told, Active
<1>3. ASSUME ExpireHolds PROVE SweepInv'
  <2>1. PICK run \in sweep :
            /\ hold' = Closed(Overdue(run.asOf), "EXPIRED")
            /\ Announce({Event(h, "deposit.hold.expired") : h \in run.found})
            /\ sweep' = {}
    BY <1>3 DEF ExpireHolds
  <2>2. ASSUME NEW h \in Holds, Told(h)' PROVE h \in DOMAIN hold' /\ ~Active(h)'
    <3>1. CASE Told(h)
      BY <3>1, ToldStay
    <3>2. CASE h \in run.found
      <4>1. h \in DOMAIN hold /\ (Active(h) => hold[h].expiresAt <= run.asOf)
        BY <3>2 DEF SweepInv
      <4>2. h \in DOMAIN hold' /\ (Active(h) => h \in Overdue(run.asOf))
        BY <2>1, <4>1 DEF Overdue, Closed
      <4>3. hold[h] \in HoldRow
        BY <1>0, <4>1 DEF TypeOK, IsTable
      <4> QED
        BY <2>1, <4>1, <4>2, <4>3 DEF Closed, Active, HoldRow
    <3>3. Told(h) \/ h \in run.found
      <4>1. \A x : Event(x, "deposit.hold.expired").about = x
        BY DEF Event
      <4> QED
        BY <2>1, <2>2, <4>1 DEF Announce, Told
    <3> QED
      BY <3>1, <3>2, <3>3
  <2> QED
    BY <2>1, <2>2 DEF SweepInv
<1>4. CASE Unkeyed
  <2>1. CASE \E d \in DOMAIN deposit : IssueBookingInvoice(d)
    BY <1>1, <2>1 DEF IssueBookingInvoice, Quiet, Told
  <2>2. CASE Tick
    BY <1>1, <2>2 DEF Tick, Quiet, Told
  <2> QED
    BY <1>2, <1>3, <1>4, <2>1, <2>2 DEF Unkeyed
<1>5. CASE UNCHANGED vars
  BY <1>1, <1>5 DEF vars, Quiet, Told
<1> QED
  BY <1>1, <1>4, <1>5, QuietCommand DEF Next

(* A sweep that looks no further than the present, as the scheduler's      *)
(* does, announces no hold that still takes a place, although the holds it *)
(* read may be renewed, released or handed over before it writes.          *)
THEOREM NoHoldAnnouncedEarly == Horizon = 0 => (Spec => []AnnouncedHoldsEnded)
<1> SUFFICES ASSUME Horizon = 0 PROVE Spec => []AnnouncedHoldsEnded
  OBVIOUS
<1>1. Init => SweepInv
  BY DEF Init, SweepInv, Told
<1>2. IndInv /\ SweepInv /\ [Next]_vars => SweepInv'
  BY SweepStep
<1>3. IndInv /\ SweepInv => AnnouncedHoldsEnded
  BY DEF IndInv, TypeOK, IsTable, SweepInv, AnnouncedHoldsEnded, Told
<1> QED
  BY <1>1, <1>2, <1>3, CoreInvariant, PTL DEF Spec
=============================================================================
