------------------------- MODULE DepositLedgerProofs -------------------------
(***************************************************************************)
(* The money of the deposit core and of the older cancellation endpoint,   *)
(* for any number of deposits, operations and amounts.                     *)
(*                                                                         *)
(* Every command commits one operation of six kinds: a note, cash, a       *)
(* conversion, a cancellation, a reversal or a payout (BooksStep).  All    *)
(* sums over the ledger grow by the rows of that operation, so the totals  *)
(* and the money held follow from the kinds alone.  That status, invoice   *)
(* and debt agree with the ledger needs more than any of them says: it is  *)
(* stated deposit by deposit (Sound), and of the core without the older    *)
(* endpoint also what is still owed (Exact).                               *)
(***************************************************************************)
EXTENDS DepositDesk, DepositCoreProofs, SumFacts

(* The operations a step of the core may commit; the endpoint computes the *)
(* amounts of a cancellation and is not bound to Shares.                   *)
CancelCommand(k) ==
    \E d \in DOMAIN deposit, refund, keep, deduct \in Nat, receipt \in {"PENDING", "COMPLETED"} :
        Cancel(k, d, refund, keep, deduct, receipt)

CoreStep == (\E k \in Keys : Command(k) \/ CancelCommand(k)) \/ Unkeyed

-----------------------------------------------------------------------------
(* What a step does to the operations. *)

SameEntry(q) ==
    /\ op'[q].type = op[q].type /\ op'[q].source = op[q].source
    /\ op'[q].target = op[q].target /\ op'[q].rows = op[q].rows
    /\ op'[q].due = op[q].due /\ op'[q].reverses = op[q].reverses

(* Operation o is committed under key k. *)
Commit(k, o) ==
    /\ k \in Keys \ DOMAIN op /\ o \in OperationRow
    /\ o.type # "REVERSE_LEDGER" => o.rows \in [RowTypes -> Nat]
    /\ DOMAIN op' = DOMAIN op \cup {k} /\ op'[k] = o
    /\ \A q \in DOMAIN op : SameEntry(q)
    /\ Post(o)

(* ... and no other operation is touched. *)
Plain(k, o) == Commit(k, o) /\ \A q \in DOMAIN op : op'[q] = op[q]

(* A new operation under a fresh key is added and nothing else is written. *)
LEMMA WriteIsPlain ==
    ASSUME TypeOK, NEW k, Fresh(k), NEW o \in OperationRow, Write(k, o),
           o.type # "REVERSE_LEDGER" => o.rows \in [RowTypes -> Nat]
    PROVE  Plain(k, o)
<1>1. op' = Put(op, k, o) /\ k \in Keys \ DOMAIN op
  BY DEF Write, Fresh
<1>2. /\ DOMAIN op' = DOMAIN op \cup {k} /\ op'[k] = o
      /\ \A q \in DOMAIN op : op'[q] = op[q]
  BY <1>1 DEF Put
<1> QED
  BY <1>1, <1>2 DEF Plain, Commit, SameEntry, Write

(* An operation without ledger rows. *)
IsNote(o, d) ==
    /\ o.type \in {"CREATE", "RENEW_HOLD", "TRANSFER_HOLD", "RELEASE_HOLD"}
    /\ o.source = d /\ o.target = d /\ o.rows = NoRows /\ o.due = 0
    /\ o.reverses = {} /\ o.status = "COMPLETED"

(* What each kind of command writes into the ledger: a note moves no       *)
(* money,                                                                  *)
LEMMA NoteWritten ==
    ASSUME TypeOK, NEW k, Fresh(k), NEW d \in Deposits,
           NEW t \in {"CREATE", "RENEW_HOLD", "TRANSFER_HOLD", "RELEASE_HOLD"},
           Write(k, Operation(t, d))
    PROVE  \E o : Plain(k, o) /\ IsNote(o, d)
<1>1. Operation(t, d) \in OperationRow
  BY OperationType
<1>2. Operation(t, d).rows \in [RowTypes -> Nat]
  BY DEF Operation, NoRows
<1>3. IsNote(Operation(t, d), d)
  BY DEF Operation, IsNote
<1> QED
  BY <1>1, <1>2, <1>3, WriteIsPlain

(* A receipt. *)
IsCash(o, d, amount) ==
    /\ o.type = "COLLECT" /\ o.source = d /\ o.target = d
    /\ o.rows = [NoRows EXCEPT !["CASH_IN"] = amount]
    /\ o.due = 0 /\ o.reverses = {} /\ o.status = "COMPLETED"

(* a payment one row of cash, *)
LEMMA CashWritten ==
    ASSUME TypeOK, NEW k, Fresh(k), NEW d \in Deposits, NEW amount \in Nat, CashIn(k, d, amount)
    PROVE  \E o : Plain(k, o) /\ IsCash(o, d, amount)
<1> DEFINE o == [Operation("COLLECT", d) EXCEPT !.rows["CASH_IN"] = amount]
<1>1. Write(k, o)
  BY DEF CashIn
<1>2. o \in OperationRow /\ o.rows \in [RowTypes -> Nat]
  BY DEF Operation, OperationRow, NoRows, RowTypes
<1>3. IsCash(o, d, amount)
  BY DEF Operation, IsCash, NoRows, RowTypes
<1> HIDE DEF o
<1> QED
  BY <1>1, <1>2, <1>3, WriteIsPlain

(* A conversion. *)
IsConversion(o, d, s, transfer, credit, refund, due) ==
    /\ o.type = "CONVERT_TO_SECURITY" /\ o.source = d /\ o.target = s
    /\ o.rows = [NoRows EXCEPT !["TRANSFER"] = transfer, !["CREDIT"] = credit,
                               !["REFUND"] = refund]
    /\ o.due = due /\ o.reverses = {} /\ o.status = IF due > 0 THEN "PENDING" ELSE "COMPLETED"

(* A conversion by a plan, whose excess is credited, refunded or still due. *)
ConversionBy(k, o, d, s, plan) ==
    /\ Plain(k, o)
    /\ \E credit, refund, due \in Nat :
         /\ IsConversion(o, d, s, plan.transfer, credit, refund, due)
         /\ credit + refund + due = plan.excess

(* a conversion the plan of the balance, with the refund paid or due, *)
LEMMA ConversionWritten ==
    ASSUME IndInv, NEW k, NEW d \in DOMAIN deposit, NEW s \in Deposits, NEW required \in Amounts,
           NEW excess \in {"CREDIT", "REFUND"}, NEW receipt \in {"PENDING", "COMPLETED"},
           Convert(k, d, s, required, excess, receipt)
    PROVE  \E o : ConversionBy(k, o, d, s, ConversionPlan(balance[d], required))
<1> DEFINE plan == ConversionPlan(balance[d], required)
           pending == plan.excess > 0 /\ excess = "REFUND" /\ receipt = "PENDING"
           credit == IF excess = "CREDIT" THEN plan.excess ELSE 0
           refund == IF excess = "REFUND" /\ ~pending THEN plan.excess ELSE 0
           rows == [NoRows EXCEPT !["TRANSFER"] = plan.transfer, !["CREDIT"] = credit,
                                  !["REFUND"] = refund]
           due == IF pending THEN plan.excess ELSE 0
           done == IF pending THEN "PENDING" ELSE "COMPLETED"
           o == [Operation("CONVERT_TO_SECURITY", d) EXCEPT
                   !.target = s, !.rows = rows, !.due = due, !.status = done]
<1>1. TypeOK /\ d \in Deposits /\ required \in Nat /\ balance[d] \in Nat /\ Fresh(k)
  BY RowsTyped, CoreAssumption DEF IndInv, TypeOK, BalanceNonNegative, Convert
<1>2. plan.transfer \in Nat /\ plan.excess \in Nat
  BY <1>1, ConversionSplitsBalance
<1>3. Write(k, o)
  BY DEF Convert
<1> HIDE DEF plan
<1>4. /\ credit \in Nat /\ refund \in Nat /\ due \in Nat
      /\ done \in {"PENDING", "COMPLETED"}
      /\ done = IF due > 0 THEN "PENDING" ELSE "COMPLETED"
      /\ credit + refund + due = plan.excess
  BY <1>2
<1> HIDE DEF credit, refund, due, done, pending
<1>5. rows \in [RowTypes -> Nat]
  BY <1>2, <1>4 DEF NoRows, RowTypes
<1>6. o \in OperationRow /\ o.rows = rows /\ o.type = "CONVERT_TO_SECURITY" /\ o.source = d
      /\ o.target = s /\ o.due = due /\ o.reverses = {} /\ o.status = done
  <2>1. Operation("CONVERT_TO_SECURITY", d) \in OperationRow
    BY <1>1, OperationType
  <2>2. /\ Operation("CONVERT_TO_SECURITY", d).type = "CONVERT_TO_SECURITY"
        /\ Operation("CONVERT_TO_SECURITY", d).source = d
        /\ Operation("CONVERT_TO_SECURITY", d).reverses = {}
    BY DEF Operation
  <2>3. o = [Operation("CONVERT_TO_SECURITY", d) EXCEPT
               !.target = s, !.rows = rows, !.due = due, !.status = done]
    OBVIOUS
  <2>4. rows \in [RowTypes -> Int]
    BY <1>5
  <2> HIDE DEF rows, o
  <2> QED
    BY <1>4, <2>1, <2>2, <2>3, <2>4 DEF OperationRow
<1>7. IsConversion(o, d, s, plan.transfer, credit, refund, due)
  <2> HIDE DEF o
  <2> QED
    BY <1>4, <1>6 DEF IsConversion
<1> HIDE DEF o
<1>8. Plain(k, o)
  BY <1>1, <1>3, <1>5, <1>6, WriteIsPlain
<1>9. /\ Plain(k, o) /\ IsConversion(o, d, s, plan.transfer, credit, refund, due)
      /\ credit + refund + due = plan.excess
  BY <1>4, <1>7, <1>8
<1>10. ConversionBy(k, o, d, s, plan)
  BY <1>4, <1>9 DEF ConversionBy
<1> QED
  BY <1>10 DEF plan

IsCancellation(o, d, refund, keep, deduct, due) ==
    /\ o.type = "CANCEL" /\ o.source = d /\ o.target = d
    /\ o.rows = [NoRows EXCEPT !["KEEP"] = keep, !["DEDUCT"] = deduct, !["REFUND"] = refund]
    /\ o.due = due /\ o.reverses = {} /\ o.status = IF due > 0 THEN "PENDING" ELSE "COMPLETED"

(* a cancellation what is paid back, kept and deducted, *)
LEMMA CancellationWritten ==
    ASSUME IndInv, NEW k, NEW d \in DOMAIN deposit, NEW refund \in Nat, NEW keep \in Nat,
           NEW deduct \in Nat, NEW receipt, Cancel(k, d, refund, keep, deduct, receipt)
    PROVE  \E o : \E paid, due \in Nat :
              /\ Plain(k, o) /\ IsCancellation(o, d, paid, keep, deduct, due)
              /\ paid + due = refund
              /\ paid = IF refund > 0 /\ receipt = "PENDING" THEN 0 ELSE refund
<1> DEFINE pending == refund > 0 /\ receipt = "PENDING"
           paid == IF pending THEN 0 ELSE refund
           rows == [NoRows EXCEPT !["KEEP"] = keep, !["DEDUCT"] = deduct, !["REFUND"] = paid]
           due == IF pending THEN refund ELSE 0
           done == IF pending THEN "PENDING" ELSE "COMPLETED"
           o == [Operation("CANCEL", d) EXCEPT !.rows = rows, !.due = due, !.status = done]
<1>1. TypeOK /\ d \in Deposits /\ Fresh(k)
  BY RowsTyped DEF IndInv, Cancel
<1>2. Write(k, o)
  BY DEF Cancel
<1>3. /\ paid \in Nat /\ due \in Nat /\ paid + due = refund
      /\ done \in {"PENDING", "COMPLETED"}
      /\ done = IF due > 0 THEN "PENDING" ELSE "COMPLETED"
      /\ paid = IF refund > 0 /\ receipt = "PENDING" THEN 0 ELSE refund
  OBVIOUS
<1> HIDE DEF paid, due, done, pending
<1>4. rows \in [RowTypes -> Nat]
  BY <1>3 DEF NoRows, RowTypes
<1>5. /\ o \in OperationRow /\ o.rows = rows /\ o.type = "CANCEL" /\ o.source = d /\ o.target = d
      /\ o.due = due /\ o.reverses = {} /\ o.status = done
  <2>1. Operation("CANCEL", d) \in OperationRow
    BY <1>1, OperationType
  <2>2. /\ Operation("CANCEL", d).type = "CANCEL"
        /\ Operation("CANCEL", d).source = d /\ Operation("CANCEL", d).target = d
        /\ Operation("CANCEL", d).reverses = {}
    BY DEF Operation
  <2>3. o = [Operation("CANCEL", d) EXCEPT !.target = d, !.rows = rows, !.due = due, !.status = done]
    BY <2>1, <2>2 DEF OperationRow
  <2>4. rows \in [RowTypes -> Int]
    BY <1>4
  <2> HIDE DEF rows, o
  <2> QED
    BY <1>1, <1>3, <2>1, <2>2, <2>3, <2>4 DEF OperationRow
<1>6. IsCancellation(o, d, paid, keep, deduct, due)
  <2> HIDE DEF o
  <2> QED
    BY <1>3, <1>5 DEF IsCancellation
<1> HIDE DEF o
<1>7. Plain(k, o)
  BY <1>1, <1>2, <1>4, <1>5, WriteIsPlain
<1> HIDE DEF rows
<1>8. /\ paid \in Nat /\ due \in Nat /\ paid + due = refund
      /\ Plain(k, o) /\ IsCancellation(o, d, paid, keep, deduct, due)
      /\ paid = IF refund > 0 /\ receipt = "PENDING" THEN 0 ELSE refund
  BY <1>3, <1>6, <1>7
<1> QED
  BY <1>8

(* A reversal: the rows of a standing operation with the opposite sign.    *)
IsReversal(o, p) ==
    /\ o.type = "REVERSE_LEDGER" /\ o.source = op[p].source /\ o.target = op[p].target
    /\ \A t \in RowTypes : o.rows[t] = -op[p].rows[t]
    /\ o.due = 0 /\ o.reverses = {p} /\ o.status = "COMPLETED"

(* a reversal the rows of the operation it reverses, negative, *)
LEMMA ReversalWritten ==
    ASSUME IndInv, NEW k, NEW p \in DOMAIN op, Reverse(k, p)
    PROVE  \E o : Plain(k, o) /\ IsReversal(o, p)
<1> DEFINE rows == [t \in RowTypes |-> -op[p].rows[t]]
           o == [Operation("REVERSE_LEDGER", op[p].source) EXCEPT
                   !.target = op[p].target, !.reverses = {p}, !.rows = rows]
<1>1. TypeOK /\ Fresh(k) /\ op[p] \in OperationRow /\ p \in Keys
  BY RowsTyped DEF IndInv, Reverse
<1>2. Write(k, o)
  BY DEF Reverse
<1>3. op[p].source \in Deposits /\ op[p].target \in Deposits /\ rows \in [RowTypes -> Int]
  BY <1>1 DEF OperationRow
<1>4. /\ o \in OperationRow /\ o.rows = rows /\ o.type = "REVERSE_LEDGER"
      /\ o.source = op[p].source /\ o.target = op[p].target
      /\ o.due = 0 /\ o.reverses = {p} /\ o.status = "COMPLETED"
  <2>1. Operation("REVERSE_LEDGER", op[p].source) \in OperationRow
    BY <1>3, OperationType
  <2>2. /\ Operation("REVERSE_LEDGER", op[p].source).type = "REVERSE_LEDGER"
        /\ Operation("REVERSE_LEDGER", op[p].source).source = op[p].source
        /\ Operation("REVERSE_LEDGER", op[p].source).status = "COMPLETED"
        /\ Operation("REVERSE_LEDGER", op[p].source).due = 0
    BY DEF Operation
  <2> HIDE DEF rows
  <2> QED
    BY <1>1, <1>3, <2>1, <2>2 DEF OperationRow
<1>5. IsReversal(o, p)
  <2> HIDE DEF o
  <2> QED
    BY <1>4 DEF IsReversal
<1> HIDE DEF o
<1>6. Plain(k, o)
  BY <1>1, <1>2, <1>4, WriteIsPlain
<1> QED
  BY <1>5, <1>6

(* A refund paid later settles operation p. *)
IsPayout(o, p) ==
    /\ o.type = "COMPLETE_REFUND" /\ o.source = op[p].source /\ o.target = op[p].target
    /\ o.rows = [NoRows EXCEPT !["REFUND"] = op[p].due]
    /\ o.due = 0 /\ o.reverses = {} /\ o.status = "COMPLETED"

Settles(p) ==
    /\ op[p].status = "PENDING" /\ op'[p].status = "COMPLETED"
    /\ \A q \in DOMAIN op \ {p} : op'[q] = op[q]

(* and a payout what was due, which it settles. *)
LEMMA PayoutWritten ==
    ASSUME IndInv, NEW k, NEW p \in DOMAIN op, CompleteRefund(k, p)
    PROVE  \E o : Commit(k, o) /\ IsPayout(o, p) /\ Settles(p)
<1> DEFINE d == op[p].source
           rows == [NoRows EXCEPT !["REFUND"] = op[p].due]
           o == [Operation("COMPLETE_REFUND", d) EXCEPT
                   !.target = op[p].target, !.rows["REFUND"] = op[p].due]
           paid == [op EXCEPT ![p].status = "COMPLETED"]
<1>1. k \in Keys \ DOMAIN op /\ op[p] \in OperationRow
  BY RowsTyped DEF IndInv, CompleteRefund, Fresh
<1>2. d \in Deposits /\ op[p].target \in Deposits /\ op[p].due \in Nat
  BY <1>1 DEF OperationRow
<1>3. op' = Put(paid, k, o) /\ Post(o)
  BY DEF CompleteRefund
<1>4. rows \in [RowTypes -> Nat]
  BY <1>2 DEF NoRows, RowTypes
<1>5. /\ o \in OperationRow /\ o.rows = rows /\ o.type = "COMPLETE_REFUND"
      /\ o.source = d /\ o.target = op[p].target
      /\ o.due = 0 /\ o.reverses = {} /\ o.status = "COMPLETED"
  <2>1. Operation("COMPLETE_REFUND", d) \in OperationRow
    BY <1>2, OperationType
  <2>2. /\ Operation("COMPLETE_REFUND", d).type = "COMPLETE_REFUND"
        /\ Operation("COMPLETE_REFUND", d).source = d
        /\ Operation("COMPLETE_REFUND", d).rows = NoRows
        /\ Operation("COMPLETE_REFUND", d).status = "COMPLETED"
        /\ Operation("COMPLETE_REFUND", d).due = 0
        /\ Operation("COMPLETE_REFUND", d).reverses = {}
    BY DEF Operation
  <2>3. o = [Operation("COMPLETE_REFUND", d) EXCEPT !.target = op[p].target, !.rows = rows,
                                                    !.due = 0, !.status = "COMPLETED"]
    BY <2>1, <2>2 DEF OperationRow
  <2>4. rows \in [RowTypes -> Int]
    BY <1>4
  <2> HIDE DEF rows, o, d
  <2> QED
    BY <1>2, <2>1, <2>2, <2>3, <2>4 DEF OperationRow
<1>6. IsPayout(o, p)
  <2> HIDE DEF o
  <2> QED
    BY <1>5 DEF IsPayout
<1> HIDE DEF o, rows, d
<1>7. /\ DOMAIN paid = DOMAIN op
      /\ \A q \in DOMAIN op \ {p} : paid[q] = op[q]
      /\ paid[p] = [op[p] EXCEPT !.status = "COMPLETED"]
  OBVIOUS
<1> HIDE DEF paid
<1>8. /\ DOMAIN op' = DOMAIN op \cup {k} /\ op'[k] = o
      /\ \A q \in DOMAIN op \ {p} : op'[q] = op[q]
      /\ op'[p] = [op[p] EXCEPT !.status = "COMPLETED"]
  BY <1>1, <1>3, <1>7 DEF Put
<1>9. SameEntry(p) /\ op'[p].status = "COMPLETED"
  BY <1>1, <1>8 DEF SameEntry, OperationRow
<1>10. op[p].status = "PENDING"
  BY DEF CompleteRefund, Payable
<1>11. \A q \in DOMAIN op : SameEntry(q)
  BY <1>8, <1>9 DEF SameEntry
<1>12. Commit(k, o)
  BY <1>1, <1>3, <1>4, <1>5, <1>8, <1>11 DEF Commit
<1> QED
  BY <1>6, <1>8, <1>9, <1>10, <1>12 DEF Settles

-----------------------------------------------------------------------------
(* What a step does to the books: nothing, or one operation is committed,  *)
(* which is a reversal of a reversible one or reverses nothing.            *)
Ordinary(o) == o.type # "REVERSE_LEDGER" /\ o.reverses = {}

BooksStep ==
    \/ UNCHANGED <<op, balance>>
    \/ \E k, o : /\ Commit(k, o)
                 /\ Ordinary(o) \/ \E p \in DOMAIN op : IsReversal(o, p) /\ Reversible(p)

(* Every command is one of these six (BooksStep), command by command. *)
LEMMA NoteCommits ==
    ASSUME IndInv, NEW k, Fresh(k), NEW d \in Deposits,
           NEW t \in {"CREATE", "RENEW_HOLD", "TRANSFER_HOLD", "RELEASE_HOLD"},
           Write(k, Operation(t, d))
    PROVE  BooksStep
<1>1. TypeOK
  BY DEF IndInv
<1>2. PICK o : Plain(k, o) /\ IsNote(o, d)
  BY <1>1, NoteWritten
<1> QED
  BY <1>2 DEF BooksStep, Plain, IsNote, Ordinary

(* Creating a deposit, with or without a hold, is a note. *)
LEMMA CreateCommits ==
    ASSUME IndInv, NEW k, CreateCommand(k)
    PROVE  BooksStep
<1>1. \E d \in Deposits : Fresh(k) /\ Write(k, Operation("CREATE", d))
  <2>1. ASSUME NEW d \in Deposits, NEW c, NEW r, NEW row, NEW until,
               AddDeposit(k, d, c, r, row, until)
        PROVE  Fresh(k) /\ Write(k, Operation("CREATE", d))
    BY <2>1 DEF AddDeposit
  <2>2. PICK d \in Deposits, c \in Cycles, r \in Rooms, amount \in Amounts, until \in Expiries :
            \/ \E type \in {"BOOKING", "SECURITY"}, status \in CreateStatuses :
                    Create(k, d, c, r, type, status, amount, until)
            \/ CreateBookingHold(k, d, c, r, amount, until)
    BY DEF CreateCommand
  <2>3. \E row : AddDeposit(k, d, c, r, row, until)
    BY <2>2 DEF Create, CreateBookingHold
  <2> QED
    BY <2>1, <2>3
<1> QED
  BY <1>1, NoteCommits

(* Renewing, moving and releasing a hold are notes. *)
LEMMA HoldCommits ==
    ASSUME IndInv, NEW k, HoldCommand(k)
    PROVE  BooksStep
<1>1. \A d \in DOMAIN deposit : d \in Deposits
  BY RowsTyped DEF IndInv
<1>2. PICK d \in DOMAIN deposit :
        \/ \E until \in Expiries : RenewHold(k, d, until)
        \/ \E r \in Rooms, until \in Expiries : TransferHold(k, d, r, until)
        \/ ReleaseHold(k, d)
  BY DEF HoldCommand
<1>3. \E t \in {"RENEW_HOLD", "TRANSFER_HOLD", "RELEASE_HOLD"} :
        Fresh(k) /\ Write(k, Operation(t, d))
  BY <1>2 DEF RenewHold, TransferHold, ReleaseHold
<1> QED
  BY <1>1, <1>3, NoteCommits

(* Collecting and paying an invoice are cash. *)
LEMMA CashCommits ==
    ASSUME IndInv, NEW k, Fresh(k), NEW d \in DOMAIN deposit, NEW amount \in Nat,
           CashIn(k, d, amount)
    PROVE  BooksStep
<1>1. TypeOK /\ d \in Deposits
  BY RowsTyped DEF IndInv
<1>2. PICK o : Plain(k, o) /\ IsCash(o, d, amount)
  BY <1>1, CashWritten
<1> QED
  BY <1>2 DEF BooksStep, Plain, IsCash, Ordinary

(* The amount a direct collection takes. *)
LEMMA MissingAmount ==
    ASSUME IndInv, NEW k, NEW d \in DOMAIN deposit, NEW until, Collect(k, d, until)
    PROVE  deposit[d].amount - balance[d] \in Nat
<1>1. deposit[d].amount \in Nat /\ balance[d] \in Int
  BY RowsTyped DEF IndInv, DepositRow, TypeOK
<1> QED
  BY <1>1 DEF Collect

(* A cancellation, with whatever amounts it is called. *)
LEMMA CancelCommits ==
    ASSUME IndInv, NEW k, CancelCommand(k)
    PROVE  BooksStep
<1>1. PICK d \in DOMAIN deposit, refund \in Nat, keep \in Nat, deduct \in Nat,
           receipt \in {"PENDING", "COMPLETED"} : Cancel(k, d, refund, keep, deduct, receipt)
  BY DEF CancelCommand
<1>2. PICK o : \E paid, due \in Nat :
            Plain(k, o) /\ IsCancellation(o, d, paid, keep, deduct, due)
  BY <1>1, CancellationWritten
<1>3. Commit(k, o) /\ Ordinary(o)
  BY <1>2 DEF Plain, IsCancellation, Ordinary
<1> QED
  BY <1>3 DEF BooksStep

(* All commands that may move money. *)
LEMMA MoneyCommits ==
    ASSUME IndInv, NEW k, MoneyCommand(k)
    PROVE  BooksStep
<1>1. ASSUME NEW d \in DOMAIN deposit, NEW until \in Expiries, Collect(k, d, until)
      PROVE  BooksStep
  <2>1. Fresh(k) /\ CashIn(k, d, deposit[d].amount - balance[d])
    BY <1>1 DEF Collect
  <2> QED
    BY <1>1, <2>1, MissingAmount, CashCommits
<1>2. ASSUME NEW d \in DOMAIN deposit, NEW amount \in Amounts, PayBookingInvoice(k, d, amount)
      PROVE  BooksStep
  <2>1. Fresh(k) /\ CashIn(k, d, amount) /\ amount \in Nat
    BY <1>2, CoreAssumption DEF PayBookingInvoice
  <2> QED
    BY <2>1, CashCommits
<1>3. ASSUME NEW d \in DOMAIN deposit, NEW s \in Deposits, NEW required \in Amounts,
             NEW excess \in {"CREDIT", "REFUND"}, NEW receipt \in {"PENDING", "COMPLETED"},
             Convert(k, d, s, required, excess, receipt)
      PROVE  BooksStep
  <2>1. \E o : ConversionBy(k, o, d, s, ConversionPlan(balance[d], required))
    BY <1>3, ConversionWritten
  <2>2. \E o : Plain(k, o) /\ Ordinary(o)
    BY <2>1 DEF ConversionBy, IsConversion, Ordinary
  <2> QED
    BY <2>2 DEF BooksStep, Plain
<1>4. ASSUME NEW d \in DOMAIN deposit, NEW refund \in Shares, NEW keep \in Shares,
             NEW deduct \in Shares, NEW receipt \in {"PENDING", "COMPLETED"},
             Cancel(k, d, refund, keep, deduct, receipt)
      PROVE  BooksStep
  <2>1. refund \in Nat /\ keep \in Nat /\ deduct \in Nat
    BY CoreAssumption
  <2>2. CancelCommand(k)
    BY <1>4, <2>1 DEF CancelCommand
  <2> QED
    BY <2>2, CancelCommits
<1>5. ASSUME NEW p \in DOMAIN op, CompleteRefund(k, p)
      PROVE  BooksStep
  <2>1. PICK o : Commit(k, o) /\ IsPayout(o, p)
    BY <1>5, PayoutWritten
  <2> QED
    BY <2>1 DEF BooksStep, IsPayout, Ordinary
<1>6. ASSUME NEW p \in DOMAIN op, Reverse(k, p)
      PROVE  BooksStep
  <2>1. PICK o : Plain(k, o) /\ IsReversal(o, p)
    BY <1>6, ReversalWritten
  <2>2. Reversible(p)
    BY <1>6 DEF Reverse
  <2> QED
    BY <2>1, <2>2 DEF BooksStep, Plain
<1> QED
  BY <1>1, <1>2, <1>3, <1>4, <1>5, <1>6 DEF MoneyCommand

(* Every step of the core, keyed or not. *)
LEMMA StepCommits ==
    ASSUME IndInv, CoreStep
    PROVE  BooksStep
<1>1. CASE Unkeyed
  <2>1. UNCHANGED <<op, balance>>
    BY <1>1 DEF Unkeyed, IssueBookingInvoice, ScanHolds, ExpireHolds, Tick
  <2> QED
    BY <2>1 DEF BooksStep
<1>2. ASSUME NEW k \in Keys, Command(k) \/ CancelCommand(k)
      PROVE  BooksStep
  BY <1>2, CreateCommits, MoneyCommits, HoldCommits, CancelCommits DEF Command
<1> QED
  BY <1>1, <1>2 DEF CoreStep

-----------------------------------------------------------------------------
(* The sums over the books. *)

LEMMA EntryTyped ==
    ASSUME TypeOK
    PROVE  /\ IsFiniteSet(DOMAIN op)
           /\ \A q \in DOMAIN op : \A t \in RowTypes : op[q].rows[t] \in Int
           /\ \A q \in DOMAIN op : op[q].due \in Nat
<1>1. \A q \in DOMAIN op : op[q] \in OperationRow
  BY DEF TypeOK, IsTable
<1>2. IsFiniteSet(DOMAIN op)
  BY CoreAssumption, FS_Subset DEF TypeOK, IsTable
<1>3. \A o \in OperationRow : o.due \in Nat /\ \A t \in RowTypes : o.rows[t] \in Int
  BY DEF OperationRow
<1> QED
  BY <1>1, <1>2, <1>3

(* The total of each kind of row grows by the row of the new operation, *)
LEMMA TotalGrows ==
    ASSUME TypeOK, NEW k, NEW o, Commit(k, o), NEW t \in RowTypes
    PROVE  Total(t)' = Total(t) + o.rows[t] /\ Total(t) \in Int
<1> DEFINE f == [q \in DOMAIN op |-> op[q].rows[t]]
           h == [q \in DOMAIN op' |-> op'[q].rows[t]]
<1>1. k \notin DOMAIN op /\ DOMAIN op' = DOMAIN op \cup {k}
  BY DEF Commit
<1>2. \A q \in DOMAIN op : f[q] \in Int /\ h[q] = f[q]
  BY <1>1, EntryTyped DEF Commit, SameEntry
<1>3. h[k] = o.rows[t] /\ h[k] \in Int
  BY <1>1 DEF Commit, OperationRow
<1>4. DOMAIN f = DOMAIN op /\ DOMAIN h = DOMAIN op \cup {k}
  BY <1>1
<1>5. Total(t) = Sum(f, DOMAIN op) /\ Total(t)' = Sum(h, DOMAIN op \cup {k})
  BY <1>4 DEF Total, Sum, SumFunction
<1> HIDE DEF f, h
<1>6. Sum(h, DOMAIN op \cup {k}) = Sum(f, DOMAIN op) + h[k] /\ Sum(f, DOMAIN op) \in Int
  BY <1>1, <1>2, <1>3, EntryTyped, SumExtends
<1> QED
  BY <1>3, <1>5, <1>6

(* and the money held by what came in less what was paid out. *)
LEMMA HeldGrows ==
    ASSUME TypeOK, NEW k, NEW o, Commit(k, o)
    PROVE  /\ SumFunction(balance)' = SumFunction(balance) + o.rows["CASH_IN"] - Paid(o)
           /\ SumFunction(balance) \in Int
<1> DEFINE u == o.rows["CASH_IN"] - o.rows["TRANSFER"] - Paid(o)
           v == o.rows["TRANSFER"]
           mid == [d \in Deposits |-> balance[d] + (IF d = o.source THEN u ELSE 0)]
<1>1. /\ o.source \in Deposits /\ o.target \in Deposits
      /\ o.rows["CASH_IN"] \in Int /\ o.rows["TRANSFER"] \in Int /\ Paid(o) \in Int
  BY DEF Commit, OperationRow, RowTypes, Paid
<1>2. u \in Int /\ v \in Int /\ u + v = o.rows["CASH_IN"] - Paid(o)
  BY <1>1
<1>3. \A d \in Deposits : balance[d] \in Int
  BY DEF TypeOK
<1>4. balance' = [d \in Deposits |-> balance[d] + Effect(o, d)]
  BY DEF Commit, Post
<1>5. \A d \in Deposits : Effect(o, d) = (IF d = o.source THEN u ELSE 0) + (IF d = o.target THEN v ELSE 0)
  BY DEF Effect
<1> HIDE DEF u, v
<1>6. \A d \in Deposits : balance[d] \in Int /\ mid[d] = balance[d] + (IF d = o.source THEN u ELSE 0)
  BY <1>3
<1>7. \A d \in Deposits : mid[d] \in Int /\ balance'[d] = mid[d] + (IF d = o.target THEN v ELSE 0)
  BY <1>2, <1>3, <1>4, <1>5
<1>8. DOMAIN balance = Deposits /\ DOMAIN balance' = Deposits /\ IsFiniteSet(Deposits)
  BY <1>4, CoreAssumption DEF TypeOK
<1> HIDE DEF mid
<1>9. Sum(mid, Deposits) = Sum(balance, Deposits) + u /\ Sum(balance, Deposits) \in Int
  <2>1. IsFiniteSet(Deposits) /\ o.source \in Deposits /\ u \in Int
    BY <1>1, <1>2, <1>8
  <2> QED
    BY <1>6, <2>1, SumShift
<1>10. Sum(balance', Deposits) = Sum(mid, Deposits) + v
  BY <1>1, <1>2, <1>7, <1>8, SumShift
<1>11. SumFunction(balance)' = Sum(balance', Deposits) /\ SumFunction(balance) = Sum(balance, Deposits)
  BY <1>8 DEF Sum, SumFunction
<1> QED
  BY <1>1, <1>2, <1>9, <1>10, <1>11

(* No commit makes or loses money. *)
LEMMA MoneyStep ==
    ASSUME TypeOK, MoneyAccounted, BooksStep
    PROVE  MoneyAccounted'
<1>1. CASE UNCHANGED <<op, balance>>
  BY <1>1 DEF MoneyAccounted, Total
<1>2. ASSUME NEW k, NEW o, Commit(k, o) PROVE MoneyAccounted'
  <2>1. /\ Total("CASH_IN")' = Total("CASH_IN") + o.rows["CASH_IN"]
        /\ Total("REFUND")' = Total("REFUND") + o.rows["REFUND"]
        /\ Total("CREDIT")' = Total("CREDIT") + o.rows["CREDIT"]
        /\ Total("KEEP")' = Total("KEEP") + o.rows["KEEP"]
        /\ Total("DEDUCT")' = Total("DEDUCT") + o.rows["DEDUCT"]
        /\ Total("CASH_IN") \in Int /\ Total("REFUND") \in Int /\ Total("CREDIT") \in Int
        /\ Total("KEEP") \in Int /\ Total("DEDUCT") \in Int
    <3>1. \A t \in RowTypes : Total(t)' = Total(t) + o.rows[t] /\ Total(t) \in Int
      BY <1>2, TotalGrows
    <3> QED
      BY <3>1 DEF RowTypes
  <2>2. \A t \in RowTypes : o.rows[t] \in Int
    BY <1>2 DEF Commit, OperationRow
  <2>3. /\ SumFunction(balance)' = SumFunction(balance) + o.rows["CASH_IN"] - Paid(o)
        /\ SumFunction(balance) \in Int
    BY <1>2, HeldGrows
  <2>4. Paid(o) = o.rows["CREDIT"] + o.rows["REFUND"] + o.rows["KEEP"] + o.rows["DEDUCT"]
    BY DEF Paid
  <2>5. /\ o.rows["CASH_IN"] \in Int /\ o.rows["CREDIT"] \in Int /\ o.rows["REFUND"] \in Int
        /\ o.rows["KEEP"] \in Int /\ o.rows["DEDUCT"] \in Int
    BY <2>2 DEF RowTypes
  <2>6. Total("CASH_IN") = SumFunction(balance)
            + Total("REFUND") + Total("CREDIT") + Total("KEEP") + Total("DEDUCT")
    BY DEF MoneyAccounted
  <2>7. Total("CASH_IN")' = SumFunction(balance)'
            + Total("REFUND")' + Total("CREDIT")' + Total("KEEP")' + Total("DEDUCT")'
    BY <2>1, <2>3, <2>4, <2>5, <2>6
  <2> QED
    BY <2>7 DEF MoneyAccounted
<1> QED
  BY <1>1, <1>2 DEF BooksStep

-----------------------------------------------------------------------------
(* Reversals.  An operation stands when it is no reversal and has not been *)
(* reversed; the rows of a deposit with their reversals come to the same   *)
(* as the rows of the operations that stand.                               *)
Stands(q) == op[q].type # "REVERSE_LEDGER" /\ \A r \in DOMAIN op : q \notin op[r].reverses

Booklet(d, t) == [q \in DOMAIN op |-> IF op[q].source = d THEN op[q].rows[t] ELSE 0]
Standing(d, t) ==
    [q \in DOMAIN op |-> IF op[q].source = d /\ Stands(q) THEN op[q].rows[t] ELSE 0]

ReversesKnown == \A q \in DOMAIN op : op[q].reverses \subseteq DOMAIN op

ReversalInv ==
    /\ ReversesKnown
    /\ \A d \in Deposits, t \in RowTypes : Sum(Booklet(d, t), DOMAIN op) = Sum(Standing(d, t), DOMAIN op)

(* What was booked on one deposit, as a sum over all operations. *)
LEMMA TotalOnAsTable ==
    ASSUME TypeOK, NEW d, NEW t \in RowTypes
    PROVE  TotalOn(d, t) = Sum(Booklet(d, t), DOMAIN op)
<1> DEFINE T == {q \in DOMAIN op : op[q].source = d}
           f == [q \in T |-> op[q].rows[t]]
<1>1. TotalOn(d, t) = Sum(f, T)
  <2>1. DOMAIN f = T
    OBVIOUS
  <2> QED
    BY <2>1 DEF TotalOn, Sum, SumFunction
<1>2. \A q \in T : f[q] \in Int /\ Booklet(d, t)[q] = f[q]
  BY EntryTyped DEF Booklet
<1>3. \A q \in DOMAIN op \ T : Booklet(d, t)[q] = 0
  BY DEF Booklet
<1>4. T \in SUBSET DOMAIN op /\ IsFiniteSet(DOMAIN op)
  BY EntryTyped
<1> HIDE DEF T, f
<1>5. Sum(f, T) = Sum(Booklet(d, t), DOMAIN op)
  BY <1>2, <1>3, <1>4, SumWhere
<1> QED
  BY <1>1, <1>5

(* An operation that is not reversed is not negative, one that is reversed *)
(* was reversed once.                                                      *)
LEMMA StandingRowsPositive ==
    ASSUME TypeOK, ReversalInv
    PROVE  NothingReversedTwice
<1> SUFFICES ASSUME NEW d \in Deposits, NEW t \in RowTypes PROVE TotalOn(d, t) >= 0
  BY DEF NothingReversedTwice
<1>1. \A q \in DOMAIN op : op[q].type # "REVERSE_LEDGER" => op[q].rows[t] \in Nat
  BY DEF TypeOK
<1>2. \A q \in DOMAIN op : Standing(d, t)[q] \in Nat
  BY <1>1 DEF Standing, Stands
<1>3. Sum(Standing(d, t), DOMAIN op) \in Nat
  BY <1>2, EntryTyped, SumNat
<1> QED
  BY <1>3, TotalOnAsTable DEF ReversalInv

(* A new operation that reverses nothing is not reversed yet. *)
LEMMA OrdinaryReversalInv ==
    ASSUME TypeOK, ReversalInv, NEW k, NEW o, Commit(k, o), Ordinary(o)
    PROVE  ReversalInv'
<1>1. /\ k \notin DOMAIN op /\ DOMAIN op' = DOMAIN op \cup {k} /\ op'[k] = o
      /\ \A q \in DOMAIN op : SameEntry(q)
  BY DEF Commit
<1>2. ReversesKnown'
  BY <1>1 DEF ReversalInv, ReversesKnown, SameEntry, Ordinary
<1>3. ASSUME NEW q \in DOMAIN op PROVE Stands(q)' <=> Stands(q)
  BY <1>1 DEF Stands, SameEntry, Ordinary
<1>4. Stands(k)'
  BY <1>1 DEF Stands, SameEntry, Ordinary, ReversalInv, ReversesKnown
<1>5. ASSUME NEW d \in Deposits, NEW t \in RowTypes
      PROVE  Sum(Booklet(d, t)', DOMAIN op') = Sum(Standing(d, t)', DOMAIN op')
  <2> DEFINE D == DOMAIN op
             f == Booklet(d, t)
             g == Standing(d, t)
             fNew == Booklet(d, t)'
             gNew == Standing(d, t)'
  <2>1. \A q \in D : f[q] \in Int /\ fNew[q] = f[q]
    BY <1>1, EntryTyped DEF Booklet, SameEntry
  <2>2. \A q \in D : g[q] \in Int /\ gNew[q] = g[q]
    BY <1>1, <1>3, EntryTyped DEF Standing, SameEntry
  <2>3. fNew[k] = gNew[k]
    BY <1>1, <1>4 DEF Booklet, Standing
  <2>4. fNew[k] \in Int
    BY <1>1 DEF Booklet, Commit, OperationRow
  <2>5. k \notin D /\ IsFiniteSet(D) /\ DOMAIN op' = D \cup {k}
    BY <1>1, EntryTyped
  <2>6. Sum(f, D) = Sum(g, D)
    BY DEF ReversalInv
  <2>7. Sum(fNew, D \cup {k}) = Sum(gNew, D \cup {k})
    <3> HIDE DEF D, f, g, fNew, gNew
    <3>1. IsFiniteSet(D) /\ k \notin D
      BY <2>5
    <3>2. gNew[k] \in Int
      BY <2>3, <2>4
    <3>3. Sum(fNew, D \cup {k}) = Sum(f, D) + fNew[k]
      BY <2>1, <2>4, <3>1, SumExtends, Zenon
    <3>4. Sum(gNew, D \cup {k}) = Sum(g, D) + gNew[k]
      BY <2>2, <3>1, <3>2, SumExtends, Zenon
    <3> QED
      BY <2>3, <2>6, <3>3, <3>4
  <2> QED
    BY <2>5, <2>7
<1> QED
  BY <1>2, <1>5 DEF ReversalInv

(* A reversal takes an operation that stands. *)
LEMMA ReverseReversalInv ==
    ASSUME TypeOK, ReversalInv, NEW k, NEW o, Commit(k, o),
           NEW p \in DOMAIN op, IsReversal(o, p), Reversible(p)
    PROVE  ReversalInv'
<1>1. /\ k \notin DOMAIN op /\ DOMAIN op' = DOMAIN op \cup {k} /\ op'[k] = o
      /\ \A q \in DOMAIN op : SameEntry(q)
  BY DEF Commit
<1>2. o.type = "REVERSE_LEDGER" /\ o.reverses = {p} /\ o.source = op[p].source
  BY DEF IsReversal
<1>3. ReversesKnown'
  BY <1>1, <1>2 DEF ReversalInv, ReversesKnown, SameEntry
<1>4. ASSUME NEW q \in DOMAIN op, q # p PROVE Stands(q)' <=> Stands(q)
  BY <1>1, <1>2, <1>4 DEF Stands, SameEntry
<1>5. Stands(p) /\ ~Stands(p)' /\ ~Stands(k)'
  BY <1>1, <1>2 DEF Stands, Reversible
<1>6. ASSUME NEW d \in Deposits, NEW t \in RowTypes
      PROVE  Sum(Booklet(d, t)', DOMAIN op') = Sum(Standing(d, t)', DOMAIN op')
  <2> DEFINE D == DOMAIN op
             u == IF op[p].source = d THEN op[p].rows[t] ELSE 0
             f == Booklet(d, t)
             g == Standing(d, t)
             fNew == Booklet(d, t)'
             gNew == Standing(d, t)'
  <2>1. \A q \in D : f[q] \in Int /\ fNew[q] = f[q]
    BY <1>1, EntryTyped DEF Booklet, SameEntry
  <2>2. op[p].rows[t] \in Int /\ u \in Int
    BY EntryTyped
  <2>3. fNew[k] = -u /\ -u \in Int
    BY <1>1, <1>2, <2>2 DEF Booklet, IsReversal
  <2>4. \A q \in D : g[q] \in Int
    BY EntryTyped DEF Standing
  <2>5. g[p] = u /\ gNew[p] = 0 /\ gNew[k] = 0
    BY <1>1, <1>5 DEF Standing
  <2>6. \A q \in D \ {p} : gNew[q] = g[q]
    BY <1>1, <1>4 DEF Standing, SameEntry
  <2>7. p \in D /\ k \notin D /\ IsFiniteSet(D) /\ DOMAIN op' = D \cup {k}
    BY <1>1, EntryTyped
  <2>8. Sum(f, D) = Sum(g, D)
    BY DEF ReversalInv
  <2>9. Sum(fNew, D \cup {k}) = Sum(gNew, D \cup {k})
    <3> HIDE DEF D, u, f, g, fNew, gNew
    <3>1. \A q \in D : gNew[q] \in Int
      BY <2>4, <2>5, <2>6
    <3>2. Sum(fNew, D \cup {k}) = Sum(f, D) + fNew[k] /\ Sum(f, D) \in Int
      <4>1. fNew[k] \in Int /\ IsFiniteSet(D) /\ k \notin D
        BY <2>3, <2>7
      <4> QED
        BY <2>1, <4>1, SumExtends, Zenon
    <3>3. Sum(gNew, D) = Sum(g, D) - g[p] + gNew[p]
      BY <2>4, <2>6, <2>7, <3>1, SumChange
    <3>4. Sum(gNew, D \cup {k}) = Sum(gNew, D) + gNew[k] /\ Sum(gNew, D) \in Int
      <4>1. gNew[k] \in Int /\ IsFiniteSet(D) /\ k \notin D
        BY <2>5, <2>7
      <4>2. \A q \in D : gNew[q] \in Int /\ gNew[q] = gNew[q]
        BY <3>1
      <4> QED
        BY <4>1, <4>2, SumExtends, Zenon
    <3> QED
      BY <2>2, <2>3, <2>5, <2>8, <3>2, <3>3, <3>4
  <2> QED
    BY <2>7, <2>9
<1> QED
  BY <1>3, <1>6 DEF ReversalInv

(* So no operation is ever reversed twice. *)
LEMMA ReversalStep ==
    ASSUME TypeOK, ReversalInv, BooksStep
    PROVE  ReversalInv'
<1>1. CASE UNCHANGED <<op, balance>>
  BY <1>1 DEF ReversalInv, ReversesKnown, Booklet, Standing, Stands
<1> QED
  BY <1>1, OrdinaryReversalInv, ReverseReversalInv DEF BooksStep

-----------------------------------------------------------------------------
(* What is promised in pending refunds. *)
Debt(d) ==
    [q \in DOMAIN op |->
        IF op[q].source = d /\ op[q].status = "PENDING" THEN op[q].due ELSE 0]

Owes(d) == Sum(Debt(d), DOMAIN op)

(* What is still owed to a deposit, as a sum over all operations. *)
LEMMA OwedAsTable ==
    ASSUME TypeOK, NEW d
    PROVE  Owed(d) = Owes(d) /\ Owes(d) \in Nat
<1> DEFINE T == {q \in DOMAIN op : op[q].source = d /\ op[q].status = "PENDING"}
           f == [q \in T |-> op[q].due]
<1>1. Owed(d) = Sum(f, T)
  <2>1. DOMAIN f = T
    OBVIOUS
  <2> QED
    BY <2>1 DEF Owed, Sum, SumFunction
<1>2. \A q \in T : f[q] \in Int /\ Debt(d)[q] = f[q]
  BY EntryTyped DEF Debt
<1>3. \A q \in DOMAIN op \ T : Debt(d)[q] = 0
  BY DEF Debt
<1>4. T \in SUBSET DOMAIN op /\ IsFiniteSet(DOMAIN op)
  BY EntryTyped
<1>5. \A q \in DOMAIN op : Debt(d)[q] \in Nat
  BY EntryTyped DEF Debt
<1> HIDE DEF T, f
<1>6. Sum(f, T) = Sum(Debt(d), DOMAIN op)
  BY <1>2, <1>3, <1>4, SumWhere
<1>7. Sum(Debt(d), DOMAIN op) \in Nat
  BY <1>4, <1>5, SumNat
<1> QED
  BY <1>1, <1>6, <1>7 DEF Owes

(* A refund that is pending is owed to the source of the operation, *)
LEMMA DebtGrows ==
    ASSUME TypeOK, NEW k, NEW o, Plain(k, o), o.due = 0 \/ o.status = "PENDING", NEW x
    PROVE  Owes(x)' = Owes(x) + (IF x = o.source THEN o.due ELSE 0)
<1>1. /\ k \notin DOMAIN op /\ DOMAIN op' = DOMAIN op \cup {k} /\ op'[k] = o
      /\ \A q \in DOMAIN op : op'[q] = op[q]
  BY DEF Plain, Commit
<1>2. \A q \in DOMAIN op : Debt(x)[q] \in Int /\ Debt(x)'[q] = Debt(x)[q]
  BY <1>1, EntryTyped DEF Debt
<1>3. o.due \in Nat
  BY DEF Plain, Commit, OperationRow
<1>4. Debt(x)'[k] = (IF x = o.source THEN o.due ELSE 0) /\ Debt(x)'[k] \in Int
  BY <1>1, <1>3 DEF Debt
<1>5. IsFiniteSet(DOMAIN op)
  BY EntryTyped
<1>6. Sum(Debt(x)', DOMAIN op \cup {k}) = Sum(Debt(x), DOMAIN op) + Debt(x)'[k]
  <2>1. k \notin DOMAIN op /\ IsFiniteSet(DOMAIN op) /\ Debt(x)'[k] \in Int
    BY <1>1, <1>4, <1>5
  <2>2. /\ Sum(Debt(x)', DOMAIN op \cup {k}) = Sum(Debt(x), DOMAIN op) + Debt(x)'[k]
        /\ Sum(Debt(x), DOMAIN op) \in Int
    BY <1>2, <2>1, SumExtends
  <2> QED
    BY <2>2
<1> QED
  BY <1>1, <1>4, <1>6 DEF Owes

(* until its payout settles it, which takes no more than is owed. *)
LEMMA DebtPaid ==
    ASSUME TypeOK, NEW k, NEW o, NEW p \in DOMAIN op, Commit(k, o), IsPayout(o, p), Settles(p),
           NEW x
    PROVE  /\ Owes(x)' = Owes(x) - (IF x = op[p].source THEN op[p].due ELSE 0)
           /\ x = op[p].source => op[p].due <= Owes(x)
<1>1. /\ k \notin DOMAIN op /\ DOMAIN op' = DOMAIN op \cup {k} /\ op'[k] = o
      /\ \A q \in DOMAIN op : SameEntry(q)
      /\ op[p].status = "PENDING" /\ op'[p].status = "COMPLETED"
      /\ \A q \in DOMAIN op \ {p} : op'[q] = op[q]
  BY DEF Commit, Settles
<1>2. \A q \in DOMAIN op : Debt(x)[q] \in Nat /\ Debt(x)'[q] \in Nat
  BY <1>1, EntryTyped DEF Debt, SameEntry
<1>3. \A q \in DOMAIN op \ {p} : Debt(x)'[q] = Debt(x)[q]
  BY <1>1 DEF Debt
<1>4. /\ Debt(x)[p] = (IF x = op[p].source THEN op[p].due ELSE 0) /\ Debt(x)'[p] = 0
      /\ op[p].due \in Nat
  BY <1>1, EntryTyped DEF Debt
<1>5. Debt(x)'[k] = 0
  BY <1>1 DEF Debt, IsPayout
<1>6. IsFiniteSet(DOMAIN op) /\ k \notin DOMAIN op
  BY <1>1, EntryTyped
<1>7. Sum(Debt(x)', DOMAIN op) = Sum(Debt(x), DOMAIN op) - Debt(x)[p] + Debt(x)'[p]
  <2>1. \A q \in DOMAIN op : Debt(x)[q] \in Int /\ Debt(x)'[q] \in Int
    BY <1>2
  <2> QED
    BY <1>3, <1>6, <2>1, SumChange
<1>8. Sum(Debt(x)', DOMAIN op \cup {k}) = Sum(Debt(x)', DOMAIN op)
  <2>1. \A q \in DOMAIN op : Debt(x)'[q] \in Int /\ Debt(x)'[q] = Debt(x)'[q]
    BY <1>2
  <2>2. Debt(x)'[k] \in Int
    BY <1>5
  <2>3. /\ Sum(Debt(x)', DOMAIN op \cup {k}) = Sum(Debt(x)', DOMAIN op) + Debt(x)'[k]
        /\ Sum(Debt(x)', DOMAIN op) \in Int
    BY <1>6, <2>1, <2>2, SumExtends
  <2> QED
    BY <1>5, <2>3
<1>9. Owes(x) \in Nat
  BY OwedAsTable
<1>10. Sum(Debt(x)', DOMAIN op) \in Nat
  BY <1>2, <1>6, SumNat
<1>11. Owes(x)' = Owes(x) - Debt(x)[p]
  BY <1>1, <1>4, <1>7, <1>8, <1>9 DEF Owes
<1>12. Owes(x)' \in Nat
  BY <1>1, <1>8, <1>10 DEF Owes
<1> QED
  BY <1>4, <1>9, <1>11, <1>12

(* Nothing is owed to a deposit that no operation was about. *)
LEMMA NoDebt ==
    ASSUME TypeOK, NEW d, \A q \in DOMAIN op : op[q].source # d
    PROVE  Owes(d) = 0
<1>1. \A q \in DOMAIN op : Debt(d)[q] = 0
  BY DEF Debt
<1> QED
  BY <1>1, EntryTyped, SumZero DEF Owes

-----------------------------------------------------------------------------
(* What a commit does to the balances. *)

LEMMA PostSays ==
    ASSUME TypeOK, NEW k, NEW o, Commit(k, o)
    PROVE  /\ o.source \in Deposits /\ o.target \in Deposits
           /\ \A x \in Deposits :
                /\ balance[x] \in Int /\ balance'[x] = balance[x] + Effect(o, x)
                /\ x \notin {o.source, o.target} => balance'[x] = balance[x]
<1>1. o.source \in Deposits /\ o.target \in Deposits
  BY DEF Commit, OperationRow
<1>2. \A x \in Deposits : balance[x] \in Int /\ balance'[x] = balance[x] + Effect(o, x)
  BY DEF Commit, Post, TypeOK
<1>3. \A x \in Deposits : x \notin {o.source, o.target} => Effect(o, x) = 0
  BY DEF Effect
<1> QED
  BY <1>1, <1>2, <1>3

(* What each kind does to the balances: a note nothing, *)
LEMMA NoteEffect ==
    ASSUME TypeOK, NEW k, NEW o, NEW d, Commit(k, o), IsNote(o, d)
    PROVE  \A x \in Deposits : balance'[x] = balance[x]
<1>1. \A x \in Deposits : Effect(o, x) = 0
  BY DEF Effect, Paid, IsNote, NoRows, RowTypes
<1> QED
  BY <1>1, PostSays

(* cash raises the one it is for, *)
LEMMA CashEffect ==
    ASSUME TypeOK, NEW k, NEW o, NEW d \in Deposits, NEW amount \in Nat,
           Commit(k, o), IsCash(o, d, amount)
    PROVE  balance'[d] = balance[d] + amount
<1>1. Effect(o, d) = amount
  BY DEF Effect, Paid, IsCash, NoRows, RowTypes
<1> QED
  BY <1>1, PostSays

(* a conversion moves money from the booking to the security deposit, *)
LEMMA ConversionEffect ==
    ASSUME TypeOK, NEW k, NEW o, NEW d \in Deposits, NEW s \in Deposits, d # s,
           NEW transfer \in Nat, NEW credit \in Nat, NEW refund \in Nat, NEW due,
           Commit(k, o), IsConversion(o, d, s, transfer, credit, refund, due)
    PROVE  /\ balance'[d] = balance[d] - transfer - credit - refund
           /\ balance'[s] = balance[s] + transfer
<1>1. Effect(o, d) = 0 - transfer - (credit + refund) /\ Effect(o, s) = transfer
  BY DEF Effect, Paid, IsConversion, NoRows, RowTypes
<1> QED
  BY <1>1, PostSays

(* a cancellation lowers the one it ends, *)
LEMMA CancellationEffect ==
    ASSUME TypeOK, NEW k, NEW o, NEW d \in Deposits,
           NEW paid \in Nat, NEW keep \in Nat, NEW deduct \in Nat, NEW due,
           Commit(k, o), IsCancellation(o, d, paid, keep, deduct, due)
    PROVE  balance'[d] = balance[d] - paid - keep - deduct
<1>1. Effect(o, d) = 0 - (paid + keep + deduct)
  BY DEF Effect, Paid, IsCancellation, NoRows, RowTypes
<1> QED
  BY <1>1, PostSays

(* and a payout the one the money was due to. *)
LEMMA PayoutEffect ==
    ASSUME TypeOK, NEW k, NEW o, NEW p \in DOMAIN op, Commit(k, o), IsPayout(o, p)
    PROVE  \A x \in Deposits :
                balance'[x] = balance[x] - (IF x = op[p].source THEN op[p].due ELSE 0)
<1>1. op[p].due \in Nat
  BY EntryTyped
<1>2. \A x \in Deposits : Effect(o, x) = 0 - (IF x = op[p].source THEN op[p].due ELSE 0)
  BY <1>1 DEF Effect, Paid, IsPayout, NoRows, RowTypes
<1> QED
  BY <1>1, <1>2, PostSays

-----------------------------------------------------------------------------
(* What the ledger says of a deposit.  Until a reversal touches it, an     *)
(* ended deposit holds at least what it promised and an open one promised  *)
(* nothing, its status tells how it is funded, and a booking hold holds    *)
(* what its invoice was paid.                                              *)
Ended(d) == deposit[d].status \in {"CONVERTED_TO_CONTRACT", "CANCELLED"}

Funded(d) ==
    /\ "PAID" \notin CreateStatuses =>
        /\ deposit[d].status = "PAID" => balance[d] = deposit[d].amount
        /\ deposit[d].status = "PENDING" => balance[d] < deposit[d].amount
    /\ Booked(d) /\ deposit[d].status \in {"PENDING", "PAID"} =>
        balance[d] = deposit[d].invoicePaid

Sound(d) ==
    ~Reversed(d) =>
        /\ Ended(d) => Owes(d) <= balance[d]
        /\ ~Ended(d) => Owes(d) = 0
        /\ Funded(d)

Exact(d) == Ended(d) /\ ~Reversed(d) => balance[d] = Owes(d)

Known ==
    /\ \A q \in DOMAIN op : op[q].source \in DOMAIN deposit /\ op[q].target \in DOMAIN deposit
    /\ \A d \in Deposits \ DOMAIN deposit : balance[d] = 0

DepositInv == Known /\ \A d \in DOMAIN deposit : Sound(d)
Settled == \A d \in DOMAIN deposit : Exact(d)

AccountInv == IndInv /\ DepositInv /\ MoneyIsAnnounced

Good ==
    /\ DepositInv' /\ MoneyIsAnnounced' /\ (Settled => Settled')
    /\ DOMAIN deposit \subseteq DOMAIN deposit'

BookedAfter(d) == deposit'[d].type = "BOOKING" /\ deposit'[d].billing # "NONE"

(* What was reversed stays reversed. *)
LEMMA ReversedStays ==
    ASSUME TypeOK, NEW k, NEW o, Commit(k, o), NEW x, Reversed(x)
    PROVE  Reversed(x)'
  BY DEF Reversed, Commit, SameEntry

(* A deposit that a step leaves alone, row, balance and debt, stays sound. *)
LEMMA Frame ==
    ASSUME AccountInv, NEW k, NEW o, Commit(k, o), NEW x \in DOMAIN deposit,
           deposit'[x] = deposit[x], balance'[x] = balance[x], Owes(x)' = Owes(x)
    PROVE  Sound(x)' /\ (Settled => Exact(x)')
<1>1. Reversed(x) => Reversed(x)'
  BY ReversedStays DEF AccountInv, IndInv
<1>2. Sound(x) /\ (Settled => Exact(x))
  BY DEF AccountInv, DepositInv, Settled
<1>3. (Ended(x)' <=> Ended(x)) /\ (Booked(x)' <=> Booked(x)) /\ (Funded(x)' <=> Funded(x))
  BY DEF Ended, Booked, Funded
<1> QED
  BY <1>1, <1>2, <1>3 DEF Sound, Exact

(* A commit is good when every deposit is sound after it and the operation *)
(* is announced.                                                           *)
LEMMA CommitGood ==
    ASSUME AccountInv, NEW k, NEW o, Commit(k, o),
           DOMAIN deposit \subseteq DOMAIN deposit', outbox \subseteq outbox',
           o.source \in DOMAIN deposit', o.target \in DOMAIN deposit',
           \A x \in DOMAIN deposit : Booked(x)' <=> Booked(x),
           o.rows # NoRows => \E e \in outbox' : e.about = k,
           \A t \in {"KEEP", "DEDUCT", "REFUND"} :
                o.type \in {"CANCEL", "COMPLETE_REFUND"} /\ Booked(o.source)' /\ o.rows[t] > 0
                    => Disposition(k, t) \in outbox',
           \A x \in DOMAIN deposit' : Sound(x)' /\ (Settled => Exact(x)')
    PROVE  Good
<1>1. /\ k \notin DOMAIN op /\ DOMAIN op' = DOMAIN op \cup {k} /\ op'[k] = o
      /\ \A q \in DOMAIN op : SameEntry(q)
  BY DEF Commit
<1>2. Known'
  <2>1. \A q \in DOMAIN op' : op'[q].source \in DOMAIN deposit' /\ op'[q].target \in DOMAIN deposit'
    BY <1>1 DEF AccountInv, DepositInv, Known, SameEntry
  <2>2. \A d \in Deposits \ DOMAIN deposit' : balance'[d] = 0
    BY PostSays DEF AccountInv, IndInv, DepositInv, Known
  <2> QED
    BY <2>1, <2>2 DEF Known
<1>3. MoneyIsAnnounced'
  <2> SUFFICES ASSUME NEW q \in DOMAIN op'
               PROVE  /\ op'[q].rows # NoRows => \E e \in outbox' : e.about = q
                      /\ \A t \in {"KEEP", "DEDUCT", "REFUND"} :
                           /\ op'[q].type \in {"CANCEL", "COMPLETE_REFUND"}
                           /\ BookedAfter(op'[q].source) /\ op'[q].rows[t] > 0
                           => Disposition(q, t) \in outbox'
    BY DEF MoneyIsAnnounced, Booked, BookedAfter
  <2>1. CASE q = k
    <3>1. op'[q] = o /\ (BookedAfter(o.source) <=> Booked(o.source)')
      BY <1>1, <2>1 DEF Booked, BookedAfter
    <3> QED
      BY <2>1, <3>1
  <2>2. CASE q \in DOMAIN op
    <3>1. /\ op[q].rows # NoRows => \E e \in outbox : e.about = q
          /\ \A t \in {"KEEP", "DEDUCT", "REFUND"} :
               /\ op[q].type \in {"CANCEL", "COMPLETE_REFUND"}
               /\ Booked(op[q].source) /\ op[q].rows[t] > 0
               => Disposition(q, t) \in outbox
      BY <2>2 DEF AccountInv, MoneyIsAnnounced
    <3>2. /\ op'[q].type = op[q].type /\ op'[q].source = op[q].source
          /\ op'[q].rows = op[q].rows /\ op[q].source \in DOMAIN deposit
      BY <1>1, <2>2 DEF SameEntry, AccountInv, DepositInv, Known
    <3>3. BookedAfter(op'[q].source) <=> Booked(op[q].source)
      <4>1. Booked(op[q].source)' <=> Booked(op[q].source)
        BY <3>2
      <4> QED
        BY <3>2 DEF Booked, BookedAfter
    <3> QED
      BY <3>1, <3>2, <3>3
  <2> QED
    BY <1>1, <2>1, <2>2
<1> QED
  BY <1>2, <1>3 DEF Good, DepositInv, Settled

(* A commit that leaves the deposits and their balances alone.             *)
LEMMA NoteGood ==
    ASSUME AccountInv, NEW k, Fresh(k), NEW d \in DOMAIN deposit,
           NEW t \in {"CREATE", "RENEW_HOLD", "TRANSFER_HOLD", "RELEASE_HOLD"},
           Write(k, Operation(t, d)), UNCHANGED <<deposit, outbox>>
    PROVE  Good
<1>1. TypeOK /\ d \in Deposits /\ \A x \in DOMAIN deposit : x \in Deposits
  BY RowsTyped DEF AccountInv, IndInv
<1>2. PICK o : Plain(k, o) /\ IsNote(o, d)
  BY <1>1, NoteWritten
<1>3. Commit(k, o) /\ o.source = d /\ o.target = d /\ o.rows = NoRows /\ o.due = 0
      /\ o.type \notin {"CANCEL", "COMPLETE_REFUND"}
  BY <1>2 DEF Plain, IsNote
<1>4. \A x \in DOMAIN deposit : balance'[x] = balance[x]
  BY <1>1, <1>2, <1>3, NoteEffect
<1>5. \A x \in DOMAIN deposit : Owes(x)' = Owes(x)
  <2> TAKE x \in DOMAIN deposit
  <2>1. Owes(x)' = Owes(x) + (IF x = o.source THEN o.due ELSE 0)
    BY <1>1, <1>2, <1>3, DebtGrows
  <2> QED
    BY <1>1, <1>3, <2>1, OwedAsTable
<1>6. \A x \in DOMAIN deposit' : Sound(x)' /\ (Settled => Exact(x)')
  BY <1>3, <1>4, <1>5, Frame
<1>7. \A x \in DOMAIN deposit : Booked(x)' <=> Booked(x)
  BY DEF Booked
<1> QED
  BY <1>3, <1>6, <1>7, CommitGood

(* Commands about holds move no money. *)
LEMMA HoldGood ==
    ASSUME AccountInv, NEW k, HoldCommand(k)
    PROVE  Good
<1>1. PICK d \in DOMAIN deposit :
        \/ \E until \in Expiries : RenewHold(k, d, until)
        \/ \E r \in Rooms, until \in Expiries : TransferHold(k, d, r, until)
        \/ ReleaseHold(k, d)
  BY DEF HoldCommand
<1>2. \E t \in {"RENEW_HOLD", "TRANSFER_HOLD", "RELEASE_HOLD"} :
        Fresh(k) /\ Write(k, Operation(t, d)) /\ UNCHANGED <<deposit, outbox>>
  BY <1>1 DEF RenewHold, TransferHold, ReleaseHold
<1> QED
  BY <1>2, NoteGood

(* A new deposit has no money and no debt. *)
LEMMA AddDepositGood ==
    ASSUME AccountInv, NEW k, NEW d, NEW c, NEW r, NEW row, NEW until,
           AddDeposit(k, d, c, r, row, until),
           row.amount \in Nat \ {0}, row.invoicePaid = 0,
           row.status \in CreateStatuses \/ row.status = "PENDING"
    PROVE  Good
<1>1. /\ TypeOK /\ d \in Deposits \ DOMAIN deposit /\ Fresh(k)
      /\ \A x \in DOMAIN deposit : x \in Deposits
  BY RowsTyped DEF AccountInv, IndInv, AddDeposit
<1>2. Write(k, Operation("CREATE", d)) /\ deposit' = Put(deposit, d, row)
  BY DEF AddDeposit
<1>3. PICK o : Plain(k, o) /\ IsNote(o, d)
  BY <1>1, <1>2, NoteWritten
<1>4. Commit(k, o) /\ o.source = d /\ o.target = d /\ o.rows = NoRows /\ o.due = 0
      /\ o.type \notin {"CANCEL", "COMPLETE_REFUND"}
  BY <1>3 DEF Plain, IsNote
<1>5. \A x \in Deposits : balance'[x] = balance[x]
  BY <1>1, <1>3, <1>4, NoteEffect
<1>6. \A x \in Deposits : Owes(x)' = Owes(x)
  <2> TAKE x \in Deposits
  <2>1. Owes(x)' = Owes(x) + (IF x = o.source THEN o.due ELSE 0)
    BY <1>1, <1>3, <1>4, DebtGrows
  <2> QED
    BY <1>1, <1>4, <2>1, OwedAsTable
<1>7. /\ DOMAIN deposit' = DOMAIN deposit \cup {d} /\ deposit'[d] = row
      /\ \A x \in DOMAIN deposit : deposit'[x] = deposit[x]
  BY <1>1, <1>2 DEF Put
<1>8. \A x \in DOMAIN deposit : Sound(x)' /\ (Settled => Exact(x)')
  BY <1>1, <1>4, <1>5, <1>6, <1>7, Frame
<1>9. Sound(d)' /\ Exact(d)'
  <2>1. balance'[d] = 0
    BY <1>1, <1>5 DEF AccountInv, DepositInv, Known
  <2>2. Owes(d)' = 0
    <3>1. \A q \in DOMAIN op : op[q].source # d
      BY <1>1 DEF AccountInv, DepositInv, Known
    <3> QED
      BY <1>1, <1>6, <3>1, NoDebt
  <2>3. row.status \in {"DRAFT", "PENDING", "PAID"}
    BY CoreAssumption
  <2>4. ~Ended(d)'
    BY <1>7, <2>3 DEF Ended
  <2>5. Funded(d)'
    BY <1>7, <2>1 DEF Funded
  <2> QED
    BY <2>2, <2>4, <2>5 DEF Sound, Exact
<1>10. \A x \in DOMAIN deposit : Booked(x)' <=> Booked(x)
  BY <1>7 DEF Booked
<1>11. outbox \subseteq outbox'
  BY DEF AddDeposit, Announce
<1> QED
  BY <1>4, <1>7, <1>8, <1>9, <1>10, <1>11, CommitGood

(* Every way to create one adds such a deposit. *)
LEMMA CreateGood ==
    ASSUME AccountInv, NEW k, CreateCommand(k)
    PROVE  Good
<1>1. PICK d \in Deposits, c \in Cycles, r \in Rooms, amount \in Amounts, until \in Expiries :
        \/ \E type \in {"BOOKING", "SECURITY"}, status \in CreateStatuses :
                Create(k, d, c, r, type, status, amount, until)
        \/ CreateBookingHold(k, d, c, r, amount, until)
  BY DEF CreateCommand
<1>2. amount \in Nat \ {0}
  BY CoreAssumption
<1>3. ASSUME NEW type, NEW status, status \in CreateStatuses \/ status = "PENDING", NEW b,
             AddDeposit(k, d, c, r, NewDeposit(type, status, amount, c, b), until)
      PROVE  Good
  <2> DEFINE row == NewDeposit(type, status, amount, c, b)
  <2>1. row.amount = amount /\ row.invoicePaid = 0 /\ row.status = status
    BY DEF NewDeposit
  <2> HIDE DEF row
  <2> QED
    BY <1>2, <1>3, <2>1, AddDepositGood DEF row
<1>4. CASE \E type \in {"BOOKING", "SECURITY"}, status \in CreateStatuses :
                Create(k, d, c, r, type, status, amount, until)
  BY <1>3, <1>4 DEF Create
<1>5. CASE CreateBookingHold(k, d, c, r, amount, until)
  BY <1>3, <1>5 DEF CreateBookingHold
<1> QED
  BY <1>1, <1>4, <1>5

-----------------------------------------------------------------------------
(* Receipts. *)

LEMMA StatusSet ==
    ASSUME TypeOK, CycleKnown, NEW d \in DOMAIN deposit, NEW s, SetStatus(d, s)
    PROVE  /\ DOMAIN deposit' = DOMAIN deposit
           /\ \A x \in DOMAIN deposit : x # d => deposit'[x] = deposit[x]
           /\ deposit'[d].status = s /\ deposit'[d].type = deposit[d].type
           /\ deposit'[d].amount = deposit[d].amount /\ deposit'[d].billing = deposit[d].billing
           /\ deposit'[d].invoicePaid = deposit[d].invoicePaid
<1>1. deposit[d] \in DepositRow
  BY RowsTyped
<1>2. deposit' = [deposit EXCEPT ![d].status = s]
  BY DEF SetStatus
<1>3. /\ DOMAIN deposit' = DOMAIN deposit
      /\ \A x \in DOMAIN deposit : x # d => deposit'[x] = deposit[x]
      /\ deposit'[d] = [deposit[d] EXCEPT !.status = s]
  BY <1>2
<1> QED
  BY <1>1, <1>3 DEF DepositRow

(* What a receipt leaves as it was. *)
LEMMA CashFrame ==
    ASSUME AccountInv, NEW k, NEW o, NEW d \in DOMAIN deposit, NEW amount \in Nat,
           Plain(k, o), IsCash(o, d, amount),
           \A x \in DOMAIN deposit : x # d => deposit'[x] = deposit[x]
    PROVE  /\ Commit(k, o) /\ o.source = d /\ o.target = d /\ o.type = "COLLECT"
           /\ balance'[d] = balance[d] + amount
           /\ Owes(d)' = Owes(d)
           /\ \A x \in DOMAIN deposit : x # d => Sound(x)' /\ (Settled => Exact(x)')
<1>1. TypeOK /\ \A x \in DOMAIN deposit : x \in Deposits
  BY RowsTyped DEF AccountInv, IndInv
<1>2. Commit(k, o) /\ o.source = d /\ o.target = d /\ o.type = "COLLECT" /\ o.due = 0
  BY DEF Plain, IsCash
<1>3. \A x : Owes(x)' = Owes(x)
  <2> TAKE x
  <2>1. Owes(x)' = Owes(x) + (IF x = o.source THEN o.due ELSE 0)
    BY <1>1, <1>2, DebtGrows
  <2> QED
    BY <1>1, <1>2, <2>1, OwedAsTable
<1>4. \A x \in DOMAIN deposit : x # d => balance'[x] = balance[x]
  BY <1>1, <1>2, PostSays
<1>5. balance'[d] = balance[d] + amount
  BY <1>1, <1>2, CashEffect
<1>6. \A x \in DOMAIN deposit : x # d => Sound(x)' /\ (Settled => Exact(x)')
  BY <1>2, <1>3, <1>4, Frame
<1> QED
  BY <1>2, <1>3, <1>5, <1>6

(* An operation that writes an event is announced. *)
LEMMA EventTold ==
    ASSUME NEW k, NEW name, NEW E, Announce(E), Event(k, name) \in E
    PROVE  outbox \subseteq outbox' /\ \E e \in outbox' : e.about = k
<1>1. Event(k, name).about = k
  BY DEF Event
<1> QED
  BY <1>1 DEF Announce

(* A collection funds the deposit to its amount. *)
LEMMA CollectGood ==
    ASSUME AccountInv, NEW k, NEW d \in DOMAIN deposit, NEW until, Collect(k, d, until)
    PROVE  Good
<1> DEFINE missing == deposit[d].amount - balance[d]
<1>1. TypeOK /\ CycleKnown /\ d \in Deposits /\ deposit[d].amount \in Nat /\ balance[d] \in Int
  BY RowsTyped DEF AccountInv, IndInv, DepositRow, TypeOK
<1>2. missing \in Nat /\ Fresh(k) /\ CashIn(k, d, missing) /\ SetStatus(d, "PAID")
  BY MissingAmount DEF AccountInv, Collect
<1>3. PICK o : Plain(k, o) /\ IsCash(o, d, missing)
  BY <1>1, <1>2, CashWritten
<1>4. /\ DOMAIN deposit' = DOMAIN deposit
      /\ \A x \in DOMAIN deposit : x # d => deposit'[x] = deposit[x]
      /\ deposit'[d].status = "PAID" /\ deposit'[d].type = deposit[d].type
      /\ deposit'[d].amount = deposit[d].amount /\ deposit'[d].billing = deposit[d].billing
  BY <1>1, <1>2, StatusSet
<1> HIDE DEF missing
<1>5. /\ Commit(k, o) /\ o.source = d /\ o.target = d /\ o.type = "COLLECT"
      /\ balance'[d] = balance[d] + missing
      /\ Owes(d)' = Owes(d)
      /\ \A x \in DOMAIN deposit : x # d => Sound(x)' /\ (Settled => Exact(x)')
  BY <1>2, <1>3, <1>4, CashFrame
<1>6. Sound(d)' /\ Exact(d)'
  <2>1. ~Ended(d) /\ ~Ended(d)'
    BY <1>4 DEF Ended, Collect
  <2>2. ~Reversed(d)' => Owes(d)' = 0
    <3>1. Reversed(d) => Reversed(d)'
      BY <1>1, <1>5, ReversedStays
    <3> QED
      BY <1>5, <2>1, <3>1 DEF AccountInv, DepositInv, Sound
  <2>3. balance'[d] = deposit'[d].amount
    BY <1>1, <1>4, <1>5 DEF missing
  <2>4. ~Booked(d)'
    BY <1>4 DEF Booked, Collect, PaidDirectly
  <2>5. Funded(d)'
    BY <1>4, <2>3, <2>4 DEF Funded
  <2> QED
    BY <2>1, <2>2, <2>5 DEF Sound, Exact
<1>7. \A x \in DOMAIN deposit : Booked(x)' <=> Booked(x)
  BY <1>4 DEF Booked
<1>8. outbox \subseteq outbox' /\ \E e \in outbox' : e.about = k
  <2>1. Announce({Event(k, "deposit.collected")})
    BY DEF Collect
  <2> QED
    BY <2>1, EventTold
<1> QED
  BY <1>4, <1>5, <1>6, <1>7, <1>8, CommitGood

(* A payment of the booking invoice raises balance and invoice alike. *)
LEMMA PayGood ==
    ASSUME AccountInv, NEW k, NEW d \in DOMAIN deposit, NEW amount \in Amounts,
           PayBookingInvoice(k, d, amount)
    PROVE  Good
<1> DEFINE total == deposit[d].invoicePaid + amount
           row == [deposit[d] EXCEPT !.invoicePaid = total,
                                     !.status = FundedStatus(total, deposit[d].amount)]
<1>1. /\ TypeOK /\ CycleKnown /\ d \in Deposits /\ deposit[d] \in DepositRow /\ amount \in Nat
      /\ deposit[d].amount \in Nat /\ deposit[d].invoicePaid \in Nat
  BY RowsTyped, CoreAssumption DEF AccountInv, IndInv, DepositRow
<1>2. Fresh(k) /\ CashIn(k, d, amount) /\ deposit' = [deposit EXCEPT ![d] = row]
  BY DEF PayBookingInvoice
<1>3. PICK o : Plain(k, o) /\ IsCash(o, d, amount)
  BY <1>1, <1>2, CashWritten
<1>4. /\ DOMAIN deposit' = DOMAIN deposit
      /\ \A x \in DOMAIN deposit : x # d => deposit'[x] = deposit[x]
      /\ deposit'[d].status = FundedStatus(total, deposit[d].amount)
      /\ deposit'[d].type = deposit[d].type /\ deposit'[d].amount = deposit[d].amount
      /\ deposit'[d].billing = deposit[d].billing /\ deposit'[d].invoicePaid = total
  <2>1. /\ DOMAIN deposit' = DOMAIN deposit /\ deposit'[d] = row
        /\ \A x \in DOMAIN deposit : x # d => deposit'[x] = deposit[x]
    BY <1>2
  <2> QED
    BY <1>1, <2>1 DEF DepositRow
<1> HIDE DEF row
<1>5. /\ Commit(k, o) /\ o.source = d /\ o.target = d /\ o.type = "COLLECT"
      /\ balance'[d] = balance[d] + amount
      /\ Owes(d)' = Owes(d)
      /\ \A x \in DOMAIN deposit : x # d => Sound(x)' /\ (Settled => Exact(x)')
  BY <1>1, <1>3, <1>4, CashFrame
<1>6. Sound(d)' /\ Exact(d)'
  <2>1. ~Ended(d) /\ ~Ended(d)'
    BY <1>4 DEF Ended, PayBookingInvoice, FundedStatus
  <2>2. ~Reversed(d)' => Owes(d)' = 0
    <3>1. Reversed(d) => Reversed(d)'
      BY <1>1, <1>5, ReversedStays
    <3> QED
      BY <1>5, <2>1, <3>1 DEF AccountInv, DepositInv, Sound
  <2>3. balance'[d] = total /\ total <= deposit[d].amount
    BY <1>1, <1>5 DEF PayBookingInvoice
  <2>4. /\ deposit'[d].status = "PAID" => total = deposit[d].amount
        /\ deposit'[d].status = "PENDING" => total < deposit[d].amount
    BY <1>1, <1>4, <2>3 DEF FundedStatus
  <2>5. Funded(d)'
    BY <1>4, <2>3, <2>4 DEF Funded
  <2> QED
    BY <2>1, <2>2, <2>5 DEF Sound, Exact
<1>7. \A x \in DOMAIN deposit : Booked(x)' <=> Booked(x)
  BY <1>4 DEF Booked
<1>8. outbox \subseteq outbox' /\ \E e \in outbox' : e.about = k
  <2>1. Announce({Event(k, "deposit.collected")})
    BY DEF PayBookingInvoice
  <2> QED
    BY <2>1, EventTold
<1> QED
  BY <1>4, <1>5, <1>6, <1>7, <1>8, CommitGood

-----------------------------------------------------------------------------
(* Cancellation. *)

LEMMA CancelGood ==
    ASSUME AccountInv, NEW k, NEW d \in DOMAIN deposit, NEW refund \in Nat, NEW keep \in Nat,
           NEW deduct \in Nat, NEW receipt, Cancel(k, d, refund, keep, deduct, receipt)
    PROVE  Good
<1>1. /\ TypeOK /\ CycleKnown /\ d \in Deposits /\ balance[d] \in Nat
      /\ \A x \in DOMAIN deposit : x \in Deposits
  BY RowsTyped DEF AccountInv, IndInv, TypeOK, BalanceNonNegative
<1>2. PICK o : \E paid, due \in Nat :
              /\ Plain(k, o) /\ IsCancellation(o, d, paid, keep, deduct, due)
              /\ paid + due = refund
              /\ paid = IF refund > 0 /\ receipt = "PENDING" THEN 0 ELSE refund
  BY CancellationWritten DEF AccountInv
<1>3. PICK paid \in Nat, due \in Nat :
              /\ Plain(k, o) /\ IsCancellation(o, d, paid, keep, deduct, due)
              /\ paid + due = refund
              /\ paid = IF refund > 0 /\ receipt = "PENDING" THEN 0 ELSE refund
  BY <1>2
<1>4. /\ Commit(k, o) /\ o.source = d /\ o.target = d /\ o.type = "CANCEL" /\ o.due = due
      /\ o.due = 0 \/ o.status = "PENDING"
      /\ o.rows["KEEP"] = keep /\ o.rows["DEDUCT"] = deduct /\ o.rows["REFUND"] = paid
  BY <1>3 DEF Plain, IsCancellation, NoRows, RowTypes
<1>5. SetStatus(d, "CANCELLED")
  BY DEF Cancel
<1>6. /\ DOMAIN deposit' = DOMAIN deposit
      /\ \A x \in DOMAIN deposit : x # d => deposit'[x] = deposit[x]
      /\ deposit'[d].status = "CANCELLED" /\ deposit'[d].type = deposit[d].type
      /\ deposit'[d].billing = deposit[d].billing
  BY <1>1, <1>5, StatusSet
<1>7. balance'[d] = balance[d] - paid - keep - deduct
  BY <1>1, <1>3, <1>4, CancellationEffect
<1>8. \A x : Owes(x)' = Owes(x) + (IF x = d THEN due ELSE 0) /\ Owes(x) \in Nat
  <2> TAKE x
  <2>1. Owes(x)' = Owes(x) + (IF x = o.source THEN o.due ELSE 0)
    BY <1>1, <1>3, <1>4, DebtGrows
  <2> QED
    BY <1>1, <1>4, <2>1, OwedAsTable
<1>9. \A x \in DOMAIN deposit : x # d => Sound(x)' /\ (Settled => Exact(x)')
  <2>1. \A x \in DOMAIN deposit : x # d => balance'[x] = balance[x] /\ Owes(x)' = Owes(x)
    BY <1>1, <1>4, <1>8, PostSays
  <2> QED
    BY <1>4, <1>6, <2>1, Frame
<1>10. balance'[d] = due
  <2>1. refund + keep + deduct = balance[d]
    BY <1>1 DEF Cancel, Cancellable, CancellationPlan
  <2> QED
    BY <1>1, <1>3, <1>7, <2>1
<1>11. Sound(d)' /\ Exact(d)'
  <2>1. ~Ended(d) /\ Ended(d)'
    BY <1>6 DEF Ended, Cancel, Cancellable
  <2>2. ~Reversed(d)' => Owes(d)' = due
    <3>1. Reversed(d) => Reversed(d)'
      BY <1>1, <1>4, ReversedStays
    <3>2. ~Reversed(d) => Owes(d) = 0
      BY <2>1 DEF AccountInv, DepositInv, Sound
    <3> QED
      BY <1>3, <1>8, <3>1, <3>2
  <2>3. Funded(d)'
    BY <1>6 DEF Funded
  <2> QED
    BY <1>3, <1>10, <2>1, <2>2, <2>3 DEF Sound, Exact
<1>12. \A x \in DOMAIN deposit : Booked(x)' <=> Booked(x)
  BY <1>6 DEF Booked
<1> DEFINE pending == refund > 0 /\ receipt = "PENDING"
<1>13. outbox' = outbox \cup CancellationEvents(k, d, refund, keep, deduct, pending)
  BY DEF Cancel, Announce
<1>14. \E e \in outbox' : e.about = k
  <2>1. \E name : Event(k, name) \in CancellationEvents(k, d, refund, keep, deduct, pending)
    BY DEF CancellationEvents
  <2>2. Announce(CancellationEvents(k, d, refund, keep, deduct, pending))
    BY DEF Cancel
  <2> QED
    BY <2>1, <2>2, EventTold
<1>15. \A t \in {"KEEP", "DEDUCT", "REFUND"} :
            Booked(o.source)' /\ o.rows[t] > 0 => Disposition(k, t) \in outbox'
  <2> DEFINE moved == [KEEP |-> keep, DEDUCT |-> deduct, REFUND |-> IF pending THEN 0 ELSE refund]
  <2>1. DOMAIN moved = {"KEEP", "DEDUCT", "REFUND"}
    OBVIOUS
  <2>2. \A t \in {"KEEP", "DEDUCT", "REFUND"} : moved[t] = o.rows[t]
    BY <1>3, <1>4
  <2>3. Booked(d) => \A t \in DOMAIN moved : moved[t] > 0 =>
            Disposition(k, t) \in CancellationEvents(k, d, refund, keep, deduct, pending)
    BY DEF CancellationEvents
  <2> HIDE DEF moved
  <2> QED
    BY <1>4, <1>12, <1>13, <2>1, <2>2, <2>3
<1>16. outbox \subseteq outbox'
  BY <1>13
<1> QED
  BY <1>4, <1>6, <1>9, <1>11, <1>12, <1>14, <1>15, <1>16, CommitGood

-----------------------------------------------------------------------------
(* Conversion. *)

(* The two deposits of a conversion are different ones, and the security   *)
(* deposit is unfunded and owes nothing.                                   *)
LEMMA TargetSays ==
    ASSUME AccountInv, NEW k, NEW d \in DOMAIN deposit, NEW s \in Deposits, NEW required,
           NEW excess, NEW receipt, Convert(k, d, s, required, excess, receipt)
    PROVE  /\ s # d /\ balance[s] = 0
           /\ s \in DOMAIN deposit => ~Booked(s) /\ deposit[s].amount = required
           /\ ~Reversed(s) => Owes(s) = 0
<1>1. deposit[d].type = "BOOKING" /\ IsTarget(d, s, required)
  BY DEF Convert
<1>2. s # d
  BY <1>1 DEF IsTarget
<1>3. CASE s \in DOMAIN deposit
  <2>1. balance[s] = 0 /\ deposit[s].type = "SECURITY" /\ deposit[s].amount = required
    BY <1>1, <1>3 DEF IsTarget
  <2>2. Owes(s) \in Nat
    BY OwedAsTable DEF AccountInv, IndInv
  <2>3. ~Reversed(s) => Owes(s) = 0
    BY <1>3, <2>1, <2>2 DEF AccountInv, DepositInv, Sound
  <2> QED
    BY <1>2, <2>1, <2>3 DEF Booked
<1>4. CASE s \notin DOMAIN deposit
  <2>1. balance[s] = 0 /\ \A q \in DOMAIN op : op[q].source # s
    BY <1>4 DEF AccountInv, DepositInv, Known
  <2>2. Owes(s) = 0
    BY <2>1, NoDebt DEF AccountInv, IndInv
  <2> QED
    BY <1>2, <1>4, <2>1, <2>2
<1> QED
  BY <1>3, <1>4

(* The deposits after a conversion of d to s. *)
Converted(d, s, transfer, required) ==
    /\ DOMAIN deposit' = DOMAIN deposit \cup {s}
    /\ \A x \in DOMAIN deposit : x \notin {d, s} => deposit'[x] = deposit[x]
    /\ deposit'[d].status = "CONVERTED_TO_CONTRACT" /\ (Booked(d)' <=> Booked(d))
    /\ deposit'[s].status = FundedStatus(transfer, required)
    /\ deposit'[s].amount = required /\ ~Booked(s)'

(* The two deposits of a conversion, afterwards. *)
LEMMA ConversionRows ==
    ASSUME AccountInv, NEW k, NEW d \in DOMAIN deposit, NEW s \in Deposits,
           NEW required \in Amounts, NEW excess, NEW receipt,
           Convert(k, d, s, required, excess, receipt)
    PROVE  Converted(d, s, ConversionPlan(balance[d], required).transfer, required)
<1> DEFINE plan == ConversionPlan(balance[d], required)
           status == FundedStatus(required - plan.additional, required)
           new == NewDeposit("SECURITY", status, required, deposit[d].cycle, "NONE")
           target == IF s \in DOMAIN deposit THEN [deposit[s] EXCEPT !.status = status] ELSE new
           paid == [deposit EXCEPT ![d].status = "CONVERTED_TO_CONTRACT"]
<1>1. /\ TypeOK /\ deposit[d] \in DepositRow /\ balance[d] \in Nat /\ required \in Nat
      /\ \A x \in DOMAIN deposit : deposit[x] \in DepositRow
  BY RowsTyped, CoreAssumption DEF AccountInv, IndInv, TypeOK, BalanceNonNegative
<1>2. s # d /\ (s \in DOMAIN deposit => ~Booked(s) /\ deposit[s].amount = required)
  BY TargetSays
<1>3. deposit' = Put(paid, s, target)
  BY DEF Convert
<1>4. required - plan.additional = plan.transfer
  BY <1>1 DEF ConversionPlan, Smaller
<1>5. target.status = status /\ target.amount = required /\ ~(target.type = "BOOKING" /\ target.billing # "NONE")
  <2>1. new.status = status /\ new.amount = required /\ new.type = "SECURITY"
    BY DEF NewDeposit
  <2> HIDE DEF new, status
  <2>2. CASE s \in DOMAIN deposit
    <3>1. target = [deposit[s] EXCEPT !.status = status]
      BY <2>2
    <3> HIDE DEF target
    <3> QED
      BY <1>1, <1>2, <2>2, <3>1 DEF DepositRow, Booked
  <2>3. CASE s \notin DOMAIN deposit
    BY <2>1, <2>3
  <2> QED
    BY <2>2, <2>3
<1>6. /\ DOMAIN paid = DOMAIN deposit /\ paid[d] = [deposit[d] EXCEPT !.status = "CONVERTED_TO_CONTRACT"]
      /\ \A x \in DOMAIN deposit : x # d => paid[x] = deposit[x]
  OBVIOUS
<1> HIDE DEF paid, target, status, plan
<1>7. /\ DOMAIN deposit' = DOMAIN deposit \cup {s} /\ deposit'[s] = target
      /\ deposit'[d] = [deposit[d] EXCEPT !.status = "CONVERTED_TO_CONTRACT"]
      /\ \A x \in DOMAIN deposit : x \notin {d, s} => deposit'[x] = deposit[x]
  BY <1>2, <1>3, <1>6 DEF Put
<1>8. /\ deposit'[d].status = "CONVERTED_TO_CONTRACT" /\ deposit'[d].type = deposit[d].type
      /\ deposit'[d].billing = deposit[d].billing
  BY <1>1, <1>7 DEF DepositRow
<1>9. status = FundedStatus(plan.transfer, required)
  BY <1>4 DEF status
<1> QED
  BY <1>5, <1>7, <1>8, <1>9 DEF Booked, plan, Converted

(* A conversion empties the booking and funds the security deposit. *)
LEMMA ConvertGood ==
    ASSUME AccountInv, NEW k, NEW d \in DOMAIN deposit, NEW s \in Deposits, NEW required \in Amounts,
           NEW excess \in {"CREDIT", "REFUND"}, NEW receipt \in {"PENDING", "COMPLETED"},
           Convert(k, d, s, required, excess, receipt)
    PROVE  Good
<1> DEFINE plan == ConversionPlan(balance[d], required)
<1>1. /\ TypeOK /\ d \in Deposits /\ balance[d] \in Nat /\ required \in Nat
      /\ \A x \in DOMAIN deposit : x \in Deposits
  BY RowsTyped, CoreAssumption DEF AccountInv, IndInv, TypeOK, BalanceNonNegative
<1>2. plan.transfer \in Nat /\ plan.transfer <= required /\ plan.transfer + plan.excess = balance[d]
      /\ plan.excess \in Nat
  BY <1>1 DEF ConversionPlan, Smaller
<1>3. IndInv
  BY DEF AccountInv
<1>4. PICK o : ConversionBy(k, o, d, s, plan)
  BY <1>3, ConversionWritten
<1>5. PICK credit \in Nat, refund \in Nat, due \in Nat :
        /\ Plain(k, o) /\ IsConversion(o, d, s, plan.transfer, credit, refund, due)
        /\ credit + refund + due = plan.excess
  BY <1>4 DEF ConversionBy
<1>6. /\ s # d /\ balance[s] = 0 /\ (~Reversed(s) => Owes(s) = 0)
      /\ s \in DOMAIN deposit => ~Booked(s)
  BY TargetSays
<1>7. /\ DOMAIN deposit' = DOMAIN deposit \cup {s}
      /\ \A x \in DOMAIN deposit : x \notin {d, s} => deposit'[x] = deposit[x]
      /\ deposit'[d].status = "CONVERTED_TO_CONTRACT" /\ (Booked(d)' <=> Booked(d))
      /\ deposit'[s].status = FundedStatus(plan.transfer, required)
      /\ deposit'[s].amount = required /\ ~Booked(s)'
  <2>1. Converted(d, s, plan.transfer, required)
    BY ConversionRows
  <2> QED
    BY <2>1 DEF Converted
<1> HIDE DEF plan
<1>8. /\ Commit(k, o) /\ o.source = d /\ o.target = s /\ o.type = "CONVERT_TO_SECURITY"
      /\ o.due = due /\ (o.due = 0 \/ o.status = "PENDING")
  BY <1>5 DEF Plain, IsConversion
<1>9. balance'[d] = due /\ balance'[s] = plan.transfer
  <2>1. /\ balance'[d] = balance[d] - plan.transfer - credit - refund
        /\ balance'[s] = balance[s] + plan.transfer
    <3>1. TypeOK /\ d \in Deposits /\ d # s /\ plan.transfer \in Nat /\ Commit(k, o)
      BY <1>1, <1>2, <1>6, <1>8
    <3>2. IsConversion(o, d, s, plan.transfer, credit, refund, due)
      BY <1>5
    <3>3. credit \in Nat /\ refund \in Nat /\ s \in Deposits
      OBVIOUS
    <3> QED
      BY <3>1, <3>2, <3>3, ConversionEffect
  <2> QED
    BY <1>1, <1>2, <1>5, <1>6, <2>1
<1>10. \A x : Owes(x)' = Owes(x) + (IF x = d THEN due ELSE 0) /\ Owes(x) \in Nat
  <2> TAKE x
  <2>1. Owes(x)' = Owes(x) + (IF x = o.source THEN o.due ELSE 0)
    BY <1>1, <1>5, <1>8, DebtGrows
  <2> QED
    BY <1>1, <1>8, <2>1, OwedAsTable
<1>11. ASSUME NEW x \in DOMAIN deposit, x \notin {d, s} PROVE Sound(x)' /\ (Settled => Exact(x)')
  <2>1. balance'[x] = balance[x] /\ Owes(x)' = Owes(x)
    BY <1>1, <1>8, <1>10, <1>11, PostSays
  <2> QED
    BY <1>7, <1>8, <1>11, <2>1, Frame
<1>12. \A x : Reversed(x) => Reversed(x)'
  BY <1>1, <1>8, ReversedStays
<1>13. Sound(d)' /\ Exact(d)'
  <2>1. ~Ended(d) /\ Ended(d)' /\ Funded(d)'
    BY <1>7 DEF Ended, Funded, Convert
  <2>2. ~Reversed(d) => Owes(d) = 0
    BY <2>1 DEF AccountInv, DepositInv, Sound
  <2>3. ~Reversed(d)' => Owes(d)' = due
    BY <1>5, <1>10, <1>12, <2>2
  <2> QED
    BY <1>5, <1>9, <2>1, <2>3 DEF Sound, Exact
<1>14. Sound(s)' /\ Exact(s)'
  <2>1. ~Ended(s)'
    BY <1>7 DEF Ended, FundedStatus
  <2>2. ~Reversed(s)' => Owes(s)' = 0
    BY <1>6, <1>10, <1>12
  <2>3. Funded(s)'
    <3>1. deposit'[s].status = IF plan.transfer = required THEN "PAID" ELSE "PENDING"
      BY <1>7 DEF FundedStatus
    <3> QED
      BY <1>1, <1>2, <1>7, <1>9, <3>1 DEF Funded
  <2> QED
    BY <2>1, <2>2, <2>3 DEF Sound, Exact
<1>15. \A x \in DOMAIN deposit : Booked(x)' <=> Booked(x)
  <2>1. \A x \in DOMAIN deposit : x \notin {d, s} => (Booked(x)' <=> Booked(x))
    BY <1>7 DEF Booked
  <2> QED
    BY <1>6, <1>7, <2>1
<1>16. outbox \subseteq outbox' /\ \E e \in outbox' : e.about = k
  <2>1. Announce({Event(k, "deposit.converted_to_security")})
    BY DEF Convert
  <2> QED
    BY <2>1, EventTold
<1>17. \A x \in DOMAIN deposit' : Sound(x)' /\ (Settled => Exact(x)')
  BY <1>7, <1>11, <1>13, <1>14
<1>18. o.type \notin {"CANCEL", "COMPLETE_REFUND"}
  BY <1>8
<1> QED
  BY <1>7, <1>8, <1>15, <1>16, <1>17, <1>18, CommitGood

-----------------------------------------------------------------------------
(* Refunds paid later and reversals. *)

LEMMA PayoutGood ==
    ASSUME AccountInv, NEW k, NEW p \in DOMAIN op, CompleteRefund(k, p)
    PROVE  Good
<1>0. PICK d : d = op[p].source
  OBVIOUS
<1>1. /\ TypeOK /\ op[p].due \in Nat /\ d \in DOMAIN deposit /\ op[p].target \in DOMAIN deposit
      /\ \A x \in DOMAIN deposit : x \in Deposits /\ balance[x] \in Nat
  BY <1>0, RowsTyped DEF AccountInv, IndInv, DepositInv, Known, OperationRow, TypeOK, BalanceNonNegative
<1>2. PICK o : Commit(k, o) /\ IsPayout(o, p) /\ Settles(p)
  BY PayoutWritten DEF AccountInv
<1>3. op[p].due > 0 /\ UNCHANGED deposit
  BY DEF CompleteRefund, Payable
<1>4. \A x \in DOMAIN deposit : balance'[x] = balance[x] - (IF x = d THEN op[p].due ELSE 0)
  BY <1>0, <1>1, <1>2, PayoutEffect
<1>5. \A x : /\ Owes(x)' = Owes(x) - (IF x = d THEN op[p].due ELSE 0)
             /\ x = d => op[p].due <= Owes(x)
             /\ Owes(x) \in Nat
  BY <1>0, <1>1, <1>2, DebtPaid, OwedAsTable
<1>6. o.source = d /\ o.target = op[p].target /\ o.rows = [NoRows EXCEPT !["REFUND"] = op[p].due]
  BY <1>0, <1>2 DEF IsPayout
<1>7. ASSUME NEW x \in DOMAIN deposit, x # d PROVE Sound(x)' /\ (Settled => Exact(x)')
  <2>1. balance'[x] = balance[x] /\ Owes(x)' = Owes(x)
    BY <1>1, <1>4, <1>5, <1>7
  <2> QED
    BY <1>2, <1>3, <1>7, <2>1, Frame
<1>8. Sound(d)' /\ (Settled => Exact(d)')
  <2>1. Reversed(d) => Reversed(d)'
    BY <1>1, <1>2, ReversedStays
  <2>2. ~Reversed(d) => Ended(d) /\ Owes(d) <= balance[d]
    <3>1. Owes(d) # 0
      BY <1>1, <1>3, <1>5
    <3> QED
      BY <1>1, <3>1 DEF AccountInv, DepositInv, Sound
  <2>3. Ended(d)' <=> Ended(d)
    BY <1>3 DEF Ended
  <2>4. /\ balance'[d] = balance[d] - op[p].due /\ Owes(d)' = Owes(d) - op[p].due
        /\ balance[d] \in Nat /\ Owes(d) \in Nat /\ op[p].due \in Nat
    BY <1>1, <1>4, <1>5
  <2>5. Ended(d)' => Funded(d)'
    BY DEF Ended, Funded
  <2>6. ~Reversed(d) => Owes(d)' <= balance'[d]
    BY <2>2, <2>4
  <2>7. Settled /\ ~Reversed(d) => balance'[d] = Owes(d)'
    BY <1>1, <2>2, <2>4 DEF Settled, Exact
  <2> QED
    BY <2>1, <2>2, <2>3, <2>5, <2>6, <2>7 DEF Sound, Exact
<1>9. \A x \in DOMAIN deposit : Booked(x)' <=> Booked(x)
  BY <1>3 DEF Booked
<1> DEFINE E == {Event(k, "deposit.refunded")} \cup
                    (IF Booked(d) THEN {Disposition(k, "REFUND")} ELSE {})
<1>10. Announce(E)
  BY <1>0 DEF CompleteRefund
<1>11. outbox \subseteq outbox' /\ \E e \in outbox' : e.about = k
  BY <1>10, EventTold
<1>12. \A t \in {"KEEP", "DEDUCT", "REFUND"} :
            Booked(o.source)' /\ o.rows[t] > 0 => Disposition(k, t) \in outbox'
  <2>1. o.rows["KEEP"] = 0 /\ o.rows["DEDUCT"] = 0
    BY <1>6 DEF NoRows, RowTypes
  <2>2. Booked(d) => Disposition(k, "REFUND") \in outbox'
    BY <1>10 DEF Announce
  <2> QED
    BY <1>1, <1>6, <1>9, <2>1, <2>2
<1>13. \A x \in DOMAIN deposit' : Sound(x)' /\ (Settled => Exact(x)')
  BY <1>3, <1>7, <1>8
<1>14. DOMAIN deposit \subseteq DOMAIN deposit' /\ o.source \in DOMAIN deposit' /\ o.target \in DOMAIN deposit'
  BY <1>1, <1>3, <1>6
<1> QED
  BY <1>2, <1>9, <1>11, <1>12, <1>13, <1>14, CommitGood

(* A reversal takes back what its operation did to balance and status. *)
LEMMA ReverseGood ==
    ASSUME AccountInv, NEW k, NEW p \in DOMAIN op, Reverse(k, p)
    PROVE  Good
<1>1. /\ TypeOK /\ \A x \in DOMAIN deposit : x \in Deposits
      /\ op[p].source \in DOMAIN deposit /\ op[p].target \in DOMAIN deposit
  BY RowsTyped DEF AccountInv, IndInv, DepositInv, Known
<1>2. PICK o : Plain(k, o) /\ IsReversal(o, p)
  BY ReversalWritten DEF AccountInv
<1>3. /\ Commit(k, o) /\ o.source = op[p].source /\ o.target = op[p].target
      /\ o.type = "REVERSE_LEDGER" /\ o.due = 0
  BY <1>2 DEF Plain, IsReversal
<1>4. UNCHANGED deposit
  BY DEF Reverse
<1>5. \A x : Owes(x)' = Owes(x)
  <2> TAKE x
  <2>1. Owes(x)' = Owes(x) + (IF x = o.source THEN o.due ELSE 0)
    BY <1>1, <1>2, <1>3, DebtGrows
  <2> QED
    BY <1>1, <1>3, <2>1, OwedAsTable
<1>6. ASSUME NEW x \in DOMAIN deposit, x \notin {o.source, o.target}
      PROVE  Sound(x)' /\ (Settled => Exact(x)')
  <2>1. balance'[x] = balance[x]
    BY <1>1, <1>3, <1>6, PostSays
  <2> QED
    BY <1>3, <1>4, <1>5, <1>6, <2>1, Frame
<1>7. \A x : x \in {o.source, o.target} => Reversed(x)'
  <2>1. k \in DOMAIN op' /\ op'[k] = o
    BY <1>3 DEF Commit
  <2> QED
    BY <1>3, <2>1 DEF Reversed
<1>8. \A x \in DOMAIN deposit' : Sound(x)' /\ (Settled => Exact(x)')
  BY <1>4, <1>6, <1>7 DEF Sound, Exact
<1>9. \A x \in DOMAIN deposit : Booked(x)' <=> Booked(x)
  BY <1>4 DEF Booked
<1>10. outbox \subseteq outbox' /\ \E e \in outbox' : e.about = k
  <2>1. Announce({Event(k, "deposit.ledger.reversed")})
    BY DEF Reverse
  <2> QED
    BY <2>1, EventTold
<1>11. DOMAIN deposit \subseteq DOMAIN deposit' /\ o.source \in DOMAIN deposit' /\ o.target \in DOMAIN deposit'
  BY <1>1, <1>3, <1>4
<1>12. o.type \notin {"CANCEL", "COMPLETE_REFUND"}
  BY <1>3
<1> QED
  BY <1>3, <1>8, <1>9, <1>10, <1>11, <1>12, CommitGood

-----------------------------------------------------------------------------
(* Steps that commit no operation. *)

LEMMA BooksFrame ==
    ASSUME AccountInv, UNCHANGED <<op, balance>>, outbox \subseteq outbox',
           DOMAIN deposit' = DOMAIN deposit,
           \A x \in DOMAIN deposit : Booked(x)' <=> Booked(x)
    PROVE  /\ Known' /\ MoneyIsAnnounced'
           /\ \A x : Owes(x)' = Owes(x) /\ (Reversed(x)' <=> Reversed(x))
<1>1. Known'
  BY DEF AccountInv, DepositInv, Known
<1>2. \A x : Owes(x)' = Owes(x) /\ (Reversed(x)' <=> Reversed(x))
  BY DEF Owes, Debt, Reversed
<1>3. \A x \in DOMAIN deposit : BookedAfter(x) <=> Booked(x)
  BY DEF Booked, BookedAfter
<1>4. \A q \in DOMAIN op : op[q].source \in DOMAIN deposit
  BY DEF AccountInv, DepositInv, Known
<1>5. \A q \in DOMAIN op :
        /\ op[q].rows # NoRows => \E e \in outbox' : e.about = q
        /\ \A t \in {"KEEP", "DEDUCT", "REFUND"} :
             /\ op[q].type \in {"CANCEL", "COMPLETE_REFUND"}
             /\ BookedAfter(op[q].source) /\ op[q].rows[t] > 0
             => Disposition(q, t) \in outbox'
  BY <1>3, <1>4 DEF AccountInv, MoneyIsAnnounced
<1>6. MoneyIsAnnounced'
  BY <1>5 DEF MoneyIsAnnounced, Booked, BookedAfter
<1> QED
  BY <1>1, <1>2, <1>6

(* A step that leaves deposits, operations and balances alone. *)
LEMMA QuietGood ==
    ASSUME AccountInv, UNCHANGED <<deposit, op, balance>>, outbox \subseteq outbox'
    PROVE  Good
<1>1. \A x \in DOMAIN deposit : Booked(x)' <=> Booked(x)
  BY DEF Booked
<1>2. /\ Known' /\ MoneyIsAnnounced'
      /\ \A x : Owes(x)' = Owes(x) /\ (Reversed(x)' <=> Reversed(x))
  BY <1>1, BooksFrame
<1>3. \A x \in DOMAIN deposit : (Ended(x)' <=> Ended(x)) /\ (Funded(x)' <=> Funded(x))
  BY DEF Ended, Funded, Booked
<1>4. \A x \in DOMAIN deposit : (Sound(x)' <=> Sound(x)) /\ (Exact(x)' <=> Exact(x))
  BY <1>2, <1>3 DEF Sound, Exact
<1> QED
  BY <1>2, <1>4 DEF Good, AccountInv, DepositInv, Settled

(* Issuing the booking invoice moves no money. *)
LEMMA IssueGood ==
    ASSUME AccountInv, NEW d \in DOMAIN deposit, IssueBookingInvoice(d)
    PROVE  Good
<1>1. deposit[d] \in DepositRow
  BY RowsTyped DEF AccountInv, IndInv
<1>2. /\ deposit' = [deposit EXCEPT ![d].billing = "INVOICED"]
      /\ deposit[d].billing = "MARKED" /\ UNCHANGED <<op, balance, outbox>>
  BY DEF IssueBookingInvoice
<1>3. /\ DOMAIN deposit' = DOMAIN deposit
      /\ \A x \in DOMAIN deposit : x # d => deposit'[x] = deposit[x]
      /\ deposit'[d].status = deposit[d].status /\ deposit'[d].type = deposit[d].type
      /\ deposit'[d].amount = deposit[d].amount /\ deposit'[d].billing = "INVOICED"
      /\ deposit'[d].invoicePaid = deposit[d].invoicePaid
  <2>1. /\ DOMAIN deposit' = DOMAIN deposit
        /\ \A x \in DOMAIN deposit : x # d => deposit'[x] = deposit[x]
        /\ deposit'[d] = [deposit[d] EXCEPT !.billing = "INVOICED"]
    BY <1>2
  <2> QED
    BY <1>1, <2>1 DEF DepositRow
<1>4. \A x \in DOMAIN deposit : Booked(x)' <=> Booked(x)
  BY <1>2, <1>3 DEF Booked
<1>5. /\ Known' /\ MoneyIsAnnounced'
      /\ \A x : Owes(x)' = Owes(x) /\ (Reversed(x)' <=> Reversed(x))
  BY <1>2, <1>3, <1>4, BooksFrame
<1>6. \A x \in DOMAIN deposit : /\ deposit'[x].status = deposit[x].status
                                /\ deposit'[x].amount = deposit[x].amount
                                /\ deposit'[x].invoicePaid = deposit[x].invoicePaid
  BY <1>3
<1>7. \A x \in DOMAIN deposit : (Ended(x)' <=> Ended(x)) /\ (Funded(x)' <=> Funded(x))
  BY <1>2, <1>4, <1>6 DEF Ended, Funded
<1>8. \A x \in DOMAIN deposit : (Sound(x)' <=> Sound(x)) /\ (Exact(x)' <=> Exact(x))
  BY <1>2, <1>5, <1>7 DEF Sound, Exact
<1> QED
  BY <1>3, <1>5, <1>8 DEF Good, AccountInv, DepositInv, Settled

(* The endpoint closes a deposit without looking at its ledger: what the   *)
(* ledger says still holds, except that money may be left on it.           *)
LEMMA CloseUnpaid ==
    ASSUME AccountInv, NEW d \in DOMAIN deposit, SetStatus(d, "CANCELLED"),
           UNCHANGED <<op, balance, outbox>>
    PROVE  DepositInv' /\ MoneyIsAnnounced'
<1>1. TypeOK /\ CycleKnown /\ balance[d] \in Nat
  BY RowsTyped DEF AccountInv, IndInv, TypeOK, BalanceNonNegative
<1>2. /\ DOMAIN deposit' = DOMAIN deposit
      /\ \A x \in DOMAIN deposit : x # d => deposit'[x] = deposit[x]
      /\ deposit'[d].status = "CANCELLED" /\ deposit'[d].type = deposit[d].type
      /\ deposit'[d].billing = deposit[d].billing
  BY <1>1, StatusSet
<1>3. \A x \in DOMAIN deposit : Booked(x)' <=> Booked(x)
  BY <1>2 DEF Booked
<1>4. /\ Known' /\ MoneyIsAnnounced'
      /\ \A x : Owes(x)' = Owes(x) /\ (Reversed(x)' <=> Reversed(x))
  BY <1>2, <1>3, BooksFrame
<1>5. ASSUME NEW x \in DOMAIN deposit, x # d PROVE Sound(x)'
  <2>1. (Ended(x)' <=> Ended(x)) /\ (Funded(x)' <=> Funded(x))
    BY <1>2, <1>3, <1>5 DEF Ended, Funded
  <2> QED
    BY <1>4, <2>1 DEF Sound, AccountInv, DepositInv
<1>6. Sound(d)'
  <2>1. ~Reversed(d) => Owes(d) <= balance[d]
    BY <1>1 DEF AccountInv, DepositInv, Sound
  <2>2. Ended(d)' /\ Funded(d)'
    BY <1>2 DEF Ended, Funded
  <2> QED
    BY <1>4, <2>1, <2>2 DEF Sound
<1> QED
  BY <1>2, <1>4, <1>5, <1>6 DEF DepositInv

(* Nor does anything else that has no key. *)
LEMMA UnkeyedGood ==
    ASSUME AccountInv, Unkeyed
    PROVE  Good
<1>1. CASE \E d \in DOMAIN deposit : IssueBookingInvoice(d)
  BY <1>1, IssueGood
<1>2. CASE \E asOf \in 0 .. now + Horizon : ScanHolds(asOf)
  BY <1>2, QuietGood DEF ScanHolds
<1>3. CASE ExpireHolds
  BY <1>3, QuietGood DEF ExpireHolds, Announce
<1>4. CASE Tick
  BY <1>4, QuietGood DEF Tick
<1> QED
  BY <1>1, <1>2, <1>3, <1>4 DEF Unkeyed

(* All commands that may move money. *)
LEMMA MoneyGood ==
    ASSUME AccountInv, NEW k, MoneyCommand(k)
    PROVE  Good
<1>1. CASE \E d \in DOMAIN deposit, until \in Expiries : Collect(k, d, until)
  BY <1>1, CollectGood
<1>2. CASE \E d \in DOMAIN deposit, amount \in Amounts : PayBookingInvoice(k, d, amount)
  BY <1>2, PayGood
<1>3. CASE \E d \in DOMAIN deposit, s \in Deposits, required \in Amounts,
             excess \in {"CREDIT", "REFUND"}, receipt \in {"PENDING", "COMPLETED"} :
                Convert(k, d, s, required, excess, receipt)
  BY <1>3, ConvertGood
<1>4. CASE \E d \in DOMAIN deposit, refund, keep, deduct \in Shares,
             receipt \in {"PENDING", "COMPLETED"} :
                Cancel(k, d, refund, keep, deduct, receipt)
  BY <1>4, CancelGood, CoreAssumption
<1>5. CASE \E p \in DOMAIN op : CompleteRefund(k, p) \/ Reverse(k, p)
  BY <1>5, PayoutGood, ReverseGood
<1> QED
  BY <1>1, <1>2, <1>3, <1>4, <1>5 DEF MoneyCommand

(* Every step keeps each deposit in line with its ledger. *)
LEMMA StepGood ==
    ASSUME AccountInv, CoreStep
    PROVE  Good
<1>1. ASSUME NEW k, CancelCommand(k) PROVE Good
  BY <1>1, CancelGood DEF CancelCommand
<1> QED
  BY <1>1, CreateGood, MoneyGood, HoldGood, UnkeyedGood DEF CoreStep, Command

-----------------------------------------------------------------------------
(* The core. *)

LedgerInv == AccountInv /\ MoneyAccounted /\ ReversalInv

(* The types and balances survive a cancellation of any amounts, too. *)
LEMMA CoreStepInd ==
    ASSUME IndInv, CoreStep
    PROVE  IndInv'
<1>1. ASSUME NEW k, CancelCommand(k) PROVE IndInv'
  <2>1. PICK d \in DOMAIN deposit, refund \in Nat, keep \in Nat, deduct \in Nat,
             receipt \in {"PENDING", "COMPLETED"} : Cancel(k, d, refund, keep, deduct, receipt)
    BY <1>1 DEF CancelCommand
  <2> QED
    BY <2>1, CancelInv
<1>2. ASSUME NEW k \in Keys, Command(k) PROVE IndInv'
  BY <1>2, CreateCommandInv, MoneyCommandInv, HoldCommandInv DEF Command
<1>3. ASSUME Unkeyed PROVE IndInv'
  BY <1>3, StepInv DEF Next
<1> QED
  BY <1>1, <1>2, <1>3 DEF CoreStep

(* The ledger invariant is inductive, for the core and for the older       *)
(* endpoint.                                                               *)
LEMMA LedgerStep ==
    ASSUME LedgerInv, CoreStep \/ UNCHANGED vars
    PROVE  LedgerInv' /\ Good
<1>1. AccountInv /\ IndInv /\ TypeOK
  BY DEF LedgerInv, AccountInv, IndInv
<1>2. BooksStep
  BY <1>1, StepCommits DEF BooksStep, vars
<1>3. IndInv'
  BY <1>1, CoreStepInd, StutterInv
<1>4. Good
  BY <1>1, StepGood, QuietGood DEF vars
<1>5. MoneyAccounted' /\ ReversalInv'
  BY <1>1, <1>2, MoneyStep, ReversalStep DEF LedgerInv
<1> QED
  BY <1>3, <1>4, <1>5 DEF LedgerInv, AccountInv, Good

(* It holds of empty books. *)
LEMMA LedgerInit ==
    ASSUME Init
    PROVE  LedgerInv /\ Settled
<1>1. IndInv
  BY InitInv
<1>2. DOMAIN op = {} /\ DOMAIN deposit = {}
  BY DEF Init, Empty
<1>3. DepositInv /\ Settled /\ MoneyIsAnnounced
  BY <1>2 DEF DepositInv, Known, Settled, MoneyIsAnnounced, Init
<1>4. MoneyAccounted
  <2>1. \A t : Total(t) = 0
    <3> TAKE t
    <3>1. DOMAIN [q \in DOMAIN op |-> op[q].rows[t]] = {}
      BY <1>2
    <3>2. Total(t) = Sum([q \in DOMAIN op |-> op[q].rows[t]], {})
      BY <3>1 DEF Total, Sum, SumFunction
    <3> QED
      BY <3>2, SumEmpty
  <2>2. SumFunction(balance) = 0
    <3>1. DOMAIN balance = Deposits /\ \A d \in Deposits : balance[d] = 0
      BY DEF Init
    <3>2. Sum(balance, Deposits) = 0
      BY <3>1, CoreAssumption, SumZero
    <3> QED
      BY <3>1, <3>2 DEF Sum, SumFunction
  <2> QED
    BY <2>1, <2>2 DEF MoneyAccounted
<1>5. ReversalInv
  <2>1. \A d \in Deposits, t \in RowTypes :
            Sum(Booklet(d, t), DOMAIN op) = 0 /\ Sum(Standing(d, t), DOMAIN op) = 0
    BY <1>2, SumEmpty
  <2> QED
    BY <1>2, <2>1 DEF ReversalInv, ReversesKnown
<1> QED
  BY <1>1, <1>3, <1>4, <1>5 DEF LedgerInv, AccountInv

(* And it says everything the runs check about money. *)
LEMMA LedgerSays ==
    ASSUME LedgerInv
    PROVE  /\ TypeOK /\ BalanceNonNegative /\ MoneyAccounted /\ NothingReversedTwice
           /\ StatusFollowsLedger /\ InvoiceMatchesLedger /\ MoneyIsAnnounced
<1>1. TypeOK /\ BalanceNonNegative /\ MoneyAccounted /\ ReversalInv /\ MoneyIsAnnounced
  BY DEF LedgerInv, AccountInv, IndInv
<1>2. NothingReversedTwice
  BY <1>1, StandingRowsPositive
<1>3. \A d \in DOMAIN deposit : ~Reversed(d) => Funded(d)
  BY DEF LedgerInv, AccountInv, DepositInv, Sound
<1>4. StatusFollowsLedger /\ InvoiceMatchesLedger
  BY <1>3 DEF StatusFollowsLedger, InvoiceMatchesLedger, Funded
<1> QED
  BY <1>1, <1>2, <1>4

(* The ledger of the core and its deposits agree in every state of every   *)
(* behaviour; an ended deposit holds exactly what it owes.                 *)
THEOREM CoreLedger == Spec => [](LedgerInv /\ Settled)
<1>1. Init => LedgerInv /\ Settled
  BY LedgerInit
<1>2. (LedgerInv /\ Settled) /\ [Next]_vars => (LedgerInv /\ Settled)'
  <2> SUFFICES ASSUME LedgerInv, Settled, [Next]_vars PROVE (LedgerInv /\ Settled)'
    OBVIOUS
  <2>1. CoreStep \/ UNCHANGED vars
    BY DEF Next, CoreStep
  <2> QED
    BY <2>1, LedgerStep DEF Good
<1> QED
  BY <1>1, <1>2, PTL DEF Spec

(* Cancellation and conversion dispose of a whole balance once: a deposit  *)
(* that is CANCELLED or CONVERTED_TO_CONTRACT holds what its pending       *)
(* refunds promise, to the unit, and no later command touches it.          *)
THEOREM ClosedDepositsOweTheirBalance == Spec => []ClosedDepositsOwe
<1>1. LedgerInv /\ Settled => ClosedDepositsOwe
  <2> SUFFICES ASSUME LedgerInv, Settled, NEW d \in DOMAIN deposit,
                      deposit[d].status \in {"CONVERTED_TO_CONTRACT", "CANCELLED"}, ~Reversed(d)
               PROVE  balance[d] = Owed(d)
    BY DEF ClosedDepositsOwe
  <2>1. Owed(d) = Owes(d)
    BY OwedAsTable DEF LedgerInv, AccountInv, IndInv
  <2> QED
    BY <2>1 DEF Settled, Exact, Ended
<1> QED
  BY <1>1, CoreLedger, PTL

-----------------------------------------------------------------------------
(* The endpoint beside the core. *)

(* A request names a deposit that exists.                                  *)
DeskInv == \A r \in desk : r.deposit \in DOMAIN deposit /\ r.balance \in Int

(* The amounts the endpoint computes are natural numbers, so what it hands *)
(* to the core is a cancellation like any other.                           *)
LEMMA DeskCancels ==
    ASSUME DeskInv, NEW k, NEW action \in {"REFUND", "KEEP", "DEDUCT"}, NEW amount \in Amounts,
           NEW receipt \in {"PENDING", "COMPLETED"}, CancelPaid(k, action, amount, receipt)
    PROVE  CancelCommand(k)
<1>1. PICK request \in desk :
        LET r == Resolution(action, amount, request.balance)
        IN  /\ amount <= request.balance
            /\ Cancel(k, request.deposit, r.refund, r.keep, r.deduct, receipt)
  BY DEF CancelPaid
<1> DEFINE r == Resolution(action, amount, request.balance)
<1>2. request.deposit \in DOMAIN deposit /\ request.balance \in Int /\ amount \in Nat
  BY CoreAssumption DEF DeskInv
<1>3. request.balance - amount \in Nat
  BY <1>1, <1>2
<1>4. r.refund \in Nat /\ r.keep \in Nat /\ r.deduct \in Nat
  BY <1>2, <1>3 DEF Resolution
<1>5. Cancel(k, request.deposit, r.refund, r.keep, r.deduct, receipt)
  BY <1>1
<1> HIDE DEF r
<1> QED
  BY <1>2, <1>4, <1>5 DEF CancelCommand

(* Closing an unpaid deposit writes its status only. *)
LEMMA CloseUnpaidInd ==
    ASSUME IndInv, NEW d \in DOMAIN deposit, SetStatus(d, "CANCELLED"),
           UNCHANGED <<now, cycle, roomStatus, hold, op, balance, outbox, sweep>>
    PROVE  IndInv'
<1>1. IsTable(deposit, Deposits, DepositRow)
  BY DEF IndInv, TypeOK
<1>2. /\ IsTable(deposit', Deposits, DepositRow) /\ DOMAIN deposit' = DOMAIN deposit
      /\ \A x \in DOMAIN deposit : deposit'[x].cycle = deposit[x].cycle
  BY <1>1, SetStatusTable DEF SetStatus
<1>3. CycleKnown'
  BY <1>2 DEF IndInv, CycleKnown
<1> QED
  BY <1>2, <1>3 DEF IndInv, TypeOK, BalanceNonNegative

(* The older endpoint keeps the ledger, too; only what is still owed may   *)
(* be lost with it.                                                        *)
LEMMA DeskStep ==
    ASSUME LedgerInv, DeskInv, [DeskNext]_deskVars
    PROVE  LedgerInv' /\ DeskInv'
<1>1. CASE (CoreStep \/ UNCHANGED vars) /\ desk' \subseteq desk
  BY <1>1, LedgerStep DEF Good, DeskInv
<1>2. CASE \E d \in DOMAIN deposit : ReadForCancel(d)
  <2>1. PICK d \in DOMAIN deposit : ReadForCancel(d)
    BY <1>2
  <2>2. UNCHANGED vars /\ deposit' = deposit
    BY <2>1 DEF ReadForCancel, vars
  <2>3. d \in Deposits /\ balance[d] \in Int
    BY RowsTyped DEF LedgerInv, AccountInv, IndInv, TypeOK
  <2>4. DeskInv'
    BY <2>1, <2>2, <2>3 DEF ReadForCancel, DeskInv
  <2> QED
    BY <2>2, <2>4, LedgerStep
<1>3. CASE CancelUnpaid
  <2>1. PICK request \in desk : SetStatus(request.deposit, "CANCELLED")
    BY <1>3 DEF CancelUnpaid
  <2>2. /\ desk' = {}
        /\ UNCHANGED <<now, cycle, roomStatus, hold, op, balance, outbox, sweep>>
    BY <1>3 DEF CancelUnpaid
  <2>3. request.deposit \in DOMAIN deposit
    BY DEF DeskInv
  <2>4. IndInv'
    BY <2>1, <2>2, <2>3, CloseUnpaidInd DEF LedgerInv, AccountInv
  <2>5. DepositInv' /\ MoneyIsAnnounced'
    BY <2>1, <2>2, <2>3, CloseUnpaid DEF LedgerInv
  <2>6. MoneyAccounted' /\ ReversalInv'
    BY <2>2, MoneyStep, ReversalStep DEF BooksStep, LedgerInv, AccountInv, IndInv
  <2> QED
    BY <2>2, <2>4, <2>5, <2>6 DEF LedgerInv, AccountInv, DeskInv
<1>4. ASSUME DeskNext
      PROVE  \/ (CoreStep \/ UNCHANGED vars) /\ desk' \subseteq desk
             \/ \E d \in DOMAIN deposit : ReadForCancel(d)
             \/ CancelUnpaid
  <2>1. ASSUME NEW k \in Keys, Command(k) /\ UNCHANGED desk
        PROVE  (CoreStep \/ UNCHANGED vars) /\ desk' \subseteq desk
    BY <2>1 DEF CoreStep
  <2>2. ASSUME NEW k \in Keys, NEW action \in {"REFUND", "KEEP", "DEDUCT"}, NEW amount \in Amounts,
               NEW receipt \in {"PENDING", "COMPLETED"}, CancelPaid(k, action, amount, receipt)
        PROVE  (CoreStep \/ UNCHANGED vars) /\ desk' \subseteq desk
    <3>1. CancelCommand(k)
      BY <2>2, DeskCancels
    <3>2. desk' = {}
      BY <2>2 DEF CancelPaid
    <3> QED
      BY <3>1, <3>2 DEF CoreStep
  <2>3. ASSUME Unkeyed /\ UNCHANGED desk
        PROVE  (CoreStep \/ UNCHANGED vars) /\ desk' \subseteq desk
    BY <2>3 DEF CoreStep
  <2>4. ASSUME GiveUp PROVE (CoreStep \/ UNCHANGED vars) /\ desk' \subseteq desk
    BY <2>4 DEF GiveUp
  <2> QED
    BY <1>4, <2>1, <2>2, <2>3, <2>4 DEF DeskNext, DeskCommand, DeskUnkeyed
<1> QED
  BY <1>1, <1>2, <1>3, <1>4 DEF deskVars

(* The same with the older cancellation endpoint at work, although it      *)
(* closes deposits on the strength of an earlier read.                     *)
THEOREM DeskLedger == DeskSpec => [](LedgerInv /\ DeskInv)
<1>1. DeskInit => LedgerInv /\ DeskInv
  BY LedgerInit DEF DeskInit, DeskInv
<1>2. (LedgerInv /\ DeskInv) /\ [DeskNext]_deskVars => (LedgerInv /\ DeskInv)'
  BY DeskStep
<1> QED
  BY <1>1, <1>2, PTL DEF DeskSpec

(* Tables keep their types with the endpoint at work.                      *)
THEOREM DeskTypes == DeskSpec => []TypeOK
  BY LedgerSays, DeskLedger, PTL

(* No balance is ever negative, whatever the endpoint cancels.             *)
THEOREM DeskNeverOverdraws == DeskSpec => []BalanceNonNegative
  BY LedgerSays, DeskLedger, PTL

(* Money is neither made nor lost: what was collected is held by deposits  *)
(* or was refunded, credited, kept or deducted.                            *)
THEOREM MoneyIsConserved == DeskSpec => []MoneyAccounted
  BY LedgerSays, DeskLedger, PTL

(* Nothing is reversed twice: with its reversals, no kind of ledger row of *)
(* a deposit comes to less than nothing.                                   *)
THEOREM ReversedOnce == DeskSpec => []NothingReversedTwice
  BY LedgerSays, DeskLedger, PTL

(* A deposit opened unpaid is PAID when its ledger holds its full amount   *)
(* and only then, by whichever path the money came.                        *)
THEOREM StatusTellsFunding == DeskSpec => []StatusFollowsLedger
  BY LedgerSays, DeskLedger, PTL

(* The booking invoice and the ledger of an open booking hold agree.       *)
THEOREM InvoiceAgreesWithLedger == DeskSpec => []InvoiceMatchesLedger
  BY LedgerSays, DeskLedger, PTL

(* Every operation that moved money has its outbox row, and each row that  *)
(* came from cancelling a booking hold has its disposition.                *)
THEOREM EveryMovementAnnounced == DeskSpec => []MoneyIsAnnounced
  BY LedgerSays, DeskLedger, PTL
=============================================================================
