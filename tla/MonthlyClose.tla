---------------------------- MODULE MonthlyClose ----------------------------
(***************************************************************************)
(* The close of one billing month: rent in advance, electricity of the     *)
(* month before, one MONTHLY_BASE invoice per contract and one locked      *)
(* BillingSnapshot per room.                                               *)
(*                                                                         *)
(* A call of closeMonth claims the run of its scope, projects rooms,       *)
(* meter readings and invoices in three reads outside any transaction,     *)
(* checks the whole scope, and then bills contract by contract, each in a  *)
(* transaction of its own under the lock of the meter evidence.  Calls     *)
(* with different scopes run side by side, contracts change underneath,    *)
(* meters report again, statements fail and processes die.                 *)
(*                                                                         *)
(* Water is left out (a fixed price per head), and so are move-ins in the  *)
(* middle of the usage month and contracts that change rooms.              *)
(***************************************************************************)
EXTENDS Integers, FiniteSets, FiniteSetsExt

CONSTANTS
    Rooms, Contracts, \* contracts are numbered in the order of the projection
    Home,             \* the room of each contract
    Shared,           \* rooms let to several contracts, the others are let whole
    Old,              \* contracts that lived in the room all the usage month
    Rent, Rents,      \* the rent agreed, and what an edit may make of it
    Amounts,          \* what a meter may report for the month
    MaxMembers,       \* heads of a contract
    MaxEdits,         \* changes to contracts and reports of meters
    Closers,          \* calls of closeMonth
    All,              \* the scope of the scheduled close: every room
    Scopes,           \* the scopes closed by someone: All or one room
    MaxFaults,        \* statements that may fail
    CanCrash,         \* whether a process may die
    None

ASSUME MonthlyCloseAssumption ==
    /\ IsFiniteSet(Rooms) /\ IsFiniteSet(Contracts) /\ Contracts \subseteq Nat
    /\ Home \in [Contracts -> Rooms] /\ Shared \subseteq Rooms /\ Old \subseteq Contracts
    /\ Rent \in Nat \ {0} /\ Rents \subseteq Nat \ {0} /\ Amounts \subseteq Nat
    /\ MaxMembers \in Nat \ {0} /\ MaxEdits \in Nat /\ MaxFaults \in Nat
    /\ CanCrash \in BOOLEAN
    /\ Scopes \subseteq Rooms \cup {All}
    /\ All \notin Rooms /\ None \notin Rooms \cup {All}

VARIABLES
    contract,  \* status, heads and rent of each contract
    entry,     \* contracts with an ENTRY invoice for the rent of this month
    reading,   \* the newest report of each room's meter, numbered
    snapshot,  \* the locked BillingSnapshots by room
    invoice,   \* the issued MONTHLY_BASE invoices by contract
    run,       \* MonthlySettlementRun by scope
    job,       \* calls of closeMonth
    faults, edits

vars == <<contract, entry, reading, snapshot, invoice, run, job, faults, edits>>

In(r) == {c \in Contracts : Home[c] = r}

ContractTable ==
    [Contracts -> [status : {"APPROVED", "ACTIVE", "SETTLED"},
                   members : 1 .. MaxMembers, rent : Nat]]
ReadingTable == [Rooms -> [no : Nat, amount : Nat]]
AreSnapshots(t) ==
    /\ DOMAIN t \subseteq Rooms
    /\ \A r \in DOMAIN t :
         /\ t[r].no \in Nat /\ t[r].amount \in Nat
         /\ DOMAIN t[r].heads \subseteq In(r)
         /\ t[r].heads \in [DOMAIN t[r].heads -> 0 .. MaxMembers]

Nothing == [x \in {} |-> None]
Call(pc, scope) == [pc |-> pc, scope |-> scope, contract |-> Nothing, reading |-> Nothing,
                    snapshot |-> Nothing, todo |-> {}, billed |-> {}]
Free == Call("idle", None)

TypeOK ==
    /\ contract \in ContractTable
    /\ entry \subseteq Contracts
    /\ reading \in ReadingTable
    /\ AreSnapshots(snapshot)
    /\ DOMAIN invoice \subseteq Contracts
    /\ \A c \in DOMAIN invoice : invoice[c] \in [rent : Nat, power : Nat]
    /\ run \in [Scopes -> [status : {"NONE", "RUNNING", "COMPLETED", "FAILED"},
                           billed : SUBSET Contracts]]
    /\ \A k \in Closers :
         /\ job[k].pc \in {"idle", "rooms", "evidence", "check", "bill", "fail"}
         /\ job[k].scope \in Scopes \cup {None}
         /\ job[k].contract \in ContractTable \cup {Nothing}
         /\ job[k].reading \in ReadingTable \cup {Nothing}
         /\ AreSnapshots(job[k].snapshot)
         /\ job[k].todo \subseteq Contracts /\ job[k].billed \subseteq Contracts
    /\ faults \in 0 .. MaxFaults /\ edits \in 0 .. MaxEdits

Init ==
    /\ contract = [c \in Contracts |-> [status |-> IF c \in Old THEN "ACTIVE" ELSE "APPROVED",
                                        members |-> 1, rent |-> Rent]]
    /\ entry = {}
    /\ reading = [r \in Rooms |-> [no |-> 0, amount |-> 0]]
    /\ snapshot = Nothing /\ invoice = Nothing
    /\ run = [s \in Scopes |-> [status |-> "NONE", billed |-> {}]]
    /\ job = [k \in Closers |-> Free]
    /\ faults = 0 /\ edits = 0

\* A call that gives up has only its run left to release.
Doomed(v) == Call("fail", v.scope)

Edit == edits < MaxEdits /\ edits' = edits + 1

-----------------------------------------------------------------------------
(* Contracts and meters; each is one transaction. *)

(* The ENTRY invoice bills the rent of the month a tenant moves in. *)
Activate(c) ==
    /\ Edit
    /\ contract[c].status = "APPROVED"
    /\ Home[c] \notin Shared => \A d \in In(Home[c]) : contract[d].status # "ACTIVE"
    /\ contract' = [contract EXCEPT ![c].status = "ACTIVE"]
    /\ entry' = entry \cup {c}
    /\ UNCHANGED <<reading, snapshot, invoice, run, job, faults>>

(* The final settlement bills what is left and ends the contract. *)
Settle(c) ==
    /\ Edit
    /\ contract[c].status = "ACTIVE"
    /\ contract' = [contract EXCEPT ![c].status = "SETTLED"]
    /\ UNCHANGED <<entry, reading, snapshot, invoice, run, job, faults>>

(* A further occupant of the usage month; not once the month is locked. *)
Join(c) ==
    /\ Edit
    /\ contract[c].status = "ACTIVE" /\ c \in Old
    /\ Home[c] \notin Shared
    /\ contract[c].members < MaxMembers
    /\ Home[c] \notin DOMAIN snapshot
    /\ contract' = [contract EXCEPT ![c].members = @ + 1]
    /\ UNCHANGED <<entry, reading, snapshot, invoice, run, job, faults>>

(* The rent may be edited as long as the contract has no invoice. *)
Reprice(c, n) ==
    /\ Edit
    /\ c \notin DOMAIN invoice \cup entry
    /\ contract' = [contract EXCEPT ![c].rent = n]
    /\ UNCHANGED <<entry, reading, snapshot, invoice, run, job, faults>>

(* A report is a new row; a locked month does not keep it out. *)
Observe(r, a) ==
    /\ Edit
    /\ reading' = [reading EXCEPT ![r] = [no |-> @.no + 1, amount |-> a]]
    /\ UNCHANGED <<contract, entry, snapshot, invoice, run, job, faults>>

-----------------------------------------------------------------------------
(* The shares of a room: by heads, what is left over one unit each to the  *)
(* largest remainders.                                                     *)

\* Mutant: what is left over goes to nobody.
ShareFloor(amount, heads) ==
    [c \in DOMAIN heads |->
       IF heads[c] = 0 THEN 0
       ELSE (amount * heads[c]) \div SumFunction(heads)]

Share(amount, heads) ==
    LET all     == SumFunction(heads)
        part    == [c \in DOMAIN heads |->
                      IF heads[c] = 0 THEN 0 ELSE (amount * heads[c]) \div all]
        rest    == [c \in DOMAIN heads |->
                      IF heads[c] = 0 THEN 0 ELSE (amount * heads[c]) % all]
        left    == IF all = 0 THEN 0
                   ELSE amount - SumFunction(part)
        Ahead(c) == {d \in DOMAIN heads : rest[d] > rest[c] \/ (rest[d] = rest[c] /\ d < c)}
    IN  [c \in DOMAIN heads |-> part[c] + IF Cardinality(Ahead(c)) < left THEN 1 ELSE 0]

-----------------------------------------------------------------------------
(* The projection: v is what a call has read. *)

Active(v, r) == {c \in In(r) : v.contract[c].status = "ACTIVE"}

(* The contracts to bill: a locked roster stays as it was. *)
Roster(v, r) ==
    IF r \in DOMAIN v.snapshot THEN DOMAIN v.snapshot[r].heads ELSE Active(v, r)

(* A tenant who moved in after the usage month owes nothing for it. *)
Candidate(v, r) ==
    IF r \in DOMAIN v.snapshot THEN v.snapshot[r]
    ELSE [no     |-> v.reading[r].no,
          amount |-> IF Active(v, r) \subseteq Old THEN v.reading[r].amount ELSE 0,
          heads  |-> [c \in Active(v, r) |-> IF c \in Old THEN v.contract[c].members ELSE 0]]

Power(v, c) == Share(Candidate(v, Home[c]).amount, Candidate(v, Home[c]).heads)[c]

(* What keeps a room from being closed: before it is locked, usage that    *)
(* nobody can attribute; after it, an invoice that no longer fits.         *)
Blocked(v, r) ==
    \/ /\ r \notin DOMAIN v.snapshot /\ Active(v, r) # {}
       /\ \/ \E c \in In(r) \cap Old : v.contract[c].status = "SETTLED"
          \/ r \in Shared /\ ~(Active(v, r) \subseteq Old)
          \/ r \notin Shared /\ Cardinality(Active(v, r)) > 1
    \/ /\ r \in DOMAIN v.snapshot
       /\ \E c \in Roster(v, r) \cap DOMAIN invoice :
            invoice[c] # [rent |-> v.contract[c].rent, power |-> Power(v, c)]

-----------------------------------------------------------------------------
(* A call of closeMonth. *)

RoomsOf(s) == IF s = All THEN Rooms ELSE {s}

(* A run under way is refused, a completed one answered with its result.   *)
Claimable(s) == run[s].status \in {"NONE", "FAILED"}

ClaimRun(k, s) ==
    /\ job[k].pc = "idle"
    /\ Claimable(s)
    /\ run' = [run EXCEPT ![s].status = "RUNNING"]
    /\ job' = [job EXCEPT ![k] = Call("rooms", s)]
    /\ UNCHANGED <<contract, entry, reading, snapshot, invoice, faults, edits>>

ReadRooms(k) ==
    /\ job[k].pc = "rooms"
    /\ job' = [job EXCEPT ![k].pc = "evidence", ![k].contract = contract]
    /\ UNCHANGED <<contract, entry, reading, snapshot, invoice, run, faults, edits>>

ReadEvidence(k) ==
    /\ job[k].pc = "evidence"
    /\ job' = [job EXCEPT ![k].pc = "check", ![k].reading = reading, ![k].snapshot = snapshot]
    /\ UNCHANGED <<contract, entry, reading, snapshot, invoice, run, faults, edits>>

(* One blocked room refuses the whole scope, before anything is written.   *)
Preflight(k) ==
    LET rooms == RoomsOf(job[k].scope)
    IN  /\ job[k].pc = "check"
        /\ IF \E r \in rooms : Blocked(job[k], r)
           THEN job' = [job EXCEPT ![k] = Doomed(@)]
           ELSE job' = [job EXCEPT ![k].pc = "bill",
                                   ![k].todo = UNION {Roster(job[k], r) : r \in rooms}]
        /\ UNCHANGED <<contract, entry, reading, snapshot, invoice, run, faults, edits>>

\* Mutant: the newest report is not read again.
EvidentAsRead(v, r) == TRUE

(* Usage that is charged is read again under the lock: no newer report may *)
(* have come.                                                              *)
Evident(v, r) ==
    \/ r \in DOMAIN v.snapshot
    \/ Candidate(v, r).amount = 0
    \/ v.reading[r].no = reading[r].no

(* The snapshot is created once and never written again. *)
Locked(v, r) == IF r \in DOMAIN snapshot THEN snapshot[r] ELSE Candidate(v, r)

\* Mutant: a snapshot that is there will do.
AgreesAlways(v, r) == TRUE

(* Whoever locked the room, it must be what this call would have locked.   *)
Agrees(v, r) == Locked(v, r) = Candidate(v, r)

(* Display fields of the meter are compared with the rest: the snapshot of *)
(* another call may differ in nothing else.                                *)
MayDiffer(v, r) ==
    r \in DOMAIN snapshot \ DOMAIN v.snapshot /\ v.billed \cap Roster(v, r) = {}

\* Mutant: a refused contract is skipped.
RefusedSkipped(v, c) == [v EXCEPT !.todo = @ \ {c}]

Refused(v, c) == Doomed(v)

Put(table, id, row) ==
    [x \in DOMAIN table \cup {id} |-> IF x = id THEN row ELSE table[x]]

(* The next contract of the projection. *)
NextUp(k, c) == c \in job[k].todo /\ \A d \in job[k].todo : c <= d

(* An invoice issued before, by whichever call, is left alone. *)
Skip(k, c) ==
    /\ job[k].pc = "bill" /\ NextUp(k, c)
    /\ c \in DOMAIN invoice
    /\ job' = [job EXCEPT ![k].todo = @ \ {c}]
    /\ UNCHANGED <<contract, entry, reading, snapshot, invoice, run, faults, edits>>

Bill(k, c) ==
    LET v == job[k]
        r == Home[c]
    IN  /\ v.pc = "bill" /\ NextUp(k, c)
        /\ c \notin DOMAIN invoice
        /\ Evident(v, r) /\ Agrees(v, r)
        /\ snapshot' = Put(snapshot, r, Locked(v, r))
        /\ invoice' = Put(invoice, c, [rent |-> v.contract[c].rent, power |-> Power(v, c)])
        /\ job' = [job EXCEPT ![k].todo = @ \ {c}, ![k].billed = @ \cup {c}]
        /\ UNCHANGED <<contract, entry, reading, run, faults, edits>>

Refuse(k, c) ==
    LET v == job[k]
        r == Home[c]
    IN  /\ v.pc = "bill" /\ NextUp(k, c)
        /\ c \notin DOMAIN invoice
        /\ ~Evident(v, r) \/ ~Agrees(v, r) \/ MayDiffer(v, r)
        /\ job' = [job EXCEPT ![k] = Refused(v, c)]
        /\ UNCHANGED <<contract, entry, reading, snapshot, invoice, run, faults, edits>>

Complete(k) ==
    LET s == job[k].scope
    IN  /\ job[k].pc = "bill" /\ job[k].todo = {}
        /\ run[s].status = "RUNNING"
        /\ run' = [run EXCEPT ![s] = [status |-> "COMPLETED", billed |-> job[k].billed]]
        /\ job' = [job EXCEPT ![k] = Free]
        /\ UNCHANGED <<contract, entry, reading, snapshot, invoice, faults, edits>>

\* Mutant: a status the table does not know.
ReleasedUnknown == "RETRY"

Released == "FAILED"

(* Contracts billed so far stay billed; the run may be claimed again. *)
Fail(k) ==
    /\ job[k].pc = "fail"
    /\ run' = [run EXCEPT ![job[k].scope].status = Released]
    /\ job' = [job EXCEPT ![k] = Free]
    /\ UNCHANGED <<contract, entry, reading, snapshot, invoice, faults, edits>>

Fault == faults < MaxFaults /\ faults' = faults + 1

(* A statement fails; the one that releases the run leaves it RUNNING. *)
StatementFails(k) ==
    /\ job[k].pc # "idle"
    /\ Fault
    /\ job' = [job EXCEPT ![k] = IF @.pc = "fail" THEN Free ELSE Doomed(@)]
    /\ UNCHANGED <<contract, entry, reading, snapshot, invoice, run, edits>>

Crash(k) ==
    /\ CanCrash /\ job[k].pc # "idle"
    /\ Fault
    /\ job' = [job EXCEPT ![k] = Free]
    /\ UNCHANGED <<contract, entry, reading, snapshot, invoice, run, edits>>

Close(k) ==
    \/ ReadRooms(k) \/ ReadEvidence(k) \/ Preflight(k)
    \/ \E c \in Contracts : Skip(k, c) \/ Bill(k, c) \/ Refuse(k, c)
    \/ Complete(k) \/ Fail(k)

Next ==
    \/ \E c \in Contracts :
         Activate(c) \/ Settle(c) \/ Join(c) \/ \E n \in Rents : Reprice(c, n)
    \/ \E r \in Rooms, a \in Amounts : Observe(r, a)
    \/ \E k \in Closers :
         Close(k) \/ StatementFails(k) \/ Crash(k) \/ \E s \in Scopes : ClaimRun(k, s)

Spec == Init /\ [][Next]_vars

-----------------------------------------------------------------------------
(* Properties. *)

(* However often a close is called, retried or overtaken by a call with    *)
(* another scope, a scope has one call at work ("lenh dang chay bi chan"). *)
OneCloserPerScope ==
    \A k, l \in Closers :
        job[k].pc # "idle" /\ job[l].pc # "idle" /\ job[k].scope = job[l].scope => k = l

(* Every invoice of a room charges the share of one and the same snapshot, *)
(* whichever call issued it and whatever it had read.                      *)
InvoicesFollowSnapshot ==
    \A c \in DOMAIN invoice :
        /\ Home[c] \in DOMAIN snapshot
        /\ c \in DOMAIN snapshot[Home[c]].heads
        /\ invoice[c].power = Share(snapshot[Home[c]].amount, snapshot[Home[c]].heads)[c]

(* "Tong chia bang tong phong": once a roster is billed, the bills of a    *)
(* room are its usage, to the unit.                                        *)
SharesAddUp ==
    \A r \in DOMAIN snapshot :
        DOMAIN snapshot[r].heads \subseteq DOMAIN invoice =>
          SumFunction([c \in DOMAIN snapshot[r].heads |-> invoice[c].power])
            = snapshot[r].amount

(* A run that completed and billed one contract of a room left none of the *)
(* room's roster without an invoice.                                       *)
CompletedIsWhole ==
    \A s \in Scopes : run[s].status = "COMPLETED" =>
        \A c \in run[s].billed :
            /\ Home[c] \in DOMAIN snapshot
            /\ DOMAIN snapshot[Home[c]].heads \subseteq DOMAIN invoice

(* What is locked or issued is never written again. *)
LockedForEver ==
    [][/\ \A r \in DOMAIN snapshot : r \in DOMAIN snapshot' /\ snapshot'[r] = snapshot[r]
       /\ \A c \in DOMAIN invoice : c \in DOMAIN invoice' /\ invoice'[c] = invoice[c]]_vars

(* Usage is charged by the newest report there was when the room was       *)
(* locked, however long before the call had read it.                       *)
ChargesNewestReport ==
    [][\A r \in DOMAIN snapshot' \ DOMAIN snapshot : snapshot'[r].amount > 0
         => snapshot'[r].no = reading[r].no /\ snapshot'[r].amount = reading[r].amount]_vars

(* "Khong trung invoice voi monthly settlement": the rent of a month is    *)
(* on one invoice.                                                         *)
RentBilledOnce == entry \cap DOMAIN invoice = {}
=============================================================================
