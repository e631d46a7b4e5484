------------------------- MODULE MonthlyCloseProofs -------------------------
(***************************************************************************)
(* The close for any number of rooms, contracts, scopes, calls, edits and  *)
(* faults.                                                                 *)
(*                                                                         *)
(* A call compares the snapshot it would lock with the one that is there,  *)
(* and what it has read can only have been overtaken in two ways: rooms    *)
(* have been locked since, and meters have reported again.  So a snapshot  *)
(* that agrees has the roster of the call, and whoever is on that roster   *)
(* is still to be billed by the call or has an invoice.                    *)
(*                                                                         *)
(* The second half is about the shares: largest remainders deal out the    *)
(* amount to the last unit, because the units left over are fewer than the *)
(* contracts and the ranks by remainder are a numbering of them.           *)
(***************************************************************************)
EXTENDS MonthlyClose, SumFacts, TLAPS

Row(v) ==
    v = [pc |-> v.pc, scope |-> v.scope, contract |-> v.contract, reading |-> v.reading,
         snapshot |-> v.snapshot, todo |-> v.todo, billed |-> v.billed]

Shapes ==
    /\ reading \in ReadingTable
    /\ run \in [Scopes -> [status : {"NONE", "RUNNING", "COMPLETED", "FAILED"},
                           billed : SUBSET Contracts]]
    /\ DOMAIN job = Closers
    /\ DOMAIN invoice \subseteq Contracts
    /\ DOMAIN snapshot \subseteq Rooms
    /\ \A r \in DOMAIN snapshot : DOMAIN snapshot[r].heads \subseteq In(r)

PlacedBy(k) ==
    /\ Row(job[k])
    /\ job[k].pc # "bill" => job[k].billed = {}
    /\ job[k].pc # "idle" => /\ job[k].scope \in Scopes
                             /\ run[job[k].scope].status = "RUNNING"

(* Of what a call has read, only more may have come. *)
AsReadBy(k) ==
    job[k].pc \in {"check", "bill"} =>
        /\ \A r \in DOMAIN job[k].snapshot :
             r \in DOMAIN snapshot /\ snapshot[r] = job[k].snapshot[r]
        /\ job[k].reading \in ReadingTable
        /\ \A r \in Rooms :
             /\ job[k].reading[r].no <= reading[r].no
             /\ job[k].reading[r].no = reading[r].no =>
                  job[k].reading[r].amount = reading[r].amount

(* The rosters of a call, billed and to be billed. *)
BillingBy(k) ==
    job[k].pc = "bill" =>
        /\ \A r \in RoomsOf(job[k].scope) :
             Roster(job[k], r) \subseteq job[k].todo \cup DOMAIN invoice
        /\ \A c \in job[k].todo :
             c \in Contracts /\ Home[c] \in RoomsOf(job[k].scope) /\ c \in Roster(job[k], Home[c])
        /\ \A c \in job[k].billed :
             /\ c \in Contracts /\ Home[c] \in RoomsOf(job[k].scope)
             /\ Home[c] \in DOMAIN snapshot
             /\ DOMAIN snapshot[Home[c]].heads = Roster(job[k], Home[c])

InHand(k) == PlacedBy(k) /\ AsReadBy(k) /\ BillingBy(k)

IndInv ==
    /\ Shapes
    /\ \A k \in Closers : InHand(k)
    /\ OneCloserPerScope /\ InvoicesFollowSnapshot /\ CompletedIsWhole

-----------------------------------------------------------------------------
(* What the steps do to the tables. *)

LEMMA CallRow ==
    ASSUME NEW p, NEW s
    PROVE  Row(Call(p, s)) /\ Call(p, s).pc = p /\ Call(p, s).scope = s /\ Call(p, s).billed = {}
  BY DEF Call, Row

LEMMA RosterOfCandidate ==
    ASSUME NEW v, NEW r
    PROVE  DOMAIN Candidate(v, r).heads = Roster(v, r)
  BY DEF Candidate, Roster

(* Snapshots and invoices are added and never changed, and the reports of  *)
(* a meter are numbered upwards.                                           *)
Grows ==
    /\ \A r \in DOMAIN snapshot : r \in DOMAIN snapshot' /\ snapshot'[r] = snapshot[r]
    /\ \A c \in DOMAIN invoice : c \in DOMAIN invoice' /\ invoice'[c] = invoice[c]

Advances ==
    \A r \in Rooms : /\ reading[r].no <= reading'[r].no
                     /\ reading[r].no = reading'[r].no => reading'[r].amount = reading[r].amount

LEMMA BillGrows ==
    ASSUME NEW k \in Closers, NEW c \in Contracts, Bill(k, c)
    PROVE  /\ Grows
           /\ DOMAIN snapshot' = DOMAIN snapshot \cup {Home[c]}
           /\ DOMAIN invoice' = DOMAIN invoice \cup {c}
           /\ snapshot'[Home[c]] = Candidate(job[k], Home[c])
           /\ invoice'[c] = [rent |-> job[k].contract[c].rent, power |-> Power(job[k], c)]
  <1> DEFINE row == [rent |-> job[k].contract[c].rent, power |-> Power(job[k], c)]
             snap == Locked(job[k], Home[c])
  <1>1. c \notin DOMAIN invoice /\ snapshot' = Put(snapshot, Home[c], snap) /\ invoice' = Put(invoice, c, row)
    BY DEF Bill
  <1>2. Home[c] \in DOMAIN snapshot => snap = snapshot[Home[c]]
    BY DEF Locked
  <1>3. snap = Candidate(job[k], Home[c])
    BY DEF Bill, Agrees
  <1> HIDE DEF row, snap
  <1>4. /\ DOMAIN snapshot' = DOMAIN snapshot \cup {Home[c]} /\ snapshot'[Home[c]] = snap
        /\ \A x \in DOMAIN snapshot : x # Home[c] => snapshot'[x] = snapshot[x]
    BY <1>1 DEF Put
  <1>5. /\ DOMAIN invoice' = DOMAIN invoice \cup {c} /\ invoice'[c] = row
        /\ \A x \in DOMAIN invoice : x # c => invoice'[x] = invoice[x]
    BY <1>1 DEF Put
  <1>6. Grows
    BY <1>1, <1>2, <1>4, <1>5 DEF Grows
  <1> QED
    BY <1>3, <1>4, <1>5, <1>6 DEF row

(* Only a bill writes snapshots and invoices. *)
LEMMA StepWrites ==
    ASSUME [Next]_vars
    PROVE  UNCHANGED <<snapshot, invoice>> \/ \E k \in Closers, c \in Contracts : Bill(k, c)
  <1>1. ASSUME NEW k \in Closers, Close(k)
        PROVE  UNCHANGED <<snapshot, invoice>> \/ \E c \in Contracts : Bill(k, c)
    BY <1>1 DEF Close, ReadRooms, ReadEvidence, Preflight, Skip, Refuse, Complete, Fail
  <1>2. ASSUME NEW c \in Contracts, Activate(c) \/ Settle(c) \/ Join(c) \/ \E n \in Rents : Reprice(c, n)
        PROVE  UNCHANGED <<snapshot, invoice>>
    BY <1>2 DEF Activate, Settle, Join, Reprice
  <1>3. ASSUME NEW k \in Closers, StatementFails(k) \/ Crash(k) \/ \E s \in Scopes : ClaimRun(k, s)
        PROVE  UNCHANGED <<snapshot, invoice>>
    BY <1>3 DEF StatementFails, Crash, ClaimRun
  <1>4. CASE \E r \in Rooms, a \in Amounts : Observe(r, a)
    BY <1>4 DEF Observe
  <1>5. CASE UNCHANGED vars
    BY <1>5 DEF vars
  <1> QED
    BY <1>1, <1>2, <1>3, <1>4, <1>5 DEF Next

(* Snapshots and invoices are only added. *)
LEMMA StepGrows ==
    ASSUME [Next]_vars
    PROVE  Grows
  <1>1. CASE UNCHANGED <<snapshot, invoice>>
    BY <1>1 DEF Grows
  <1>2. CASE \E k \in Closers, c \in Contracts : Bill(k, c)
    BY <1>2, BillGrows
  <1> QED
    BY <1>1, <1>2, StepWrites

(* Meter readings only advance. *)
LEMMA StepAdvances ==
    ASSUME Shapes, [Next]_vars
    PROVE  Advances /\ reading' \in ReadingTable
  <1>1. CASE UNCHANGED reading
    BY <1>1 DEF Advances, Shapes, ReadingTable
  <1>2. ASSUME NEW r \in Rooms, NEW a \in Amounts, Observe(r, a)
        PROVE  Advances /\ reading' \in ReadingTable
    <2>1. reading' = [reading EXCEPT ![r] = [no |-> reading[r].no + 1, amount |-> a]]
      BY <1>2 DEF Observe
    <2>2. a \in Nat
      BY MonthlyCloseAssumption
    <2> QED
      BY <2>1, <2>2 DEF Shapes, ReadingTable, Advances
  <1>3. ASSUME NEW k \in Closers, Close(k)
        PROVE  UNCHANGED reading
    BY <1>3 DEF Close, ReadRooms, ReadEvidence, Preflight, Skip, Bill, Refuse, Complete, Fail
  <1>4. ASSUME NEW c \in Contracts, Activate(c) \/ Settle(c) \/ Join(c) \/ \E n \in Rents : Reprice(c, n)
        PROVE  UNCHANGED reading
    BY <1>4 DEF Activate, Settle, Join, Reprice
  <1>5. ASSUME NEW k \in Closers, StatementFails(k) \/ Crash(k) \/ \E s \in Scopes : ClaimRun(k, s)
        PROVE  UNCHANGED reading
    BY <1>5 DEF StatementFails, Crash, ClaimRun
  <1>6. CASE UNCHANGED vars
    BY <1>6, <1>1 DEF vars
  <1> QED
    BY <1>1, <1>2, <1>3, <1>4, <1>5, <1>6 DEF Next

-----------------------------------------------------------------------------
(* What a call has in hand stays true, whoever moves. *)

LEMMA UnmovedInHand ==
    ASSUME Shapes, Grows, Advances, reading' \in ReadingTable,
           NEW l \in Closers, InHand(l), job'[l] = job[l],
           job[l].pc # "idle" => run'[job[l].scope].status = "RUNNING"
    PROVE  InHand(l)'
  <1>1. PlacedBy(l)'
    BY DEF InHand, PlacedBy, Row
  <1>2. AsReadBy(l)'
    <2> SUFFICES ASSUME job[l].pc \in {"check", "bill"}
                 PROVE  AsReadBy(l)'
      BY DEF AsReadBy
    <2>1. \A r \in DOMAIN job[l].snapshot : r \in DOMAIN snapshot' /\ snapshot'[r] = job[l].snapshot[r]
      BY DEF InHand, AsReadBy, Grows
    <2>2. \A r \in Rooms :
            /\ job[l].reading[r].no \in Nat /\ reading[r].no \in Nat
            /\ job[l].reading[r].no <= reading[r].no
            /\ job[l].reading[r].no = reading[r].no => job[l].reading[r].amount = reading[r].amount
            /\ reading'[r].no \in Nat
      BY DEF InHand, AsReadBy, Shapes, ReadingTable
    <2>3. \A r \in Rooms :
            /\ job[l].reading[r].no <= reading'[r].no
            /\ job[l].reading[r].no = reading'[r].no => job[l].reading[r].amount = reading'[r].amount
      BY <2>2 DEF Advances
    <2> QED
      BY <2>1, <2>2, <2>3 DEF InHand, AsReadBy
  <1>3. BillingBy(l)'
    <2> SUFFICES ASSUME job[l].pc = "bill"
                 PROVE  BillingBy(l)'
      BY DEF BillingBy
    <2>1. \A r : Roster(job'[l], r) = Roster(job[l], r)
      OBVIOUS
    <2>2. \A r \in RoomsOf(job[l].scope) :
            Roster(job[l], r) \subseteq job[l].todo \cup DOMAIN invoice'
      BY DEF InHand, BillingBy, Grows
    <2>3. \A c \in job[l].todo :
            c \in Contracts /\ Home[c] \in RoomsOf(job[l].scope) /\ c \in Roster(job[l], Home[c])
      BY DEF InHand, BillingBy
    <2>4. \A c \in job[l].billed :
            /\ c \in Contracts /\ Home[c] \in RoomsOf(job[l].scope)
            /\ Home[c] \in DOMAIN snapshot'
            /\ DOMAIN snapshot'[Home[c]].heads = Roster(job[l], Home[c])
      BY DEF InHand, BillingBy, Grows
    <2> QED
      BY <2>1, <2>2, <2>3, <2>4 DEF BillingBy
  <1> QED
    BY <1>1, <1>2, <1>3 DEF InHand

(* A call that is not in the middle of its work. *)
LEMMA NothingInHand ==
    ASSUME NEW k \in Closers, Row(job'[k]), job'[k].pc \notin {"check", "bill"}, job'[k].billed = {},
           job'[k].pc # "idle" => job'[k].scope \in Scopes /\ run'[job'[k].scope].status = "RUNNING"
    PROVE  InHand(k)'
  BY DEF InHand, PlacedBy, AsReadBy, BillingBy, Row

(* What one step does to the row of the call that takes it. *)
LEMMA ReadRoomsRow ==
    ASSUME Shapes, NEW k \in Closers, InHand(k), ReadRooms(k)
    PROVE  /\ DOMAIN job' = Closers /\ \A l \in Closers \ {k} : job'[l] = job[l]
           /\ Row(job'[k]) /\ job'[k].pc = "evidence" /\ job'[k].scope = job[k].scope
           /\ job'[k].billed = {} /\ job[k].pc = "rooms"
           /\ job'[k].contract = contract /\ job'[k].todo = job[k].todo
           /\ job'[k].reading = job[k].reading /\ job'[k].snapshot = job[k].snapshot
  BY DEF Shapes, InHand, PlacedBy, Row, ReadRooms

(* The row of a call after each of its steps. *)
LEMMA ReadEvidenceRow ==
    ASSUME Shapes, NEW k \in Closers, InHand(k), ReadEvidence(k)
    PROVE  /\ DOMAIN job' = Closers /\ \A l \in Closers \ {k} : job'[l] = job[l]
           /\ Row(job'[k]) /\ job'[k].pc = "check" /\ job'[k].scope = job[k].scope
           /\ job'[k].billed = {} /\ job[k].pc = "evidence"
           /\ job'[k].reading = reading /\ job'[k].snapshot = snapshot
           /\ job'[k].contract = job[k].contract /\ job'[k].todo = job[k].todo
  BY DEF Shapes, InHand, PlacedBy, Row, ReadEvidence

LEMMA PassedRow ==
    ASSUME Shapes, NEW k \in Closers, InHand(k), NEW S, job[k].pc = "check",
           job' = [job EXCEPT ![k].pc = "bill", ![k].todo = S]
    PROVE  /\ DOMAIN job' = Closers /\ \A l \in Closers \ {k} : job'[l] = job[l]
           /\ Row(job'[k]) /\ job'[k].pc = "bill" /\ job'[k].scope = job[k].scope
           /\ job'[k].billed = {} /\ job'[k].todo = S
           /\ job'[k].contract = job[k].contract /\ job'[k].reading = job[k].reading
           /\ job'[k].snapshot = job[k].snapshot
  BY DEF Shapes, InHand, PlacedBy, Row

LEMMA SkippedRow ==
    ASSUME Shapes, NEW k \in Closers, InHand(k), NEW c, Skip(k, c)
    PROVE  /\ DOMAIN job' = Closers /\ \A l \in Closers \ {k} : job'[l] = job[l]
           /\ Row(job'[k]) /\ job'[k].pc = "bill" /\ job'[k].scope = job[k].scope
           /\ job'[k].billed = job[k].billed /\ job'[k].todo = job[k].todo \ {c}
           /\ job'[k].contract = job[k].contract /\ job'[k].reading = job[k].reading
           /\ job'[k].snapshot = job[k].snapshot
           /\ job[k].pc = "bill" /\ c \in DOMAIN invoice
  BY DEF Shapes, InHand, PlacedBy, Row, Skip

LEMMA BilledRow ==
    ASSUME Shapes, NEW k \in Closers, InHand(k), NEW c, Bill(k, c)
    PROVE  /\ DOMAIN job' = Closers /\ \A l \in Closers \ {k} : job'[l] = job[l]
           /\ Row(job'[k]) /\ job'[k].pc = "bill" /\ job'[k].scope = job[k].scope
           /\ job'[k].billed = job[k].billed \cup {c} /\ job'[k].todo = job[k].todo \ {c}
           /\ job'[k].contract = job[k].contract /\ job'[k].reading = job[k].reading
           /\ job'[k].snapshot = job[k].snapshot
           /\ job[k].pc = "bill" /\ c \in job[k].todo
  <1>1. job[k].pc = "bill" /\ c \in job[k].todo
    BY DEF Bill, NextUp
  <1>2. job' = [job EXCEPT ![k].todo = job[k].todo \ {c}, ![k].billed = job[k].billed \cup {c}]
    BY DEF Bill
  <1> QED
    BY <1>1, <1>2 DEF Shapes, InHand, PlacedBy, Row

(* The call that reads the meters and the snapshots has what there is. *)
LEMMA ReadEvidenceInHand ==
    ASSUME Shapes, NEW k \in Closers, InHand(k), ReadEvidence(k)
    PROVE  InHand(k)'
  <1>1. UNCHANGED <<reading, snapshot, run>>
    BY DEF ReadEvidence
  <1>2. PlacedBy(k)'
    BY <1>1, ReadEvidenceRow DEF InHand, PlacedBy, Row
  <1>3. AsReadBy(k)'
    BY <1>1, ReadEvidenceRow DEF AsReadBy, Shapes, ReadingTable
  <1>4. BillingBy(k)'
    BY ReadEvidenceRow DEF BillingBy
  <1> QED
    BY <1>2, <1>3, <1>4 DEF InHand

(* The roster of a room is at home there. *)
LEMMA RosterAtHome ==
    ASSUME Shapes, NEW k \in Closers, InHand(k), job[k].pc \in {"check", "bill"}, NEW r
    PROVE  Roster(job[k], r) \subseteq In(r)
  <1>1. CASE r \in DOMAIN job[k].snapshot
    BY <1>1 DEF Roster, InHand, AsReadBy, Shapes
  <1>2. CASE r \notin DOMAIN job[k].snapshot
    BY <1>2 DEF Roster, Active
  <1> QED
    BY <1>1, <1>2

(* What a call has in hand stays true while it bills. *)
LEMMA PassedInHand ==
    ASSUME Shapes, NEW k \in Closers, InHand(k), Preflight(k), job'[k].pc = "bill"
    PROVE  InHand(k)'
  <1> DEFINE S == UNION {Roster(job[k], r) : r \in RoomsOf(job[k].scope)}
  <1>1. job[k].pc = "check" /\ UNCHANGED <<reading, snapshot, run, invoice>>
    BY DEF Preflight
  <1>2. job' = [job EXCEPT ![k].pc = "bill", ![k].todo = S]
    <2>1. CASE job' = [job EXCEPT ![k] = Doomed(job[k])]
      BY <2>1, CallRow DEF Doomed, Shapes
    <2> QED
      BY <2>1 DEF Preflight
  <1>3. \A r \in RoomsOf(job[k].scope) : Roster(job[k], r) \subseteq S /\ Roster(job[k], r) \subseteq In(r)
    BY <1>1, RosterAtHome
  <1>4. \A c \in S :
          c \in Contracts /\ Home[c] \in RoomsOf(job[k].scope) /\ c \in Roster(job[k], Home[c])
    BY <1>3 DEF In
  <1> HIDE DEF S
  <1>5. /\ Row(job'[k]) /\ job'[k].pc = "bill" /\ job'[k].scope = job[k].scope
        /\ job'[k].billed = {} /\ job'[k].todo = S
        /\ job'[k].contract = job[k].contract /\ job'[k].reading = job[k].reading
        /\ job'[k].snapshot = job[k].snapshot
    BY <1>1, <1>2, PassedRow
  <1>6. \A r : Roster(job'[k], r) = Roster(job[k], r)
    BY <1>5 DEF Roster, Active
  <1>7. PlacedBy(k)'
    BY <1>1, <1>5 DEF InHand, PlacedBy, Row
  <1>8. AsReadBy(k)'
    BY <1>1, <1>5 DEF InHand, AsReadBy
  <1>9. BillingBy(k)'
    BY <1>3, <1>4, <1>5, <1>6 DEF BillingBy
  <1> QED
    BY <1>7, <1>8, <1>9 DEF InHand

LEMMA SkippedInHand ==
    ASSUME Shapes, NEW k \in Closers, InHand(k), NEW c, Skip(k, c)
    PROVE  InHand(k)'
  <1>1. UNCHANGED <<reading, snapshot, run, invoice>>
    BY DEF Skip
  <1>2. \A r : Roster(job'[k], r) = Roster(job[k], r)
    BY SkippedRow DEF Roster, Active
  <1>3. PlacedBy(k)'
    BY <1>1, SkippedRow DEF InHand, PlacedBy, Row
  <1>4. AsReadBy(k)'
    BY <1>1, SkippedRow DEF InHand, AsReadBy
  <1>5. BillingBy(k)'
    BY <1>1, <1>2, SkippedRow DEF InHand, BillingBy
  <1> QED
    BY <1>3, <1>4, <1>5 DEF InHand

(* The room of a contract that has been billed has the roster of the call. *)
LEMMA BilledInHand ==
    ASSUME Shapes, Grows, NEW k \in Closers, InHand(k), NEW c \in Contracts, Bill(k, c)
    PROVE  InHand(k)'
  <1>1. UNCHANGED <<reading, run>>
    BY DEF Bill
  <1>2. \A r : Roster(job'[k], r) = Roster(job[k], r)
    BY BilledRow DEF Roster, Active
  <1>3. PlacedBy(k)'
    BY <1>1, BilledRow DEF InHand, PlacedBy, Row
  <1>4. AsReadBy(k)'
    BY <1>1, BilledRow DEF InHand, AsReadBy, Grows
  <1>5. BillingBy(k)'
    <2>1. \A r \in RoomsOf(job[k].scope) :
            Roster(job[k], r) \subseteq (job[k].todo \ {c}) \cup DOMAIN invoice'
      <3>1. job[k].pc = "bill"
        BY BilledRow
      <3>2. DOMAIN invoice' = DOMAIN invoice \cup {c}
        BY BillGrows
      <3>3. \A r \in RoomsOf(job[k].scope) : Roster(job[k], r) \subseteq job[k].todo \cup DOMAIN invoice
        BY <3>1 DEF InHand, BillingBy
      <3> QED
        BY <3>2, <3>3
    <2>2. \A d \in job[k].todo :
            d \in Contracts /\ Home[d] \in RoomsOf(job[k].scope) /\ d \in Roster(job[k], Home[d])
      BY BilledRow DEF InHand, BillingBy
    <2>3. /\ Home[c] \in DOMAIN snapshot'
          /\ DOMAIN snapshot'[Home[c]].heads = Roster(job[k], Home[c])
      BY BillGrows, RosterOfCandidate
    <2>4. \A d \in job[k].billed :
            /\ d \in Contracts /\ Home[d] \in RoomsOf(job[k].scope)
            /\ Home[d] \in DOMAIN snapshot'
            /\ DOMAIN snapshot'[Home[d]].heads = Roster(job[k], Home[d])
      BY BilledRow DEF InHand, BillingBy, Grows
    <2> QED
      BY <1>2, <2>1, <2>2, <2>3, <2>4, BilledRow DEF BillingBy
  <1> QED
    BY <1>3, <1>4, <1>5 DEF InHand

-----------------------------------------------------------------------------
(* The kinds of step: a call works on, gives up, leaves or claims a run, or *)
(* nobody moves.                                                           *)
Works(k) ==
    \/ ReadRooms(k) \/ ReadEvidence(k)
    \/ Preflight(k) /\ job'[k].pc = "bill"
    \/ \E c \in Contracts : Skip(k, c) \/ Bill(k, c)

GivesUp(k) ==
    job[k].pc # "idle" /\ job' = [job EXCEPT ![k] = Doomed(job[k])] /\ run' = run

RunTable == [Scopes -> [status : {"NONE", "RUNNING", "COMPLETED", "FAILED"},
                        billed : SUBSET Contracts]]

Leaves(k) ==
    /\ job[k].pc # "idle" /\ job' = [job EXCEPT ![k] = Free]
    /\ run' \in RunTable /\ \A s \in Scopes : s # job[k].scope => run'[s] = run[s]
    /\ \/ Complete(k)
       \/ \A s \in Scopes : run'[s] = run[s] \/ run'[s].status = "FAILED"

Claims(k, s) == ClaimRun(k, s) /\ run' \in RunTable

(* A call works, gives up or leaves; *)
LEMMA CloseKinds ==
    ASSUME IndInv, NEW k \in Closers, Close(k)
    PROVE  Works(k) \/ GivesUp(k) \/ Leaves(k)
  <1>1. InHand(k) /\ Shapes /\ run \in RunTable
    BY DEF IndInv, Shapes, RunTable
  <1>2. CASE Preflight(k)
    <2>1. CASE job' = [job EXCEPT ![k] = Doomed(job[k])]
      BY <1>2, <2>1 DEF Preflight, GivesUp
    <2>2. CASE job' = [job EXCEPT ![k].pc = "bill",
                         ![k].todo = UNION {Roster(job[k], r) : r \in RoomsOf(job[k].scope)}]
      <3>1. job'[k].pc = "bill"
        BY <1>1, <1>2, <2>2, PassedRow DEF Preflight
      <3> QED
        BY <1>2, <3>1 DEF Works
    <2> QED
      BY <1>2, <2>1, <2>2 DEF Preflight
  <1>3. ASSUME NEW c \in Contracts, Refuse(k, c)
        PROVE  GivesUp(k)
    BY <1>3 DEF Refuse, Refused, GivesUp
  <1>4. CASE Complete(k)
    <2>1. job[k].billed \in SUBSET Contracts
      BY <1>1, <1>4 DEF Complete, InHand, BillingBy
    <2>2. /\ run' = [run EXCEPT ![job[k].scope] = [status |-> "COMPLETED", billed |-> job[k].billed]]
          /\ job[k].pc = "bill" /\ job' = [job EXCEPT ![k] = Free]
      BY <1>4 DEF Complete
    <2>3. run' \in RunTable /\ \A s \in Scopes : s # job[k].scope => run'[s] = run[s]
      BY <1>1, <2>1, <2>2 DEF RunTable
    <2> QED
      BY <1>4, <2>2, <2>3 DEF Leaves
  <1>5. CASE Fail(k)
    <2>1. /\ run' = [run EXCEPT ![job[k].scope].status = "FAILED"]
          /\ job[k].pc = "fail" /\ job' = [job EXCEPT ![k] = Free]
      BY <1>5 DEF Fail, Released
    <2>2. /\ run' \in RunTable
          /\ \A s \in Scopes : /\ s # job[k].scope => run'[s] = run[s]
                               /\ run'[s] = run[s] \/ run'[s].status = "FAILED"
      BY <1>1, <2>1 DEF RunTable
    <2> QED
      BY <2>1, <2>2 DEF Leaves
  <1>6. CASE ReadRooms(k) \/ ReadEvidence(k)
    BY <1>6 DEF Works
  <1>7. ASSUME NEW c \in Contracts, Skip(k, c) \/ Bill(k, c)
        PROVE  Works(k)
    BY <1>7 DEF Works
  <1> QED
    BY <1>2, <1>3, <1>4, <1>5, <1>6, <1>7 DEF Close

(* and that is all that happens to calls. *)
LEMMA StepKinds ==
    ASSUME IndInv, [Next]_vars
    PROVE  \/ UNCHANGED <<job, run>>
           \/ \E k \in Closers : Works(k) \/ GivesUp(k) \/ Leaves(k)
           \/ \E k \in Closers, s \in Scopes : Claims(k, s)
  <1>1. run \in RunTable
    BY DEF IndInv, Shapes, RunTable
  <1>2. ASSUME NEW k \in Closers, StatementFails(k) \/ Crash(k)
        PROVE  GivesUp(k) \/ Leaves(k)
    <2>1. /\ job[k].pc # "idle" /\ run' = run
          /\ job' = [job EXCEPT ![k] = Free] \/ job' = [job EXCEPT ![k] = Doomed(job[k])]
      BY <1>2 DEF StatementFails, Crash
    <2> QED
      BY <1>1, <2>1 DEF GivesUp, Leaves
  <1>3. ASSUME NEW k \in Closers, NEW s \in Scopes, ClaimRun(k, s)
        PROVE  Claims(k, s)
    <2>1. run' = [run EXCEPT ![s].status = "RUNNING"]
      BY <1>3 DEF ClaimRun
    <2>2. run' \in RunTable
      BY <1>1, <2>1 DEF RunTable
    <2> QED
      BY <1>3, <2>2 DEF Claims
  <1>4. ASSUME NEW c \in Contracts, Activate(c) \/ Settle(c) \/ Join(c) \/ \E n \in Rents : Reprice(c, n)
        PROVE  UNCHANGED <<job, run>>
    BY <1>4 DEF Activate, Settle, Join, Reprice
  <1>5. CASE \E r \in Rooms, a \in Amounts : Observe(r, a)
    BY <1>5 DEF Observe
  <1>6. CASE UNCHANGED vars
    BY <1>6 DEF vars
  <1> QED
    BY <1>2, <1>3, <1>4, <1>5, <1>6, CloseKinds DEF Next

(* A call that works on keeps its run and has in hand what it should.      *)
LEMMA WorkInHand ==
    ASSUME IndInv, Grows, NEW k \in Closers, Works(k)
    PROVE  /\ DOMAIN job' = Closers /\ \A l \in Closers \ {k} : job'[l] = job[l]
           /\ run' = run /\ InHand(k)' /\ job'[k].scope = job[k].scope /\ job[k].pc # "idle"
  <1>1. InHand(k) /\ Shapes
    BY DEF IndInv
  <1>2. CASE ReadRooms(k)
    <2>1. run' = run
      BY <1>2 DEF ReadRooms
    <2>2. InHand(k)'
      BY <1>1, <1>2, <2>1, ReadRoomsRow, NothingInHand DEF InHand, PlacedBy
    <2> QED
      BY <1>1, <1>2, <2>1, <2>2, ReadRoomsRow
  <1>3. CASE ReadEvidence(k)
    BY <1>1, <1>3, ReadEvidenceRow, ReadEvidenceInHand DEF ReadEvidence
  <1>4. CASE Preflight(k) /\ job'[k].pc = "bill"
    <2>1. job[k].pc = "check" /\ run' = run
      BY <1>4 DEF Preflight
    <2>2. CASE job' = [job EXCEPT ![k] = Doomed(job[k])]
      BY <1>1, <1>4, <2>2, CallRow DEF Doomed, Shapes
    <2>3. CASE job' = [job EXCEPT ![k].pc = "bill",
                         ![k].todo = UNION {Roster(job[k], r) : r \in RoomsOf(job[k].scope)}]
      BY <1>1, <1>4, <2>1, <2>3, PassedRow, PassedInHand
    <2> QED
      BY <1>4, <2>2, <2>3 DEF Preflight
  <1>5. ASSUME NEW c \in Contracts, Skip(k, c)
        PROVE  /\ DOMAIN job' = Closers /\ \A l \in Closers \ {k} : job'[l] = job[l]
               /\ run' = run /\ InHand(k)' /\ job'[k].scope = job[k].scope /\ job[k].pc # "idle"
    BY <1>1, <1>5, SkippedRow, SkippedInHand DEF Skip
  <1>6. ASSUME NEW c \in Contracts, Bill(k, c)
        PROVE  /\ DOMAIN job' = Closers /\ \A l \in Closers \ {k} : job'[l] = job[l]
               /\ run' = run /\ InHand(k)' /\ job'[k].scope = job[k].scope /\ job[k].pc # "idle"
    BY <1>1, <1>6, BilledRow, BilledInHand DEF Bill
  <1> QED
    BY <1>2, <1>3, <1>4, <1>5, <1>6 DEF Works

(* The steps keep the invariant. *)

LEMMA ShapesKept ==
    ASSUME IndInv, [Next]_vars
    PROVE  Shapes'
  <1>1. reading' \in ReadingTable
    BY StepAdvances DEF IndInv
  <1>2. /\ DOMAIN invoice' \subseteq Contracts /\ DOMAIN snapshot' \subseteq Rooms
        /\ \A r \in DOMAIN snapshot' : DOMAIN snapshot'[r].heads \subseteq In(r)
    <2>1. CASE UNCHANGED <<snapshot, invoice>>
      BY <2>1 DEF IndInv, Shapes
    <2>2. ASSUME NEW k \in Closers, NEW c \in Contracts, Bill(k, c)
          PROVE  /\ DOMAIN invoice' \subseteq Contracts /\ DOMAIN snapshot' \subseteq Rooms
                 /\ \A r \in DOMAIN snapshot' : DOMAIN snapshot'[r].heads \subseteq In(r)
      <3>1. Home[c] \in Rooms
        BY MonthlyCloseAssumption
      <3>2. job[k].pc = "bill" /\ InHand(k) /\ Shapes
        BY <2>2 DEF Bill, IndInv
      <3>3. DOMAIN snapshot'[Home[c]].heads \subseteq In(Home[c])
        BY <2>2, <3>2, BillGrows, RosterOfCandidate, RosterAtHome
      <3>4. /\ Grows /\ DOMAIN snapshot' = DOMAIN snapshot \cup {Home[c]}
            /\ DOMAIN invoice' = DOMAIN invoice \cup {c}
        BY <2>2, BillGrows
      <3>5. \A r \in DOMAIN snapshot' : DOMAIN snapshot'[r].heads \subseteq In(r)
        BY <3>2, <3>3, <3>4 DEF Shapes, Grows
      <3> QED
        BY <3>1, <3>2, <3>4, <3>5 DEF Shapes
    <2> QED
      BY <2>1, <2>2, StepWrites
  <1>3. DOMAIN job' = Closers
    BY StepKinds, WorkInHand, StepGrows DEF IndInv, Shapes, GivesUp, Leaves, Claims, ClaimRun
  <1>4. run' \in RunTable
    BY StepKinds, WorkInHand, StepGrows DEF IndInv, Shapes, RunTable, GivesUp, Leaves, Claims
  <1> QED
    BY <1>1, <1>2, <1>3, <1>4 DEF Shapes, RunTable

(* What each call has in hand survives every step. *)
LEMMA HandsKept ==
    ASSUME IndInv, [Next]_vars, NEW l \in Closers
    PROVE  InHand(l)'
  <1>1. Shapes /\ Grows /\ Advances /\ reading' \in ReadingTable
    BY StepGrows, StepAdvances DEF IndInv
  <1>2. InHand(l) /\ DOMAIN job = Closers
    BY DEF IndInv, Shapes
  <1>3. job[l].pc # "idle" => job[l].scope \in Scopes /\ run[job[l].scope].status = "RUNNING"
    BY <1>2 DEF InHand, PlacedBy
  <1>4. ASSUME job'[l] = job[l], job[l].pc # "idle" => run'[job[l].scope] = run[job[l].scope]
        PROVE  InHand(l)'
    BY <1>1, <1>2, <1>3, <1>4, UnmovedInHand
  <1>5. CASE UNCHANGED <<job, run>>
    BY <1>4, <1>5
  <1>6. ASSUME NEW k \in Closers, Works(k)
        PROVE  InHand(l)'
    BY <1>1, <1>4, <1>6, WorkInHand
  <1>7. ASSUME NEW k \in Closers, GivesUp(k)
        PROVE  InHand(l)'
    <2>1. CASE l = k
      <3>1. job'[k] = Call("fail", job[k].scope) /\ run' = run
        BY <1>2, <1>7 DEF GivesUp, Doomed
      <3> QED
        BY <1>3, <1>7, <2>1, <3>1, CallRow, NothingInHand DEF GivesUp
    <2>2. CASE l # k
      BY <1>2, <1>4, <1>7, <2>2 DEF GivesUp
    <2> QED
      BY <2>1, <2>2
  <1>8. ASSUME NEW k \in Closers, Leaves(k)
        PROVE  InHand(l)'
    <2>1. CASE l = k
      <3>1. job'[k] = Call("idle", None)
        BY <1>2, <1>8 DEF Leaves, Free
      <3> QED
        BY <2>1, <3>1, CallRow, NothingInHand
    <2>2. CASE l # k
      <3>1. job'[l] = job[l] /\ job[k].pc # "idle"
        BY <1>2, <1>8, <2>2 DEF Leaves
      <3>2. job[l].pc # "idle" => job[l].scope # job[k].scope
        BY <2>2, <3>1 DEF IndInv, OneCloserPerScope
      <3> QED
        BY <1>3, <1>4, <1>8, <3>1, <3>2 DEF Leaves
    <2> QED
      BY <2>1, <2>2
  <1>9. ASSUME NEW k \in Closers, NEW s \in Scopes, Claims(k, s)
        PROVE  InHand(l)'
    <2>1. /\ job' = [job EXCEPT ![k] = Call("rooms", s)]
          /\ run' = [run EXCEPT ![s].status = "RUNNING"]
          /\ run[s].status \in {"NONE", "FAILED"}
      BY <1>9 DEF Claims, ClaimRun, Claimable
    <2>2. \A x \in Scopes : x # s => run'[x] = run[x]
      BY <2>1 DEF IndInv, Shapes
    <2>3. run'[s].status = "RUNNING"
      BY <2>1 DEF IndInv, Shapes
    <2>4. CASE l = k
      <3>1. job'[k] = Call("rooms", s)
        BY <1>2, <2>1
      <3> QED
        BY <2>3, <2>4, <3>1, CallRow, NothingInHand
    <2>5. CASE l # k
      BY <1>2, <1>3, <1>4, <2>1, <2>2, <2>5
    <2> QED
      BY <2>4, <2>5
  <1> QED
    BY <1>5, <1>6, <1>7, <1>8, <1>9, StepKinds

(* A scope that is claimed is not claimed again. *)
LEMMA OneCloserKept ==
    ASSUME IndInv, [Next]_vars
    PROVE  OneCloserPerScope'
  <1>1. DOMAIN job = Closers /\ Grows
    BY StepGrows DEF IndInv, Shapes
  <1>2. \A l \in Closers :
          job[l].pc # "idle" => job[l].scope \in Scopes /\ run[job[l].scope].status = "RUNNING"
    BY DEF IndInv, InHand, PlacedBy
  <1>3. ASSUME NEW k \in Closers, \A l \in Closers \ {k} : job'[l] = job[l],
               job'[k].pc # "idle" => job[k].pc # "idle" /\ job'[k].scope = job[k].scope
        PROVE  OneCloserPerScope'
    <2>1. \A l \in Closers : job'[l].pc # "idle" => job[l].pc # "idle" /\ job'[l].scope = job[l].scope
      BY <1>3
    <2> QED
      BY <2>1 DEF IndInv, OneCloserPerScope
  <1>4. CASE UNCHANGED <<job, run>>
    BY <1>4 DEF IndInv, OneCloserPerScope
  <1>5. ASSUME NEW k \in Closers, Works(k)
        PROVE  OneCloserPerScope'
    BY <1>1, <1>3, <1>5, WorkInHand
  <1>6. ASSUME NEW k \in Closers, GivesUp(k)
        PROVE  OneCloserPerScope'
    <2>1. job'[k] = Call("fail", job[k].scope) /\ \A l \in Closers \ {k} : job'[l] = job[l]
      BY <1>1, <1>6 DEF GivesUp, Doomed
    <2> QED
      BY <1>3, <1>6, <2>1, CallRow DEF GivesUp
  <1>7. ASSUME NEW k \in Closers, Leaves(k)
        PROVE  OneCloserPerScope'
    <2>1. job'[k] = Call("idle", None) /\ \A l \in Closers \ {k} : job'[l] = job[l]
      BY <1>1, <1>7 DEF Leaves, Free
    <2> QED
      BY <1>3, <2>1, CallRow
  <1>8. ASSUME NEW k \in Closers, NEW s \in Scopes, Claims(k, s)
        PROVE  OneCloserPerScope'
    <2>1. /\ job'[k] = Call("rooms", s) /\ \A l \in Closers \ {k} : job'[l] = job[l]
          /\ run[s].status # "RUNNING"
      BY <1>1, <1>8 DEF Claims, ClaimRun, Claimable
    <2>2. \A l \in Closers \ {k} : job'[l].pc # "idle" => job'[l].scope # s
      BY <1>2, <2>1
    <2>3. job'[k].scope = s
      BY <2>1, CallRow
    <2> QED
      BY <2>1, <2>2, <2>3 DEF IndInv, OneCloserPerScope
  <1> QED
    BY <1>4, <1>5, <1>6, <1>7, <1>8, StepKinds

(* An invoice is made from the snapshot that is locked. *)
LEMMA InvoicesKept ==
    ASSUME IndInv, [Next]_vars
    PROVE  InvoicesFollowSnapshot'
  <1>1. CASE UNCHANGED <<snapshot, invoice>>
    BY <1>1 DEF IndInv, InvoicesFollowSnapshot
  <1>2. ASSUME NEW k \in Closers, NEW c \in Contracts, Bill(k, c)
        PROVE  InvoicesFollowSnapshot'
    <2> DEFINE row == Candidate(job[k], Home[c])
    <2>1. /\ Grows /\ DOMAIN snapshot' = DOMAIN snapshot \cup {Home[c]}
          /\ DOMAIN invoice' = DOMAIN invoice \cup {c}
          /\ snapshot'[Home[c]] = row
          /\ invoice'[c] = [rent |-> job[k].contract[c].rent, power |-> Power(job[k], c)]
      BY <1>2, BillGrows
    <2>2. invoice'[c].power = Share(row.amount, row.heads)[c]
      BY <2>1 DEF Power
    <2>3. c \in DOMAIN row.heads
      <3>1. InHand(k) /\ c \in job[k].todo /\ job[k].pc = "bill"
        BY <1>2, BilledRow DEF IndInv
      <3> QED
        BY <3>1, RosterOfCandidate DEF InHand, BillingBy
    <2> HIDE DEF row
    <2>4. \A d \in DOMAIN invoice :
            /\ invoice'[d] = invoice[d] /\ Home[d] \in DOMAIN snapshot
            /\ snapshot'[Home[d]] = snapshot[Home[d]]
      BY <2>1 DEF IndInv, InvoicesFollowSnapshot, Grows
    <2>5. \A d \in DOMAIN invoice :
            /\ Home[d] \in DOMAIN snapshot' /\ d \in DOMAIN snapshot'[Home[d]].heads
            /\ invoice'[d].power = Share(snapshot'[Home[d]].amount, snapshot'[Home[d]].heads)[d]
      BY <2>1, <2>4 DEF IndInv, InvoicesFollowSnapshot
    <2> QED
      BY <2>1, <2>2, <2>3, <2>5 DEF InvoicesFollowSnapshot
  <1> QED
    BY <1>1, <1>2, StepWrites

(* A run is completed by a call that has nobody left to bill.              *)
LEMMA CompletedKept ==
    ASSUME IndInv, [Next]_vars
    PROVE  CompletedIsWhole'
  <1>1. Grows
    BY StepGrows
  <1>2. SUFFICES ASSUME NEW s \in Scopes, run'[s].status = "COMPLETED", NEW c \in run'[s].billed
                 PROVE  /\ Home[c] \in DOMAIN snapshot'
                        /\ DOMAIN snapshot'[Home[c]].heads \subseteq DOMAIN invoice'
    BY DEF CompletedIsWhole
  <1>3. CASE run'[s] = run[s]
    BY <1>1, <1>2, <1>3 DEF IndInv, CompletedIsWhole, Grows
  <1>4. ASSUME NEW k \in Closers, Complete(k), s = job[k].scope
        PROVE  /\ Home[c] \in DOMAIN snapshot'
               /\ DOMAIN snapshot'[Home[c]].heads \subseteq DOMAIN invoice'
    <2>1. run'[s].billed = job[k].billed
      BY <1>4 DEF Complete, IndInv, Shapes
    <2>2. /\ InHand(k) /\ job[k].pc = "bill" /\ job[k].todo = {}
          /\ UNCHANGED <<snapshot, invoice>>
      BY <1>4 DEF Complete, IndInv
    <2>3. /\ Home[c] \in RoomsOf(job[k].scope) /\ Home[c] \in DOMAIN snapshot
          /\ DOMAIN snapshot[Home[c]].heads = Roster(job[k], Home[c])
      BY <1>2, <2>1, <2>2 DEF InHand, BillingBy
    <2>4. Roster(job[k], Home[c]) \subseteq DOMAIN invoice
      BY <2>2, <2>3 DEF InHand, BillingBy
    <2> QED
      BY <2>2, <2>3, <2>4
  <1>5. ASSUME NEW k \in Closers, Works(k) \/ GivesUp(k)
        PROVE  run'[s] = run[s]
    BY <1>1, <1>5, WorkInHand DEF GivesUp
  <1>6. ASSUME NEW k \in Closers, Leaves(k)
        PROVE  run'[s] = run[s] \/ (Complete(k) /\ s = job[k].scope)
    BY <1>2, <1>6 DEF Leaves
  <1>7. ASSUME NEW k \in Closers, NEW t \in Scopes, Claims(k, t)
        PROVE  run'[s] = run[s]
    <2>1. run' = [run EXCEPT ![t].status = "RUNNING"]
      BY <1>7 DEF Claims, ClaimRun
    <2> QED
      BY <1>2, <2>1 DEF IndInv, Shapes
  <1> QED
    BY <1>3, <1>4, <1>5, <1>6, <1>7, StepKinds

-----------------------------------------------------------------------------

(* The invariant holds at first *)
LEMMA InitInvariant ==
    ASSUME Init
    PROVE  IndInv
  <1>1. Shapes
    <2>1. DOMAIN Nothing = {}
      BY DEF Nothing
    <2> QED
      BY <2>1 DEF Init, Shapes, ReadingTable
  <1>2. ASSUME NEW k \in Closers
        PROVE  InHand(k) /\ job[k].pc = "idle"
    <2>1. job[k] = Call("idle", None)
      BY DEF Init, Free
    <2> QED
      BY <2>1, CallRow DEF InHand, PlacedBy, AsReadBy, BillingBy
  <1>3. OneCloserPerScope
    BY <1>2 DEF OneCloserPerScope
  <1>4. InvoicesFollowSnapshot
    BY DEF Init, Nothing, InvoicesFollowSnapshot
  <1>5. CompletedIsWhole
    BY DEF Init, CompletedIsWhole
  <1> QED
    BY <1>1, <1>2, <1>3, <1>4, <1>5 DEF IndInv

(* and after every step. *)
LEMMA StepInvariant ==
    ASSUME IndInv, [Next]_vars
    PROVE  IndInv'
  BY ShapesKept, HandsKept, OneCloserKept, InvoicesKept, CompletedKept DEF IndInv

(* The invariant of the close, whatever the scopes that overlap.           *)
THEOREM MonthlyCloseInvariant == Spec => []IndInv
  <1>1. Init => IndInv
    BY InitInvariant
  <1>2. IndInv /\ [Next]_vars => IndInv'
    BY StepInvariant
  <1> QED
    BY <1>1, <1>2, PTL DEF Spec

(* A scope has one call of closeMonth at work, however often it is called. *)
THEOREM OneCloser == Spec => []OneCloserPerScope
  <1>1. IndInv => OneCloserPerScope
    BY DEF IndInv
  <1> QED
    BY <1>1, MonthlyCloseInvariant, PTL

(* Every invoice charges the share of the one snapshot of its room, by     *)
(* whichever rule shares are computed.                                     *)
THEOREM InvoicesChargeSnapshot == Spec => []InvoicesFollowSnapshot
  <1>1. IndInv => InvoicesFollowSnapshot
    BY DEF IndInv
  <1> QED
    BY <1>1, MonthlyCloseInvariant, PTL

(* A completed run left nobody of a room it billed without an invoice.     *)
THEOREM CompletedBillsRoster == Spec => []CompletedIsWhole
  <1>1. IndInv => CompletedIsWhole
    BY DEF IndInv
  <1> QED
    BY <1>1, MonthlyCloseInvariant, PTL

(* Snapshots and invoices are never written again.                         *)
THEOREM NothingRewritten == Spec => LockedForEver
  <1>1. [Next]_vars =>
          [/\ \A r \in DOMAIN snapshot : r \in DOMAIN snapshot' /\ snapshot'[r] = snapshot[r]
           /\ \A c \in DOMAIN invoice : c \in DOMAIN invoice' /\ invoice'[c] = invoice[c]]_vars
    BY StepGrows DEF Grows
  <1> QED
    BY <1>1, PTL DEF Spec, LockedForEver

(* A room is locked with usage that is charged only under its newest       *)
(* report: the number a call has read is still the newest, and with it the *)
(* amount.                                                                 *)
LEMMA BillChargesNewest ==
    ASSUME IndInv, NEW k \in Closers, NEW c \in Contracts, Bill(k, c),
           NEW r \in DOMAIN snapshot' \ DOMAIN snapshot, snapshot'[r].amount > 0
    PROVE  snapshot'[r].no = reading[r].no /\ snapshot'[r].amount = reading[r].amount
  <1>1. r = Home[c] /\ snapshot'[r] = Candidate(job[k], r) /\ r \in Rooms
    <2>1. /\ DOMAIN snapshot' = DOMAIN snapshot \cup {Home[c]}
          /\ snapshot'[Home[c]] = Candidate(job[k], Home[c])
      BY BillGrows
    <2>2. Home[c] \in Rooms
      BY MonthlyCloseAssumption
    <2>3. r = Home[c]
      BY <2>1
    <2> QED
      BY <2>1, <2>2, <2>3
  <1>2. job[k].pc = "bill" /\ InHand(k)
    BY DEF Bill, IndInv
  <1>3. r \notin DOMAIN job[k].snapshot
    BY <1>2 DEF InHand, AsReadBy
  <1>4. /\ Candidate(job[k], r).no = job[k].reading[r].no
        /\ Candidate(job[k], r).amount \in {0, job[k].reading[r].amount}
    BY <1>3 DEF Candidate
  <1>5. Candidate(job[k], r).amount # 0
    BY <1>1
  <1>6. job[k].reading[r].no = reading[r].no
    BY <1>1, <1>3, <1>5 DEF Bill, Evident
  <1> QED
    BY <1>1, <1>2, <1>4, <1>5, <1>6 DEF InHand, AsReadBy

(* Electricity is charged up to the newest report of the meter, whatever   *)
(* has been reported while the call was running.                           *)
THEOREM NewestReportCharged == Spec => ChargesNewestReport
  <1>1. IndInv /\ [Next]_vars =>
          [\A r \in DOMAIN snapshot' \ DOMAIN snapshot : snapshot'[r].amount > 0
             => snapshot'[r].no = reading[r].no /\ snapshot'[r].amount = reading[r].amount]_vars
    BY StepWrites, BillChargesNewest
  <1> QED
    BY <1>1, MonthlyCloseInvariant, PTL DEF Spec, ChargesNewestReport

-----------------------------------------------------------------------------
(* The shares of a room add up to its usage.                               *)

(* In a strict order of a finite set as many have fewer than n ahead of    *)
(* them as n says.                                                         *)
LEMMA Rank ==
    ASSUME NEW D, IsFiniteSet(D), NEW ahead \in [D -> SUBSET D],
           \A c \in D : c \notin ahead[c],
           \A c \in D : \A d \in ahead[c] : ahead[d] \subseteq ahead[c],
           \A c, d \in D : c = d \/ c \in ahead[d] \/ d \in ahead[c],
           NEW n \in Nat, n <= Cardinality(D)
    PROVE  Cardinality({c \in D : Cardinality(ahead[c]) < n}) = n
  <1> DEFINE rank == [c \in D |-> Cardinality(ahead[c])]
             N == Cardinality(D)
             L == {c \in D : rank[c] < n}
             R == D \ L
  <1>1. N \in Nat /\ n <= N
    BY FS_CardinalityType
  <1>2. ASSUME NEW c \in D
        PROVE  rank[c] \in Nat /\ rank[c] < N /\ IsFiniteSet(ahead[c])
    <2>1. ahead[c] \in SUBSET D /\ ahead[c] # D
      OBVIOUS
    <2>2. IsFiniteSet(ahead[c]) /\ Cardinality(ahead[c]) \in Nat
          /\ Cardinality(ahead[c]) <= N /\ Cardinality(ahead[c]) # N
      BY <2>1, FS_Subset, FS_CardinalityType
    <2> QED
      BY <1>1, <2>2
  <1>3. ASSUME NEW c \in D, NEW d \in D, c \in ahead[d]
        PROVE  rank[c] < rank[d]
    <2>1. ahead[c] \subseteq ahead[d] /\ ahead[c] # ahead[d]
      BY <1>3
    <2>2. /\ Cardinality(ahead[c]) <= Cardinality(ahead[d])
          /\ Cardinality(ahead[c]) # Cardinality(ahead[d])
      BY <1>2, <2>1, FS_Subset
    <2> QED
      BY <1>2, <2>2
  <1>4. \A c, d \in D : rank[c] = rank[d] => c = d
    <2> SUFFICES ASSUME NEW c \in D, NEW d \in D, rank[c] = rank[d], c # d PROVE FALSE
      OBVIOUS
    <2>1. rank[c] < rank[d] \/ rank[d] < rank[c]
      <3> HIDE DEF rank
      <3> QED BY <1>3
    <2>2. rank[c] \in Nat /\ rank[d] \in Nat
      BY <1>2
    <2> HIDE DEF rank
    <2> QED
      BY <2>1, <2>2
  <1> HIDE DEF rank
  <1>5. Cardinality(L) <= n
    <2> DEFINE f == [c \in L |-> rank[c]]
    <2>1. f \in Injection(L, 0 .. n - 1)
      BY <1>2, <1>4 DEF Injection, IsInjective
    <2>2. IsFiniteSet(0 .. n - 1) /\ Cardinality(0 .. n - 1) = n
      BY FS_Interval
    <2> QED
      BY <2>1, <2>2, FS_Injection
  <1>6. Cardinality(R) <= N - n
    <2> DEFINE f == [c \in R |-> rank[c]]
    <2>1. f \in Injection(R, n .. N - 1)
      BY <1>1, <1>2, <1>4 DEF Injection, IsInjective
    <2>2. IsFiniteSet(n .. N - 1) /\ Cardinality(n .. N - 1) = N - n
      <3> HIDE DEF N
      <3>1. n \in Int /\ N - 1 \in Int /\ (n > N - 1 <=> n = N)
        BY <1>1
      <3>2. /\ IsFiniteSet(n .. N - 1)
            /\ Cardinality(n .. N - 1) = IF n > N - 1 THEN 0 ELSE (N - 1) - n + 1
        BY <3>1, FS_Interval
      <3> QED
        BY <1>1, <3>1, <3>2
    <2> QED
      BY <2>1, <2>2, FS_Injection
  <1>7. Cardinality(R) = N - Cardinality(L)
    <2>1. D \cap L = L
      OBVIOUS
    <2> QED
      BY <2>1, FS_Difference
  <1>8. Cardinality(L) \in Nat
    BY FS_Subset, FS_CardinalityType
  <1>9. Cardinality(L) = n
    <2> HIDE DEF L, R, N
    <2> QED BY <1>1, <1>5, <1>6, <1>7, <1>8
  <1>10. L = {c \in D : Cardinality(ahead[c]) < n}
    BY DEF rank
  <1> QED
    BY <1>9, <1>10

(* The pieces of Share. *)
PartOf(amount, heads) ==
    [c \in DOMAIN heads |->
       IF heads[c] = 0 THEN 0 ELSE (amount * heads[c]) \div Sum(heads, DOMAIN heads)]

RestOf(amount, heads) ==
    [c \in DOMAIN heads |->
       IF heads[c] = 0 THEN 0 ELSE (amount * heads[c]) % Sum(heads, DOMAIN heads)]

LeftOver(amount, heads) ==
    IF Sum(heads, DOMAIN heads) = 0 THEN 0
    ELSE amount - Sum(PartOf(amount, heads), DOMAIN heads)

AheadOf(rest, D, c) == {d \in D : rest[d] > rest[c] \/ (rest[d] = rest[c] /\ d < c)}

(* The share of a contract by name: its part rounded down, and one more    *)
(* for the largest rests.                                                  *)
LEMMA ShareIs ==
    ASSUME NEW amount, NEW heads
    PROVE  Share(amount, heads) =
             [c \in DOMAIN heads |->
                PartOf(amount, heads)[c]
                  + IF Cardinality(AheadOf(RestOf(amount, heads), DOMAIN heads, c))
                         < LeftOver(amount, heads) THEN 1 ELSE 0]
  <1>1. DOMAIN PartOf(amount, heads) = DOMAIN heads
    BY DEF PartOf
  <1> QED
    BY <1>1 DEF Share, PartOf, RestOf, LeftOver, AheadOf, Sum, SumFunction

(* Quotient and rest. *)
LEMMA Division ==
    ASSUME NEW p \in Nat, NEW m \in Nat \ {0}
    PROVE  p \div m \in Nat /\ p % m \in 0 .. m - 1 /\ p = m * (p \div m) + (p % m)
  <1>1. p = m * (p \div m) + (p % m)
    BY Z3
  <1>2. p \div m \in Nat
    OBVIOUS
  <1>3. p % m \in 0 .. m - 1
    OBVIOUS
  <1> QED
    BY <1>1, <1>2, <1>3

(* A number is bounded through its multiple. *)
LEMMA Between ==
    ASSUME NEW m \in Nat \ {0}, NEW x \in Int, NEW n \in Nat, 0 <= m * x, m * x < m * n
    PROVE  x \in Nat /\ x < n
  OBVIOUS

(* Largest remainders: the shares of people who are all counted are the    *)
(* amount, whatever it is.                                                 *)
LEMMA SharesOfHeads ==
    ASSUME NEW D, IsFiniteSet(D), D \subseteq Nat, D # {},
           NEW amount \in Nat, NEW heads \in [D -> Nat \ {0}]
    PROVE  Sum(Share(amount, heads), D) = amount
  <1> DEFINE all == Sum(heads, D)
             part == PartOf(amount, heads)
             rest == RestOf(amount, heads)
             left == amount - Sum(part, D)
             scaled == [c \in D |-> amount * heads[c]]
             taken == [c \in D |-> all * part[c]]
             ahead == [c \in D |-> AheadOf(rest, D, c)]
             first == {c \in D : Cardinality(ahead[c]) < left}
             one == [c \in D |-> IF c \in first THEN 1 ELSE 0]
  <1>0. \A c \in D : heads[c] \in Nat \ {0} /\ heads[c] \in Nat /\ heads[c] \in Int
    OBVIOUS
  <1>1. all \in Nat \ {0}
    <2>1. PICK x \in D : TRUE
      OBVIOUS
    <2>2. IsFiniteSet(D \ {x})
      BY FS_RemoveElement
    <2>3. Sum(heads, D \ {x}) \in Nat
      BY <1>0, <2>2, SumNat
    <2>4. all = heads[x] + Sum(heads, D \ {x})
      BY <1>0, SumRemove
    <2> QED
      BY <1>0, <2>3, <2>4
  <1>2. ASSUME NEW c \in D
        PROVE  /\ part[c] = scaled[c] \div all /\ rest[c] = scaled[c] % all
               /\ scaled[c] \in Nat
    <2>1. amount * heads[c] \in Nat
      OBVIOUS
    <2> QED
      BY <2>1 DEF PartOf, RestOf
  <1> HIDE DEF part, rest
  <1>3. ASSUME NEW c \in D
        PROVE  part[c] \in Nat /\ rest[c] \in 0 .. all - 1 /\ scaled[c] = all * part[c] + rest[c]
    <2> HIDE DEF all, scaled
    <2> QED BY <1>1, <1>2, Division
  <1>4. Sum(scaled, D) = amount * all
    <2>1. \A c \in D : heads[c] \in Int /\ scaled[c] = amount * heads[c]
      BY <1>0
    <2>2. amount \in Int
      OBVIOUS
    <2> HIDE DEF scaled
    <2> QED BY <2>1, <2>2, SumScale
  <1>5. Sum(taken, D) = all * Sum(part, D)
    <2>1. \A c \in D : part[c] \in Int /\ taken[c] = all * part[c]
      BY <1>3
    <2>2. all \in Int
      BY <1>1
    <2> HIDE DEF all, taken
    <2> QED BY <2>1, <2>2, SumScale
  <1>6. Sum(scaled, D) = Sum(taken, D) + Sum(rest, D)
    <2>1. \A c \in D : taken[c] \in Int /\ rest[c] \in Int /\ scaled[c] = taken[c] + rest[c]
      <3> HIDE DEF all, scaled
      <3> QED BY <1>1, <1>3
    <2> HIDE DEF all, scaled, taken
    <2> QED BY <2>1, SumPlus
  <1>7. Sum(part, D) \in Nat
    BY <1>3, SumNat
  <1>8. Sum(rest, D) = all * left
    <2>1. amount * all = all * Sum(part, D) + Sum(rest, D)
      BY <1>4, <1>5, <1>6
    <2>2. Sum(rest, D) \in Int
      <3>1. \A c \in D : rest[c] \in Int
        BY <1>1, <1>3
      <3> QED BY <3>1, SumType
    <2>3. ASSUME NEW a \in Int, NEW b \in Int, NEW x \in Int, NEW y \in Int, a * b = b * x + y
          PROVE  y = b * (a - x)
      BY <2>3
    <2> HIDE DEF all
    <2> QED
      BY <1>1, <1>7, <2>1, <2>2, <2>3
  <1>9. Sum(rest, D) \in Nat /\ Sum(rest, D) < all * Cardinality(D)
    <2> HIDE DEF all
    <2> QED BY <1>1, <1>3, SumBelow
  <1>10. Cardinality(D) \in Nat
    BY FS_CardinalityType
  <1>11. left \in Nat /\ left < Cardinality(D)
    <2>1. left \in Int
      BY <1>7
    <2> HIDE DEF all, left
    <2> QED BY <1>1, <1>8, <1>9, <1>10, <2>1, Between
  <1>12. Cardinality(first) = left
    <2>1. ahead \in [D -> SUBSET D]
      BY DEF AheadOf
    <2>2. \A c \in D : rest[c] \in Int
      BY <1>1, <1>3
    <2>3. \A c \in D : c \notin ahead[c]
      BY <2>2 DEF AheadOf
    <2>4. \A c \in D : \A d \in ahead[c] : ahead[d] \subseteq ahead[c]
      <3> SUFFICES ASSUME NEW c \in D, NEW d \in ahead[c], NEW e \in ahead[d] PROVE e \in ahead[c]
        OBVIOUS
      <3>1. d \in D /\ (rest[d] > rest[c] \/ (rest[d] = rest[c] /\ d < c))
        BY DEF AheadOf
      <3>2. e \in D /\ (rest[e] > rest[d] \/ (rest[e] = rest[d] /\ e < d))
        BY <3>1 DEF AheadOf
      <3>3. c \in Nat /\ d \in Nat /\ e \in Nat /\ rest[c] \in Int /\ rest[d] \in Int /\ rest[e] \in Int
        BY <2>2, <3>1, <3>2
      <3>4. rest[e] > rest[c] \/ (rest[e] = rest[c] /\ e < c)
        BY <3>1, <3>2, <3>3
      <3> QED
        BY <3>2, <3>4 DEF AheadOf
    <2>5. \A c, d \in D : c = d \/ c \in ahead[d] \/ d \in ahead[c]
      BY <2>2 DEF AheadOf
    <2>6. left <= Cardinality(D)
      BY <1>10, <1>11
    <2> HIDE DEF ahead, left
    <2> QED
      BY <1>11, <2>1, <2>3, <2>4, <2>5, <2>6, Rank
  <1>13. Sum(one, D) = left
    <2> HIDE DEF left
    <2>1. first \in SUBSET D
      OBVIOUS
    <2> HIDE DEF first
    <2> QED BY <1>12, <2>1, SumCount
  <1>14. ASSUME NEW c \in D
         PROVE  Share(amount, heads)[c] = part[c] + one[c]
    <2>1. LeftOver(amount, heads) = left
      BY <1>1 DEF LeftOver, part
    <2>2. Share(amount, heads)[c] = part[c] + IF Cardinality(ahead[c]) < left THEN 1 ELSE 0
      BY <2>1, ShareIs DEF part, rest
    <2> HIDE DEF ahead, left
    <2> QED
      BY <2>2
  <1>15. Sum(Share(amount, heads), D) = Sum(part, D) + Sum(one, D)
    <2>1. \A c \in D : part[c] \in Int /\ one[c] \in Int
      BY <1>3
    <2> DEFINE share == Share(amount, heads)
    <2>2. \A c \in D : part[c] \in Int /\ one[c] \in Int /\ share[c] = part[c] + one[c]
      BY <1>14, <2>1
    <2> HIDE DEF one, share
    <2>3. Sum(share, D) = Sum(part, D) + Sum(one, D)
      BY <2>2, SumPlus
    <2> QED
      BY <2>3 DEF share
  <1> QED
    BY <1>7, <1>11, <1>13, <1>15

(* Nothing is shared when there is nothing to share. *)
LEMMA SharesOfNothing ==
    ASSUME NEW D, IsFiniteSet(D), NEW heads \in [D -> Nat]
    PROVE  Sum(Share(0, heads), D) = 0
  <1> DEFINE all == Sum(heads, D)
             part == PartOf(0, heads)
  <1>1. all \in Nat
    BY SumNat
  <1>2. \A c \in D : part[c] = 0
    <2> SUFFICES ASSUME NEW c \in D, heads[c] # 0 PROVE part[c] = 0
      BY DEF PartOf
    <2>1. all \in Nat \ {0}
      <3>1. IsFiniteSet(D \ {c})
        BY FS_RemoveElement
      <3>2. Sum(heads, D \ {c}) \in Nat
        BY <3>1, SumNat
      <3>3. all = heads[c] + Sum(heads, D \ {c})
        BY SumRemove
      <3> QED BY <3>2, <3>3
    <2>2. part[c] = 0 \div all
      BY DEF PartOf
    <2> HIDE DEF all, part
    <2> QED BY <2>1, <2>2
  <1>3. Sum(part, D) = 0
    <2> HIDE DEF part
    <2> QED BY <1>2, SumZero
  <1>4. LeftOver(0, heads) = 0
    BY <1>3 DEF LeftOver
  <1>5. \A c \in D : Share(0, heads)[c] = 0
    <2> SUFFICES ASSUME NEW c \in D PROVE Share(0, heads)[c] = 0
      OBVIOUS
    <2> DEFINE A == AheadOf(RestOf(0, heads), D, c)
    <2>1. IsFiniteSet(A)
      BY FS_Subset DEF AheadOf
    <2>2. Cardinality(A) \in Nat
      BY <2>1, FS_CardinalityType
    <2>3. Share(0, heads)[c] = part[c] + IF Cardinality(A) < 0 THEN 1 ELSE 0
      BY <1>4, ShareIs
    <2> HIDE DEF part, A
    <2> QED
      BY <1>2, <2>2, <2>3
  <1> QED
    BY <1>5, SumZero

-----------------------------------------------------------------------------
(* Types, and that a locked room charges its usage only to people who are  *)
(* counted.                                                                *)

IsSnapshot(r, row) ==
    /\ row.no \in Nat /\ row.amount \in Nat
    /\ DOMAIN row.heads \subseteq In(r)
    /\ row.heads \in [DOMAIN row.heads -> 0 .. MaxMembers]

Charges(row) == row.amount # 0 => \A c \in DOMAIN row.heads : row.heads[c] # 0

HasContracts(k) ==
    job[k].pc \in {"evidence", "check", "bill"} => job[k].contract \in ContractTable

ChargedInv ==
    /\ \A k \in Closers : HasContracts(k)
    /\ \A r \in DOMAIN snapshot : DOMAIN snapshot[r].heads # {} /\ Charges(snapshot[r])

CloseInv == IndInv /\ TypeOK /\ ChargedInv

(* A table of snapshots, row by row. *)
LEMMA SnapshotTable ==
    ASSUME NEW t
    PROVE  AreSnapshots(t) <=> DOMAIN t \subseteq Rooms /\ \A r \in DOMAIN t : IsSnapshot(r, t[r])
  BY DEF AreSnapshots, IsSnapshot

(* What a call would lock is a snapshot, of whatever it has read. *)
LEMMA CandidateTyped ==
    ASSUME CloseInv, NEW k \in Closers, job[k].pc = "bill", NEW r \in Rooms
    PROVE  IsSnapshot(r, Candidate(job[k], r)) /\ Charges(Candidate(job[k], r))
  <1>1. job[k].contract \in ContractTable /\ job[k].reading \in ReadingTable
    BY DEF CloseInv, ChargedInv, HasContracts, IndInv, InHand, AsReadBy
  <1>2. CASE r \in DOMAIN job[k].snapshot
    <2>1. r \in DOMAIN snapshot /\ snapshot[r] = job[k].snapshot[r]
      BY <1>2 DEF CloseInv, IndInv, InHand, AsReadBy
    <2>2. IsSnapshot(r, snapshot[r])
      BY <2>1, SnapshotTable DEF CloseInv, TypeOK
    <2> QED
      BY <1>2, <2>1, <2>2 DEF Candidate, CloseInv, ChargedInv
  <1>3. CASE r \notin DOMAIN job[k].snapshot
    <2> DEFINE row == Candidate(job[k], r)
               roster == Active(job[k], r)
    <2>1. /\ row.no = job[k].reading[r].no
          /\ row.amount = IF roster \subseteq Old THEN job[k].reading[r].amount ELSE 0
          /\ row.heads = [c \in roster |-> IF c \in Old THEN job[k].contract[c].members ELSE 0]
      BY <1>3 DEF Candidate
    <2>2. job[k].reading[r].no \in Nat /\ job[k].reading[r].amount \in Nat
      BY <1>1 DEF ReadingTable
    <2>3. roster \subseteq In(r) /\ roster \subseteq Contracts
      BY DEF Active, In
    <2>4. \A c \in roster : job[k].contract[c].members \in 1 .. MaxMembers
      BY <1>1, <2>3 DEF ContractTable
    <2>5. MaxMembers \in Nat
      BY MonthlyCloseAssumption
    <2> HIDE DEF row, roster
    <2>6. \A c \in roster : /\ row.heads[c] \in 0 .. MaxMembers
                            /\ c \in Old => row.heads[c] # 0
      BY <2>1, <2>4, <2>5
    <2>7. DOMAIN row.heads = roster /\ row.heads \in [roster -> 0 .. MaxMembers]
      BY <2>1, <2>6
    <2>8. IsSnapshot(r, row)
      BY <2>1, <2>2, <2>3, <2>7 DEF IsSnapshot
    <2>9. Charges(row)
      BY <2>1, <2>6, <2>7 DEF Charges
    <2> QED
      BY <2>8, <2>9 DEF row
  <1> QED
    BY <1>2, <1>3

(* A share is a number of units. *)
LEMMA ShareTyped ==
    ASSUME NEW D, IsFiniteSet(D), NEW amount \in Nat, NEW heads \in [D -> Nat], NEW c \in D
    PROVE  Share(amount, heads)[c] \in Nat
  <1> DEFINE all == Sum(heads, D)
             part == PartOf(amount, heads)[c]
  <1>1. \A d \in D : heads[d] \in Nat /\ heads[d] \in Int
    OBVIOUS
  <1>2. IsFiniteSet(D \ {c})
    BY FS_RemoveElement
  <1>3. all = heads[c] + Sum(heads, D \ {c}) /\ Sum(heads, D \ {c}) \in Nat
    BY <1>1, <1>2, SumRemove, SumNat
  <1>4. part = IF heads[c] = 0 THEN 0 ELSE (amount * heads[c]) \div all
    BY DEF PartOf
  <1>5. part \in Nat
    <2>1. CASE heads[c] = 0
      BY <1>4, <2>1
    <2>2. CASE heads[c] # 0
      <3>1. all \in Nat \ {0} /\ amount * heads[c] \in Nat
        BY <1>1, <1>3, <2>2
      <3> DEFINE p == amount * heads[c]
      <3>2. p \in Nat
        BY <3>1
      <3> HIDE DEF p, all
      <3>3. p \div all \in Nat
        BY <3>1, <3>2, Division
      <3> QED
        BY <1>4, <2>2, <3>3 DEF p, all
    <2> QED
      BY <2>1, <2>2
  <1>6. \E u \in {0, 1} : Share(amount, heads)[c] = part + u
    BY ShareIs
  <1> HIDE DEF part
  <1> QED
    BY <1>5, <1>6

(* What a bill locks and issues. *)
LEMMA BillTyped ==
    ASSUME CloseInv, NEW k \in Closers, NEW c \in Contracts, Bill(k, c)
    PROVE  /\ IsSnapshot(Home[c], snapshot'[Home[c]]) /\ Charges(snapshot'[Home[c]])
           /\ DOMAIN snapshot'[Home[c]].heads # {}
           /\ invoice'[c] \in [rent : Nat, power : Nat]
  <1> DEFINE row == Candidate(job[k], Home[c])
  <1>1. job[k].pc = "bill" /\ c \in job[k].todo
    BY DEF Bill, NextUp
  <1>2. Home[c] \in Rooms
    BY MonthlyCloseAssumption
  <1>3. IsSnapshot(Home[c], row) /\ Charges(row)
    BY <1>1, <1>2, CandidateTyped
  <1>4. /\ snapshot'[Home[c]] = row
        /\ invoice'[c] = [rent |-> job[k].contract[c].rent, power |-> Power(job[k], c)]
    BY BillGrows
  <1>5. c \in DOMAIN row.heads
    BY <1>1, RosterOfCandidate DEF CloseInv, IndInv, InHand, BillingBy
  <1>6. Power(job[k], c) \in Nat
    <2>1. IsFiniteSet(DOMAIN row.heads)
      <3>1. IsFiniteSet(Contracts) /\ DOMAIN row.heads \in SUBSET Contracts
        BY <1>3, MonthlyCloseAssumption DEF IsSnapshot, In
      <3> HIDE DEF row
      <3> QED BY <3>1, FS_Subset
    <2>2. row.amount \in Nat /\ row.heads \in [DOMAIN row.heads -> Nat]
      BY <1>3, MonthlyCloseAssumption DEF IsSnapshot
    <2>3. Power(job[k], c) = Share(row.amount, row.heads)[c]
      BY DEF Power
    <2> HIDE DEF row
    <2> QED
      BY <1>5, <2>1, <2>2, <2>3, ShareTyped
  <1>7. job[k].contract[c].rent \in Nat
    BY <1>1 DEF CloseInv, ChargedInv, HasContracts, ContractTable
  <1> HIDE DEF row
  <1> QED
    BY <1>3, <1>4, <1>5, <1>6, <1>7

(* What is locked and billed has its type, *)
LEMMA TablesTyped ==
    ASSUME CloseInv, [Next]_vars
    PROVE  /\ AreSnapshots(snapshot')
           /\ \A r \in DOMAIN snapshot' :
                DOMAIN snapshot'[r].heads # {} /\ Charges(snapshot'[r])
           /\ DOMAIN invoice' \subseteq Contracts
           /\ \A c \in DOMAIN invoice' : invoice'[c] \in [rent : Nat, power : Nat]
  <1>1. CASE UNCHANGED <<snapshot, invoice>>
    BY <1>1 DEF CloseInv, TypeOK, ChargedInv
  <1>2. ASSUME NEW k \in Closers, NEW c \in Contracts, Bill(k, c)
        PROVE  /\ AreSnapshots(snapshot')
               /\ \A r \in DOMAIN snapshot' :
                    DOMAIN snapshot'[r].heads # {} /\ Charges(snapshot'[r])
               /\ DOMAIN invoice' \subseteq Contracts
               /\ \A d \in DOMAIN invoice' : invoice'[d] \in [rent : Nat, power : Nat]
    <2>1. /\ Grows
          /\ DOMAIN snapshot' = DOMAIN snapshot \cup {Home[c]}
          /\ DOMAIN invoice' = DOMAIN invoice \cup {c}
      BY <1>2, BillGrows
    <2>2. /\ IsSnapshot(Home[c], snapshot'[Home[c]]) /\ Charges(snapshot'[Home[c]])
          /\ DOMAIN snapshot'[Home[c]].heads # {}
          /\ invoice'[c] \in [rent : Nat, power : Nat]
      BY <1>2, BillTyped
    <2>3. Home[c] \in Rooms
      BY MonthlyCloseAssumption
    <2>4. /\ DOMAIN snapshot \subseteq Rooms /\ DOMAIN invoice \subseteq Contracts
          /\ \A r \in DOMAIN snapshot : /\ IsSnapshot(r, snapshot[r]) /\ Charges(snapshot[r])
                                        /\ DOMAIN snapshot[r].heads # {}
          /\ \A d \in DOMAIN invoice : invoice[d] \in [rent : Nat, power : Nat]
      BY SnapshotTable DEF CloseInv, TypeOK, ChargedInv
    <2>5. \A r \in DOMAIN snapshot' : /\ IsSnapshot(r, snapshot'[r]) /\ Charges(snapshot'[r])
                                      /\ DOMAIN snapshot'[r].heads # {}
      BY <2>1, <2>2, <2>4 DEF Grows
    <2>6. \A d \in DOMAIN invoice' : invoice'[d] \in [rent : Nat, power : Nat]
      BY <2>1, <2>2, <2>4 DEF Grows
    <2>7. DOMAIN snapshot' \subseteq Rooms /\ DOMAIN invoice' \subseteq Contracts
      BY <2>1, <2>3, <2>4
    <2>8. AreSnapshots(snapshot')
      BY <2>5, <2>7, SnapshotTable
    <2> QED
      BY <2>5, <2>6, <2>7, <2>8
  <1> QED
    BY <1>1, <1>2, StepWrites DEF CloseInv

(* Contracts keep their types, whoever signs, ends or edits them. *)
LEMMA ContractsTyped ==
    ASSUME CloseInv, [Next]_vars
    PROVE  contract' \in ContractTable /\ entry' \subseteq Contracts /\ edits' \in 0 .. MaxEdits
  <1>1. contract \in ContractTable /\ entry \subseteq Contracts /\ edits \in 0 .. MaxEdits
    BY DEF CloseInv, TypeOK
  <1>2. MaxEdits \in Nat /\ MaxMembers \in Nat /\ Rents \subseteq Nat
    BY MonthlyCloseAssumption
  <1>3. Edit => edits' \in 0 .. MaxEdits
    BY <1>1, <1>2 DEF Edit
  <1>4. ASSUME NEW c \in Contracts, Activate(c) \/ Settle(c)
        PROVE  contract' \in ContractTable /\ entry' \subseteq Contracts /\ edits' \in 0 .. MaxEdits
    BY <1>1, <1>3, <1>4 DEF Activate, Settle, ContractTable
  <1>5. ASSUME NEW c \in Contracts, Join(c)
        PROVE  contract' \in ContractTable /\ entry' \subseteq Contracts /\ edits' \in 0 .. MaxEdits
    <2>1. contract[c].members + 1 \in 1 .. MaxMembers
      BY <1>1, <1>2, <1>5 DEF Join, ContractTable
    <2> QED
      BY <1>1, <1>3, <1>5, <2>1 DEF Join, ContractTable
  <1>6. ASSUME NEW c \in Contracts, NEW n \in Rents, Reprice(c, n)
        PROVE  contract' \in ContractTable /\ entry' \subseteq Contracts /\ edits' \in 0 .. MaxEdits
    BY <1>1, <1>2, <1>3, <1>6 DEF Reprice, ContractTable
  <1>7. ASSUME NEW r \in Rooms, NEW a \in Amounts, Observe(r, a)
        PROVE  contract' \in ContractTable /\ entry' \subseteq Contracts /\ edits' \in 0 .. MaxEdits
    BY <1>1, <1>3, <1>7 DEF Observe
  <1>8. ASSUME NEW k \in Closers, Close(k)
        PROVE  UNCHANGED <<contract, entry, edits>>
    BY <1>8 DEF Close, ReadRooms, ReadEvidence, Preflight, Skip, Bill, Refuse, Complete, Fail
  <1>9. ASSUME NEW k \in Closers, StatementFails(k) \/ Crash(k) \/ \E s \in Scopes : ClaimRun(k, s)
        PROVE  UNCHANGED <<contract, entry, edits>>
    BY <1>9 DEF StatementFails, Crash, ClaimRun
  <1>10. CASE UNCHANGED vars
    BY <1>1, <1>10 DEF vars
  <1> QED
    BY <1>1, <1>4, <1>5, <1>6, <1>7, <1>8, <1>9, <1>10 DEF Next

(* and so has the count of faults. *)
LEMMA FaultsTyped ==
    ASSUME CloseInv, [Next]_vars
    PROVE  faults' \in 0 .. MaxFaults
  <1>1. faults \in 0 .. MaxFaults /\ MaxFaults \in Nat
    BY MonthlyCloseAssumption DEF CloseInv, TypeOK
  <1>2. ASSUME NEW k \in Closers, StatementFails(k) \/ Crash(k)
        PROVE  faults' \in 0 .. MaxFaults
    BY <1>1, <1>2 DEF StatementFails, Crash, Fault
  <1>3. ASSUME NEW k \in Closers, Close(k) \/ \E s \in Scopes : ClaimRun(k, s)
        PROVE  UNCHANGED faults
    BY <1>3 DEF Close, ReadRooms, ReadEvidence, Preflight, Skip, Bill, Refuse, Complete, Fail, ClaimRun
  <1>4. ASSUME NEW c \in Contracts, Activate(c) \/ Settle(c) \/ Join(c) \/ \E n \in Rents : Reprice(c, n)
        PROVE  UNCHANGED faults
    BY <1>4 DEF Activate, Settle, Join, Reprice
  <1>5. CASE \E r \in Rooms, a \in Amounts : Observe(r, a)
    BY <1>1, <1>5 DEF Observe
  <1>6. CASE UNCHANGED vars
    BY <1>1, <1>6 DEF vars
  <1> QED
    BY <1>1, <1>2, <1>3, <1>4, <1>5, <1>6 DEF Next

(* The row of a call. *)
JobType(k) ==
    /\ job[k].pc \in {"idle", "rooms", "evidence", "check", "bill", "fail"}
    /\ job[k].scope \in Scopes \cup {None}
    /\ job[k].contract \in ContractTable \cup {Nothing}
    /\ job[k].reading \in ReadingTable \cup {Nothing}
    /\ AreSnapshots(job[k].snapshot)
    /\ job[k].todo \subseteq Contracts /\ job[k].billed \subseteq Contracts
    /\ HasContracts(k)

(* A call that starts or leaves has its type, *)
LEMMA CallTyped ==
    ASSUME NEW k \in Closers, NEW p \in {"idle", "rooms", "fail"}, NEW s \in Scopes \cup {None},
           job'[k] = Call(p, s)
    PROVE  JobType(k)'
  <1>1. DOMAIN Nothing = {}
    BY DEF Nothing
  <1>2. AreSnapshots(Nothing)
    BY <1>1 DEF AreSnapshots
  <1> QED
    BY <1>2 DEF Call, JobType, HasContracts

(* one that works, *)
LEMMA WorkTyped ==
    ASSUME CloseInv, NEW k \in Closers, Works(k), JobType(k)
    PROVE  JobType(k)'
  <1>1. Shapes /\ InHand(k)
    BY DEF CloseInv, IndInv
  <1>2. contract \in ContractTable /\ reading \in ReadingTable /\ AreSnapshots(snapshot)
    BY DEF CloseInv, TypeOK
  <1>3. CASE ReadRooms(k)
    BY <1>1, <1>2, <1>3, ReadRoomsRow DEF JobType, HasContracts
  <1>4. CASE ReadEvidence(k)
    BY <1>1, <1>2, <1>4, ReadEvidenceRow DEF JobType, HasContracts
  <1>5. CASE Preflight(k) /\ job'[k].pc = "bill"
    <2> DEFINE S == UNION {Roster(job[k], r) : r \in RoomsOf(job[k].scope)}
    <2>1. job[k].pc = "check"
      BY <1>5 DEF Preflight
    <2>2. job' = [job EXCEPT ![k].pc = "bill", ![k].todo = S]
      <3>1. CASE job' = [job EXCEPT ![k] = Doomed(job[k])]
        BY <1>1, <1>5, <3>1, CallRow DEF Doomed, Shapes
      <3> QED
        BY <1>5, <3>1 DEF Preflight
    <2>3. S \subseteq Contracts
      <3>1. \A r : Roster(job[k], r) \subseteq In(r)
        BY <1>1, <2>1, RosterAtHome
      <3> QED
        BY <3>1 DEF In
    <2> HIDE DEF S
    <2>4. /\ Row(job'[k]) /\ job'[k].pc = "bill" /\ job'[k].scope = job[k].scope
          /\ job'[k].billed = {} /\ job'[k].todo = S
          /\ job'[k].contract = job[k].contract /\ job'[k].reading = job[k].reading
          /\ job'[k].snapshot = job[k].snapshot
      BY <1>1, <2>1, <2>2, PassedRow
    <2> QED
      BY <2>1, <2>3, <2>4 DEF JobType, HasContracts
  <1>6. ASSUME NEW c \in Contracts, Skip(k, c)
        PROVE  JobType(k)'
    BY <1>1, <1>6, SkippedRow DEF JobType, HasContracts
  <1>7. ASSUME NEW c \in Contracts, Bill(k, c)
        PROVE  JobType(k)'
    BY <1>1, <1>7, BilledRow DEF JobType, HasContracts
  <1> QED
    BY <1>3, <1>4, <1>5, <1>6, <1>7 DEF Works

(* and one that others work beside. *)
LEMMA JobsTyped ==
    ASSUME CloseInv, [Next]_vars, NEW l \in Closers
    PROVE  JobType(l)'
  <1>1. JobType(l) /\ DOMAIN job = Closers /\ IndInv /\ Grows
    BY StepGrows DEF CloseInv, TypeOK, ChargedInv, JobType, IndInv, Shapes
  <1>2. job'[l] = job[l] => JobType(l)'
    BY <1>1 DEF JobType, HasContracts
  <1>3. ASSUME NEW k \in Closers, Works(k)
        PROVE  JobType(l)'
    BY <1>1, <1>2, <1>3, WorkInHand, WorkTyped
  <1>4. ASSUME NEW k \in Closers, GivesUp(k)
        PROVE  JobType(l)'
    <2>1. CASE l = k
      BY <1>1, <1>4, <2>1, CallTyped DEF GivesUp, Doomed, JobType
    <2> QED
      BY <1>1, <1>2, <1>4, <2>1 DEF GivesUp
  <1>5. ASSUME NEW k \in Closers, Leaves(k)
        PROVE  JobType(l)'
    <2>1. CASE l = k
      BY <1>1, <1>5, <2>1, CallTyped DEF Leaves, Free
    <2> QED
      BY <1>1, <1>2, <1>5, <2>1 DEF Leaves
  <1>6. ASSUME NEW k \in Closers, NEW s \in Scopes, Claims(k, s)
        PROVE  JobType(l)'
    <2>1. CASE l = k
      BY <1>1, <1>6, <2>1, CallTyped DEF Claims, ClaimRun
    <2> QED
      BY <1>1, <1>2, <1>6, <2>1 DEF Claims, ClaimRun
  <1> QED
    BY <1>1, <1>2, <1>3, <1>4, <1>5, <1>6, StepKinds

(* The invariant with types and charges is inductive. *)
LEMMA StepCloseInv ==
    ASSUME CloseInv, [Next]_vars
    PROVE  CloseInv'
  <1>1. IndInv' /\ Shapes'
    BY StepInvariant DEF CloseInv, IndInv
  <1>2. \A k \in Closers : JobType(k)'
    BY JobsTyped
  <1>3. TypeOK'
    BY <1>1, <1>2, TablesTyped, ContractsTyped, FaultsTyped DEF TypeOK, JobType, Shapes
  <1>4. ChargedInv'
    BY <1>2, TablesTyped DEF ChargedInv, JobType
  <1> QED
    BY <1>1, <1>3, <1>4 DEF CloseInv

(* It holds at first. *)
LEMMA InitCloseInv ==
    ASSUME Init
    PROVE  CloseInv
  <1>1. IndInv
    BY InitInvariant
  <1>2. DOMAIN Nothing = {} /\ AreSnapshots(Nothing)
    BY DEF Nothing, AreSnapshots
  <1>3. contract \in ContractTable
    BY MonthlyCloseAssumption DEF Init, ContractTable
  <1>4. \A k \in Closers : JobType(k)
    BY <1>2 DEF Init, Free, Call, JobType, HasContracts
  <1>5. faults \in 0 .. MaxFaults /\ edits \in 0 .. MaxEdits
    BY MonthlyCloseAssumption DEF Init
  <1>6. TypeOK
    BY <1>1, <1>2, <1>3, <1>4, <1>5 DEF TypeOK, JobType, Init, IndInv, Shapes
  <1>7. ChargedInv
    BY <1>2, <1>4 DEF ChargedInv, JobType, Init
  <1> QED
    BY <1>1, <1>6, <1>7 DEF CloseInv

(* The types, and what the shares rest on: whoever is locked on a roster   *)
(* that is charged lived there with at least one head.                     *)
THEOREM CloseInvariant == Spec => []CloseInv
  <1>1. Init => CloseInv
    BY InitCloseInv
  <1>2. CloseInv /\ [Next]_vars => CloseInv'
    BY StepCloseInv
  <1> QED
    BY <1>1, <1>2, PTL DEF Spec

(* Rows of contracts, meters, snapshots, invoices, runs and calls keep     *)
(* their types.                                                            *)
THEOREM CloseTypes == Spec => []TypeOK
  <1>1. CloseInv => TypeOK
    BY DEF CloseInv
  <1> QED
    BY <1>1, CloseInvariant, PTL

(* The shares of a locked snapshot are dealt out by the rule, so they add  *)
(* up to what it charges.                                                  *)
LEMMA BillsAddUp ==
    ASSUME CloseInv
    PROVE  SharesAddUp
  <1> SUFFICES ASSUME NEW r \in DOMAIN snapshot, DOMAIN snapshot[r].heads \subseteq DOMAIN invoice
               PROVE  SumFunction([c \in DOMAIN snapshot[r].heads |-> invoice[c].power])
                        = snapshot[r].amount
    BY DEF SharesAddUp
  <1> DEFINE heads == snapshot[r].heads
             D == DOMAIN heads
             amount == snapshot[r].amount
             bills == [c \in D |-> invoice[c].power]
             shares == Share(amount, heads)
  <1>1. IsSnapshot(r, snapshot[r]) /\ Charges(snapshot[r]) /\ D # {}
    BY SnapshotTable DEF CloseInv, TypeOK, ChargedInv
  <1>2. D \subseteq In(r) /\ D \subseteq Contracts /\ heads \in [D -> 0 .. MaxMembers] /\ amount \in Nat
    BY <1>1 DEF IsSnapshot, In
  <1>3. IsFiniteSet(Contracts) /\ Contracts \subseteq Nat /\ MaxMembers \in Nat
    BY MonthlyCloseAssumption
  <1>4. IsFiniteSet(D) /\ D \subseteq Nat
    BY <1>2, <1>3, FS_Subset
  <1>5. heads \in [D -> Nat]
    BY <1>2, <1>3
  <1>6. \A c \in D : bills[c] = shares[c]
    BY <1>2 DEF In, CloseInv, IndInv, InvoicesFollowSnapshot
  <1>7. amount # 0 => heads \in [D -> Nat \ {0}]
    BY <1>1, <1>5 DEF Charges
  <1>8. DOMAIN bills = D
    OBVIOUS
  <1> HIDE DEF D, heads, amount, bills
  <1>9. Sum(shares, D) = amount
    <2>1. CASE amount = 0
      BY <1>4, <1>5, <2>1, SharesOfNothing
    <2>2. CASE amount # 0
      BY <1>1, <1>2, <1>4, <1>7, <2>2, SharesOfHeads
    <2> QED
      BY <2>1, <2>2
  <1>10. \A c \in D : shares[c] \in Int
    <2> SUFFICES ASSUME NEW c \in D PROVE shares[c] \in Nat
      OBVIOUS
    <2> QED
      BY <1>2, <1>4, <1>5, ShareTyped
  <1>11. Sum(bills, D) = Sum(shares, D)
    <2> HIDE DEF shares
    <2> QED BY <1>4, <1>6, <1>10, SumSame
  <1>12. SumFunction(bills) = amount
    BY <1>8, <1>9, <1>11 DEF Sum, SumFunction
  <1> QED
    BY <1>12 DEF bills, D, heads, amount

(* The bills of a room are its usage, to the unit, whichever calls issued  *)
(* them: largest remainders give away exactly what rounding down left.     *)
THEOREM BillsAreTheUsage == Spec => []SharesAddUp
  <1> QED
    BY BillsAddUp, CloseInvariant, PTL
=============================================================================
