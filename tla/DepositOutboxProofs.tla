------------------------ MODULE DepositOutboxProofs ------------------------
(***************************************************************************)
(* The outbox for any number of rows and workers: its safety invariants    *)
(* and the proof that it implements OrderedDelivery.                       *)
(*                                                                         *)
(* None of the properties is inductive.  What makes them so is the state   *)
(* of the workers: which deliveries they still owe, what they know of the  *)
(* row they are about to mark, and that they have looked at the gate of a  *)
(* row they hold.                                                          *)
(***************************************************************************)
EXTENDS DepositOutbox, FiniteSetTheorems, TLAPS

(* Commit order: a row has a rank when it is committed, later rows rank    *)
(* higher, and no worker has claimed a row before it was committed.        *)
Ranked ==
    \A e \in Events : /\ status[e] = "ABSENT" <=> rank[e] = 0
                      /\ rank[e] <= Cardinality(Committed)
                      /\ status[e] = "ABSENT" => attempts[e] = 0

(* Workers touch committed rows only, and owe deliveries only between      *)
(* their claim and their last row.                                         *)
WorkersSane ==
    \A w \in Workers : /\ todo[w] \subseteq Committed
                       /\ cur[w] \subseteq Committed
                       /\ pc[w] \in {"idle", "claim"} => todo[w] = {}

Owing(e) == {w \in Workers : e \in todo[w]}

(* Every delivery made or still owed has been counted as an attempt. *)
ClaimsCounted ==
    \A e \in Events : deliveries[e] + Cardinality(Owing(e)) <= attempts[e]

(* A worker about to mark a row PUBLISHED has seen it handled. *)
MarksHandled ==
    \A w \in Workers : pc[w] = "mark" => \A e \in cur[w] : handled[e]

(* What ReceiptAfterInvoice says of a delivered row. *)
InOrder(e) ==
    /\ qrSent[e]
    /\ \A i \in Gate[e] : (status[i] # "ABSENT" /\ rank[i] < rank[e]) => handled[i]

ClaimedInOrder == \A w \in Workers : \A e \in todo[w] : InOrder(e)

IndInv ==
    /\ TypeOK /\ Ranked /\ WorkersSane /\ ClaimsCounted
    /\ MarksHandled /\ PublishedWasHandled
    /\ ClaimedInOrder /\ ReceiptAfterInvoice

-----------------------------------------------------------------------------
(* The finite sets counted above. *)

LEMMA CommittedFinite ==
    /\ IsFiniteSet(Committed) /\ Cardinality(Committed) \in Nat
    /\ IsFiniteSet(Committed') /\ Cardinality(Committed)' \in Nat
  <1>1. Committed \subseteq Events /\ Committed' \subseteq Events
    BY DEF Committed
  <1> QED
    BY <1>1, OutboxAssumption, FS_Subset, FS_CardinalityType

(* A worker owes finitely many deliveries. *)
LEMMA OwingFinite ==
    ASSUME NEW e \in Events
    PROVE  /\ IsFiniteSet(Owing(e)) /\ Cardinality(Owing(e)) \in Nat
           /\ IsFiniteSet(Owing(e)') /\ Cardinality(Owing(e))' \in Nat
  <1>1. IsFiniteSet(Workers)
    BY OutboxAssumption, FS_Union DEF Workers
  <1>2. Owing(e) \subseteq Workers /\ Owing(e)' \subseteq Workers
    BY DEF Owing
  <1> QED
    BY <1>1, <1>2, FS_Subset, FS_CardinalityType

(* A worker that gives deliveries back, or keeps what it had, keeps the    *)
(* counts within the attempts.                                             *)
LEMMA OwingLess ==
    ASSUME NEW e \in Events, \A w \in Workers : todo'[w] \subseteq todo[w]
    PROVE  Cardinality(Owing(e))' <= Cardinality(Owing(e))
  <1>1. Owing(e)' \subseteq Owing(e)
    BY DEF Owing
  <1> QED
    BY <1>1, OwingFinite, FS_Subset

-----------------------------------------------------------------------------
(* What a step does to the commit order. *)

(* Statuses of committed rows may change, but no row appears or goes. *)
LEMMA SameCommitted ==
    ASSUME Ranked, UNCHANGED <<rank, attempts>>,
           \A e \in Events : status[e] = "ABSENT" <=> status'[e] = "ABSENT"
    PROVE  Ranked' /\ Committed' = Committed
  <1>1. Committed' = Committed
    BY DEF Committed
  <1> QED
    BY <1>1 DEF Ranked
-----------------------------------------------------------------------------
(* One lemma per action. *)

LEMMA InitInv == Init => IndInv
  <1> SUFFICES ASSUME Init PROVE IndInv
    OBVIOUS
  <1>1. Committed = {} /\ \A e \in Events : Owing(e) = {}
    BY DEF Init, Committed, Owing
  <1>2. TypeOK
    BY OutboxAssumption DEF Init, TypeOK, RowStatus
  <1>3. Ranked /\ ClaimsCounted
    BY <1>1, FS_EmptySet DEF Init, Ranked, ClaimsCounted
  <1> QED
    BY <1>1, <1>2, <1>3 DEF Init, IndInv, WorkersSane, MarksHandled,
        PublishedWasHandled, ClaimedInOrder, ReceiptAfterInvoice

(* A new row ranks after all the others, so no gate looks at it. *)
LEMMA CommitInv ==
    ASSUME IndInv, NEW e \in Events, Commit(e)
    PROVE  IndInv'
  <1> USE DEF IndInv, Commit, rows, bus, workers
  <1>1. TypeOK'
    BY CommittedFinite DEF TypeOK, RowStatus
  <1>2. Committed' = Committed \cup {e} /\ e \notin Committed
    BY DEF Committed, TypeOK
  <1>3. Cardinality(Committed') = Cardinality(Committed) + 1
    BY <1>2, CommittedFinite, FS_AddElement
  <1>4. Ranked'
    BY <1>3, CommittedFinite DEF Ranked, TypeOK
  <1>5. WorkersSane'
    BY <1>2 DEF WorkersSane
  <1>6. ClaimsCounted'
    BY DEF ClaimsCounted, Owing
  <1>7. MarksHandled' /\ PublishedWasHandled'
    BY DEF MarksHandled, PublishedWasHandled, TypeOK
  <1>8. \A f \in Committed : InOrder(f) => InOrder(f)'
    <2> SUFFICES ASSUME NEW f \in Committed, InOrder(f), NEW i \in Gate[f],
                        status'[i] # "ABSENT", rank'[i] < rank'[f]
                 PROVE  handled'[i]
      BY DEF InOrder
    <2>1. f \in Events /\ i \in Events /\ f # e
      BY OutboxAssumption DEF Committed
    <2>2. rank'[f] = rank[f] /\ rank[f] <= Cardinality(Committed)
      BY <2>1 DEF Ranked, TypeOK
    <2>3. i # e
      BY <2>1, <2>2, CommittedFinite DEF TypeOK
    <2> QED
      BY <2>1, <2>2, <2>3 DEF InOrder, TypeOK
  <1>9. ClaimedInOrder'
    BY <1>8 DEF ClaimedInOrder, WorkersSane
  <1>10. ReceiptAfterInvoice'
    <2> SUFFICES ASSUME NEW f \in Events, deliveries[f] > 0 PROVE InOrder(f)'
      BY DEF ReceiptAfterInvoice, InOrder
    <2>1. InOrder(f)
      BY DEF ReceiptAfterInvoice, InOrder
    <2>2. attempts[f] > 0
      BY OwingFinite DEF ClaimsCounted, TypeOK
    <2>3. f \in Committed
      BY <2>2 DEF Ranked, Committed, TypeOK
    <2> QED
      BY <1>8, <2>1, <2>3
  <1> QED
    BY <1>1, <1>4, <1>5, <1>6, <1>7, <1>9, <1>10

(* What a worker or the surroundings may do without delivering or claiming *)
(* anything: statuses of committed rows change, QR messages are sent, and  *)
(* claimed rows are given back.                                            *)
LEMMA QuietStep ==
    ASSUME IndInv, TypeOK',
           UNCHANGED <<rank, attempts, deliveries, handled>>,
           \A e \in Events : status[e] = "ABSENT" <=> status'[e] = "ABSENT",
           \A e \in Events : qrSent[e] => qrSent'[e],
           \A w \in Workers : todo'[w] \subseteq todo[w]
    PROVE  /\ Ranked' /\ Committed' = Committed
           /\ ClaimsCounted' /\ ClaimedInOrder' /\ ReceiptAfterInvoice'
  <1> USE DEF IndInv
  <1>1. Ranked' /\ Committed' = Committed
    BY SameCommitted
  <1>2. ClaimsCounted'
    <2> SUFFICES ASSUME NEW e \in Events
                 PROVE  deliveries[e] + Cardinality(Owing(e))' <= attempts[e]
      BY DEF ClaimsCounted
    <2>1. deliveries[e] + Cardinality(Owing(e)) <= attempts[e]
      BY DEF ClaimsCounted
    <2>2. deliveries[e] \in Nat /\ attempts[e] \in Nat
      BY OutboxAssumption DEF TypeOK
    <2> QED
      BY <2>1, <2>2, OwingFinite, OwingLess
  <1>3. \A e \in Events : InOrder(e) => InOrder(e)'
    BY OutboxAssumption DEF InOrder
  <1>4. ClaimedInOrder'
    BY <1>3 DEF ClaimedInOrder, TypeOK
  <1>5. ReceiptAfterInvoice'
    BY <1>3 DEF ReceiptAfterInvoice, InOrder
  <1> QED
    BY <1>1, <1>2, <1>4, <1>5

(* The invariant, action by action. *)
LEMMA ElapseInv ==
    ASSUME IndInv, NEW e \in Events, Elapse(e)
    PROVE  IndInv'
  <1> USE DEF IndInv, Elapse, rows, bus, workers
  <1>1. TypeOK'
    BY DEF TypeOK
  <1>2. Ranked' /\ Committed' = Committed /\ ClaimsCounted' /\ ClaimedInOrder'
        /\ ReceiptAfterInvoice'
    BY <1>1, QuietStep
  <1> QED
    BY <1>1, <1>2 DEF WorkersSane, MarksHandled, PublishedWasHandled

LEMMA SendQrInv ==
    ASSUME IndInv, NEW e \in Events, SendQr(e)
    PROVE  IndInv'
  <1> USE DEF IndInv, SendQr, rows, bus, workers
  <1>1. TypeOK'
    BY DEF TypeOK
  <1>2. \A f \in Events : qrSent[f] => qrSent'[f]
    BY DEF TypeOK
  <1>3. Ranked' /\ Committed' = Committed /\ ClaimsCounted' /\ ClaimedInOrder'
        /\ ReceiptAfterInvoice'
    BY <1>1, <1>2, QuietStep
  <1> QED
    BY <1>1, <1>3 DEF WorkersSane, MarksHandled, PublishedWasHandled

LEMMA StartInv ==
    ASSUME IndInv, NEW w \in Workers, NEW s \in SUBSET Events, Start(w, s)
    PROVE  IndInv'
  <1> USE DEF IndInv, Start, rows, bus, workers
  <1>1. TypeOK'
    BY DEF TypeOK, RowStatus
  <1>2. \A e \in Events : status[e] = "ABSENT" <=> status'[e] = "ABSENT"
    BY DEF Stale
  <1>3. Ranked' /\ Committed' = Committed /\ ClaimsCounted' /\ ClaimedInOrder'
        /\ ReceiptAfterInvoice'
    BY <1>1, <1>2, QuietStep
  <1>4. WorkersSane' /\ MarksHandled'
    BY <1>3 DEF WorkersSane, MarksHandled, TypeOK
  <1>5. PublishedWasHandled'
    BY DEF PublishedWasHandled
  <1> QED
    BY <1>1, <1>3, <1>4, <1>5

LEMMA FetchInv ==
    ASSUME IndInv, NEW w \in Workers, Fetch(w)
    PROVE  IndInv'
  <1> USE DEF IndInv, Fetch, rows, bus, workers
  <1>1. TypeOK'
    BY DEF TypeOK
  <1>2. \A v \in Workers : todo'[v] \subseteq todo[v]
    BY DEF TypeOK
  <1>3. Ranked' /\ Committed' = Committed /\ ClaimsCounted' /\ ClaimedInOrder'
        /\ ReceiptAfterInvoice'
    BY <1>1, <1>2, QuietStep
  <1>4. WorkersSane' /\ MarksHandled' /\ PublishedWasHandled'
    BY <1>2, <1>3 DEF WorkersSane, MarksHandled, PublishedWasHandled, TypeOK
  <1> QED
    BY <1>1, <1>3, <1>4

LEMMA MarkPublishedInv ==
    ASSUME IndInv, NEW w \in Workers, MarkPublished(w)
    PROVE  IndInv'
  <1> USE DEF IndInv, MarkPublished, NextRow, rows, bus, workers
  <1>1. TypeOK'
    BY DEF TypeOK, RowStatus
  <1>2. \A e \in Events : status[e] = "ABSENT" <=> status'[e] = "ABSENT"
    BY DEF WorkersSane, Committed
  <1>3. Ranked' /\ Committed' = Committed /\ ClaimsCounted' /\ ClaimedInOrder'
        /\ ReceiptAfterInvoice'
    BY <1>1, <1>2, QuietStep
  <1>4. WorkersSane' /\ MarksHandled'
    BY <1>3 DEF WorkersSane, MarksHandled, TypeOK
  <1>5. PublishedWasHandled'
    BY DEF PublishedWasHandled, MarksHandled
  <1> QED
    BY <1>1, <1>3, <1>4, <1>5

LEMMA MarkThrowsInv ==
    ASSUME IndInv, NEW w \in Workers, MarkThrows(w)
    PROVE  IndInv'
  <1> USE DEF IndInv, MarkThrows, rows, bus, workers
  <1>1. TypeOK'
    BY DEF TypeOK
  <1>2. Ranked' /\ Committed' = Committed /\ ClaimsCounted' /\ ClaimedInOrder'
        /\ ReceiptAfterInvoice'
    BY <1>1, QuietStep
  <1>3. WorkersSane' /\ MarksHandled' /\ PublishedWasHandled'
    BY <1>2 DEF WorkersSane, MarksHandled, PublishedWasHandled, TypeOK
  <1> QED
    BY <1>1, <1>2, <1>3

LEMMA MarkFailedInv ==
    ASSUME IndInv, NEW w \in Workers, MarkFailed(w)
    PROVE  IndInv'
  <1> USE DEF IndInv, MarkFailed, NextRow, rows, bus, workers
  <1>1. TypeOK'
    BY DEF TypeOK, RowStatus
  <1>2. \A e \in Events : status[e] = "ABSENT" <=> status'[e] = "ABSENT"
    BY DEF WorkersSane, Committed
  <1>3. Ranked' /\ Committed' = Committed /\ ClaimsCounted' /\ ClaimedInOrder'
        /\ ReceiptAfterInvoice'
    BY <1>1, <1>2, QuietStep
  <1>4. WorkersSane' /\ MarksHandled' /\ PublishedWasHandled'
    BY <1>3 DEF WorkersSane, MarksHandled, PublishedWasHandled, TypeOK
  <1> QED
    BY <1>1, <1>3, <1>4

LEMMA CrashInv ==
    ASSUME IndInv, NEW w \in Workers, Crash(w)
    PROVE  IndInv'
  <1> USE DEF IndInv, Crash, rows, bus, workers
  <1>1. TypeOK'
    BY DEF TypeOK
  <1>2. \A v \in Workers : todo'[v] \subseteq todo[v]
    BY DEF TypeOK
  <1>3. Ranked' /\ Committed' = Committed /\ ClaimsCounted' /\ ClaimedInOrder'
        /\ ReceiptAfterInvoice'
    BY <1>1, <1>2, QuietStep
  <1>4. WorkersSane' /\ MarksHandled' /\ PublishedWasHandled'
    BY <1>2, <1>3 DEF WorkersSane, MarksHandled, PublishedWasHandled, TypeOK
  <1> QED
    BY <1>1, <1>3, <1>4

(* A claim counts an attempt for each row it takes, and looks at the gate. *)
LEMMA ClaimInv ==
    ASSUME IndInv, NEW w \in Workers, Claim(w)
    PROVE  IndInv'
  <1> USE DEF IndInv, rows, bus, workers
  <1>1. PICK ids \in SUBSET Claimable(scope[w]) :
            /\ status' = [e \in Events |-> IF e \in ids THEN "PROCESSING" ELSE status[e]]
            /\ attempts' = Counted(ids)
            /\ elapsed' = [e \in Events |-> elapsed[e] /\ e \notin ids]
            /\ todo' = [todo EXCEPT ![w] = ids]
            /\ pc' = [pc EXCEPT ![w] = IF ids = {} THEN "idle" ELSE "fetch"]
    BY DEF Claim
  <1>2. /\ pc[w] = "claim" /\ todo[w] = {}
        /\ scope' = [scope EXCEPT ![w] = {}]
        /\ UNCHANGED <<rank, qrSent, deliveries, handled, cur>>
    BY DEF Claim, WorkersSane
  <1>3. /\ ids \subseteq Events
        /\ \A e \in ids : /\ status[e] \in {"PENDING", "FAILED"}
                          /\ attempts[e] < MaxAttempts
                          /\ ~Gated(e)
    BY <1>1 DEF Claimable, TypeOK
  <1>4. TypeOK'
    <2>1. attempts' \in [Events -> 0 .. MaxAttempts]
      BY <1>1, <1>3, OutboxAssumption DEF TypeOK, Counted
    <2> QED
      BY <1>1, <1>2, <1>3, <2>1 DEF TypeOK, RowStatus
  <1>5. Committed' = Committed /\ ids \subseteq Committed
    BY <1>1, <1>3 DEF Committed
  <1>6. Ranked'
    BY <1>1, <1>2, <1>3, <1>5 DEF Ranked, Counted
  <1>7. WorkersSane' /\ MarksHandled'
    BY <1>1, <1>2, <1>5 DEF WorkersSane, MarksHandled, TypeOK
  <1>8. ClaimsCounted'
    <2> SUFFICES ASSUME NEW e \in Events
                 PROVE  deliveries[e] + Cardinality(Owing(e))' <= attempts'[e]
      BY <1>2 DEF ClaimsCounted
    <2>1. deliveries[e] \in Nat /\ attempts[e] \in Nat
      BY OutboxAssumption DEF TypeOK
    <2>2. deliveries[e] + Cardinality(Owing(e)) <= attempts[e]
      BY DEF ClaimsCounted
    <2>3. CASE e \in ids
      <3>1. Owing(e)' = Owing(e) \cup {w} /\ w \notin Owing(e)
        BY <1>1, <1>2, <2>3 DEF Owing, TypeOK
      <3>2. Cardinality(Owing(e))' = Cardinality(Owing(e)) + 1
        BY <3>1, OwingFinite, FS_AddElement
      <3>3. attempts'[e] = attempts[e] + 1
        BY <1>1, <2>3 DEF Counted
      <3> QED
        BY <2>1, <2>2, <3>2, <3>3, OwingFinite
    <2>4. CASE e \notin ids
      <3>1. Owing(e)' = Owing(e)
        BY <1>1, <1>2, <2>4 DEF Owing, TypeOK
      <3> QED
        BY <1>1, <2>2, <2>4, <3>1 DEF Counted
    <2> QED
      BY <2>3, <2>4
  <1>9. PublishedWasHandled'
    BY <1>1, <1>2 DEF PublishedWasHandled
  <1>10. \A e \in Events : InOrder(e) => InOrder(e)'
    BY <1>1, <1>2, <1>3, OutboxAssumption DEF InOrder
  <1>11. \A e \in ids : InOrder(e)
    BY <1>3, OutboxAssumption DEF InOrder, Gated, PublishedWasHandled
  <1>12. ClaimedInOrder'
    BY <1>1, <1>2, <1>3, <1>10, <1>11 DEF ClaimedInOrder, TypeOK
  <1>13. ReceiptAfterInvoice'
    BY <1>2, <1>10 DEF ReceiptAfterInvoice, InOrder
  <1> QED
    BY <1>4, <1>6, <1>7, <1>8, <1>9, <1>12, <1>13

(* A delivery moves one row from what is owed to what is delivered. *)
LEMMA PublishInv ==
    ASSUME IndInv, NEW w \in Workers, Publish(w)
    PROVE  IndInv'
  <1> USE DEF IndInv, rows, bus, workers
  <1>1. PICK e \in todo[w], ok \in BOOLEAN :
            /\ deliveries' = [deliveries EXCEPT ![e] = @ + 1]
            /\ handled' = [handled EXCEPT ![e] = @ \/ ok]
            /\ todo' = [todo EXCEPT ![w] = @ \ {e}]
            /\ cur' = [cur EXCEPT ![w] = {e}]
            /\ pc' = [pc EXCEPT ![w] = Outcome(ok)]
    BY DEF Publish
  <1>2. pc[w] = "publish" /\ UNCHANGED <<status, attempts, rank, elapsed, qrSent, scope>>
    BY DEF Publish
  <1>3. e \in Events /\ e \in Committed
    BY DEF TypeOK, WorkersSane
  <1>4. TypeOK'
    BY <1>1, <1>2, <1>3 DEF TypeOK, Outcome
  <1>5. Committed' = Committed /\ Ranked'
    BY <1>2, SameCommitted
  <1>6. \A f \in Events : handled[f] => handled'[f]
    BY <1>1, <1>3 DEF TypeOK
  <1>7. WorkersSane'
    BY <1>1, <1>2, <1>3, <1>5 DEF WorkersSane, TypeOK, Outcome
  <1>8. MarksHandled'
    <2> SUFFICES ASSUME NEW v \in Workers, pc'[v] = "mark", NEW f \in cur'[v]
                 PROVE  handled'[f]
      BY DEF MarksHandled
    <2>1. CASE v = w
      BY <1>1, <1>3, <2>1 DEF TypeOK, Outcome
    <2>2. CASE v # w
      BY <1>1, <1>6, <2>2 DEF MarksHandled, TypeOK
    <2> QED
      BY <2>1, <2>2
  <1>9. ClaimsCounted'
    <2> SUFFICES ASSUME NEW f \in Events
                 PROVE  deliveries'[f] + Cardinality(Owing(f))' <= attempts[f]
      BY <1>2 DEF ClaimsCounted
    <2>1. deliveries[f] \in Nat /\ attempts[f] \in Nat
      BY OutboxAssumption DEF TypeOK
    <2>2. deliveries[f] + Cardinality(Owing(f)) <= attempts[f]
      BY DEF ClaimsCounted
    <2>3. CASE f = e
      <3>1. Owing(f)' = Owing(f) \ {w} /\ w \in Owing(f)
        BY <1>1, <2>3 DEF Owing, TypeOK
      <3>2. Cardinality(Owing(f))' = Cardinality(Owing(f)) - 1
        BY <3>1, OwingFinite, FS_RemoveElement
      <3>3. deliveries'[f] = deliveries[f] + 1
        BY <1>1, <2>3 DEF TypeOK
      <3> QED
        BY <2>1, <2>2, <3>2, <3>3, OwingFinite
    <2>4. CASE f # e
      <3>1. Owing(f)' = Owing(f)
        BY <1>1, <2>4 DEF Owing, TypeOK
      <3>2. deliveries'[f] = deliveries[f]
        BY <1>1, <2>4 DEF TypeOK
      <3> QED
        BY <2>2, <3>1, <3>2
    <2> QED
      BY <2>3, <2>4
  <1>10. PublishedWasHandled'
    BY <1>2, <1>6 DEF PublishedWasHandled
  <1>11. \A f \in Events : InOrder(f) => InOrder(f)'
    BY <1>2, <1>6, OutboxAssumption DEF InOrder
  <1>12. ClaimedInOrder'
    BY <1>1, <1>11 DEF ClaimedInOrder, TypeOK
  <1>13. ReceiptAfterInvoice'
    <2> SUFFICES ASSUME NEW f \in Events, deliveries'[f] > 0 PROVE InOrder(f)'
      BY DEF ReceiptAfterInvoice, InOrder
    <2>1. CASE f = e
      BY <1>3, <1>11, <2>1 DEF ClaimedInOrder
    <2>2. CASE f # e
      BY <1>1, <1>11, <2>2 DEF ReceiptAfterInvoice, InOrder, TypeOK
    <2> QED
      BY <2>1, <2>2
  <1> QED
    BY <1>4, <1>5, <1>7, <1>8, <1>9, <1>10, <1>12, <1>13

(* Every step keeps the invariant. *)
LEMMA StepInv == IndInv /\ [Next]_vars => IndInv'
  <1> SUFFICES ASSUME IndInv, [Next]_vars PROVE IndInv'
    OBVIOUS
  <1>1. CASE \E e \in Events : Commit(e) \/ Elapse(e) \/ SendQr(e)
    BY <1>1, CommitInv, ElapseInv, SendQrInv
  <1>2. CASE \E w \in Dispatchers : Start(w, Events)
    BY <1>2, StartInv DEF Workers
  <1>3. CASE \E w \in Callers, s \in Scopes : Start(w, s \cap Committed)
    BY <1>3, StartInv DEF Workers, Committed
  <1>4. CASE \E w \in Workers : Work(w) \/ MarkThrows(w) \/ Crash(w)
    BY <1>4, ClaimInv, FetchInv, PublishInv, MarkPublishedInv, MarkFailedInv,
       MarkThrowsInv, CrashInv DEF Work
  <1>5. CASE UNCHANGED vars
    <2>1. UNCHANGED <<status, attempts, rank, elapsed, qrSent, deliveries, handled,
                      pc, scope, todo, cur>>
      BY <1>5 DEF vars, rows, bus, workers
    <2>2. TypeOK' /\ WorkersSane' /\ MarksHandled' /\ PublishedWasHandled'
      BY <2>1 DEF IndInv, TypeOK, WorkersSane, Committed, MarksHandled, PublishedWasHandled
    <2>3. Ranked' /\ ClaimsCounted' /\ ClaimedInOrder' /\ ReceiptAfterInvoice'
      BY <2>1, <2>2, QuietStep
    <2> QED
      BY <2>2, <2>3 DEF IndInv
  <1> QED
    BY <1>1, <1>2, <1>3, <1>4, <1>5 DEF Next

-----------------------------------------------------------------------------
(* The results. *)

(* The invariant the others follow from holds in every reachable state of  *)
(* the table and its workers.                                              *)
THEOREM OutboxInvariant == Safety => []IndInv
  BY InitInv, StepInv, PTL DEF Safety

(* Every variable keeps its type; above all no row is claimed more than    *)
(* MaxAttempts times, whatever dispatchers, callers and crashes do.        *)
THEOREM OutboxTypes == Safety => []TypeOK
  <1>1. IndInv => TypeOK
    BY DEF IndInv
  <1> QED
    BY <1>1, OutboxInvariant, PTL

(* For any number of workers, the listeners of a row run at most once per  *)
(* counted attempt.                                                        *)
THEOREM AttemptsBoundDeliveries == Safety => []DeliveredWithinAttempts
  <1>1. IndInv => DeliveredWithinAttempts
    <2> SUFFICES ASSUME IndInv, NEW e \in Events PROVE deliveries[e] <= attempts[e]
      BY DEF DeliveredWithinAttempts
    <2>1. deliveries[e] \in Nat /\ attempts[e] \in Nat
      BY OutboxAssumption DEF IndInv, TypeOK
    <2> QED
      BY <2>1, OwingFinite DEF IndInv, ClaimsCounted
  <1> QED
    BY <1>1, OutboxInvariant, PTL

(* No interleaving of late workers, recovery and crashes marks a row       *)
(* PUBLISHED that its listeners have not handled.                          *)
THEOREM NothingPublishedOnPaper == Safety => []PublishedWasHandled
  <1>1. IndInv => PublishedWasHandled
    BY DEF IndInv
  <1> QED
    BY <1>1, OutboxInvariant, PTL

(* A payment confirmation never overtakes the announcement of its invoice  *)
(* that was committed before it.                                           *)
THEOREM ReceiptFollowsInvoice == Safety => []ReceiptAfterInvoice
  <1>1. IndInv => ReceiptAfterInvoice
    BY DEF IndInv
  <1> QED
    BY <1>1, OutboxInvariant, PTL

(* The outbox implements the promise to its consumers: each step of the    *)
(* table and its workers commits one event, delivers one event within its  *)
(* attempts and in order, or is not visible to them.                       *)
THEOREM OutboxImplementsPromise == Safety => DeliversInOrder
  <1>1. Init => Promise!Init
    BY DEF Init, Promise!Init
  <1>2. IndInv /\ [Next]_vars => [Promise!Next]_Promise!dvars
    <2> SUFFICES ASSUME IndInv, [Next]_vars PROVE [Promise!Next]_Promise!dvars
      OBVIOUS
    <2> USE DEF IndInv, rows, bus, workers
    <2>1. ASSUME NEW e \in Events, Commit(e) PROVE Promise!Commit(e)
      <3> DEFINE r == Cardinality(Committed) + 1
      <3>1. r \in Nat /\ \A f \in Events : rank[f] < r
        BY CommittedFinite DEF Ranked, TypeOK
      <3>2. rank[e] = 0 /\ rank' = [rank EXCEPT ![e] = r]
            /\ UNCHANGED <<deliveries, handled>>
        BY <2>1 DEF Commit, Ranked
      <3>3. rank'[e] = r
        BY <3>2 DEF TypeOK
      <3> QED
        BY <3>1, <3>2, <3>3 DEF Promise!Commit
    <2>2. ASSUME NEW w \in Workers, Publish(w)
          PROVE  \E e \in Events, ok \in BOOLEAN : Promise!Deliver(e, ok)
      <3>1. PICK e \in todo[w], ok \in BOOLEAN :
                /\ deliveries' = [deliveries EXCEPT ![e] = @ + 1]
                /\ handled' = [handled EXCEPT ![e] = @ \/ ok]
                /\ todo' = [todo EXCEPT ![w] = @ \ {e}]
        BY <2>2 DEF Publish
      <3>2. UNCHANGED <<rank, attempts>>
        BY <2>2 DEF Publish
      <3>3. e \in Events /\ rank[e] > 0
        <4>1. e \in Events /\ status[e] # "ABSENT"
          BY DEF WorkersSane, Committed
        <4>2. rank[e] \in Nat /\ rank[e] # 0
          BY <4>1 DEF TypeOK, Ranked
        <4> QED
          BY <4>1, <4>2
      <3>4. deliveries'[e] <= attempts'[e]
        <4>1. ClaimsCounted' /\ TypeOK'
          BY <2>2, PublishInv
        <4>2. deliveries'[e] \in Nat /\ attempts'[e] \in Nat
          BY <3>3, <4>1, OutboxAssumption DEF TypeOK
        <4> QED
          BY <3>3, <4>1, <4>2, OwingFinite DEF ClaimsCounted
      <3>5. deliveries[e] < MaxAttempts
        BY <3>1, <3>2, <3>3, <3>4, OutboxAssumption DEF TypeOK
      <3>6. \A i \in Gate[e] : 0 < rank[i] /\ rank[i] < rank[e] => handled[i]
        <4>1. InOrder(e)
          BY <3>3 DEF ClaimedInOrder
        <4>2. \A i \in Events : 0 < rank[i] => status[i] # "ABSENT"
          BY DEF Ranked, TypeOK
        <4> QED
          BY <3>3, <4>1, <4>2, OutboxAssumption DEF InOrder
      <3>7. Promise!Deliver(e, ok)
        BY <3>1, <3>2, <3>3, <3>5, <3>6 DEF Promise!Deliver
      <3> QED
        BY <3>3, <3>7
    <2>3. ASSUME UNCHANGED <<rank, deliveries, handled>>
          PROVE  UNCHANGED Promise!dvars
      BY <2>3 DEF Promise!dvars
    <2>4. CASE \E e \in Events : Commit(e)
      BY <2>1, <2>4 DEF Promise!Next
    <2>5. CASE \E e \in Events : Elapse(e) \/ SendQr(e)
      BY <2>3, <2>5 DEF Elapse, SendQr
    <2>6. CASE \E w \in Workers, s \in SUBSET Events : Start(w, s)
      BY <2>3, <2>6 DEF Start
    <2>7. CASE \E w \in Workers : Publish(w)
      BY <2>2, <2>7 DEF Promise!Next
    <2>8. CASE \E w \in Workers : \/ Claim(w) \/ Fetch(w) \/ MarkPublished(w)
                                  \/ MarkThrows(w) \/ MarkFailed(w) \/ Crash(w)
      BY <2>3, <2>8 DEF Claim, Fetch, MarkPublished, MarkThrows, MarkFailed, Crash
    <2>9. CASE UNCHANGED vars
      BY <2>3, <2>9 DEF vars
    <2>10. (\E w \in Dispatchers : Start(w, Events))
              \/ (\E w \in Callers, s \in Scopes : Start(w, s \cap Committed))
           => \E w \in Workers, s \in SUBSET Events : Start(w, s)
      BY DEF Workers, Committed
    <2> QED
      BY <2>4, <2>5, <2>6, <2>7, <2>8, <2>9, <2>10 DEF Next, Work
  <1> QED
    BY <1>1, <1>2, OutboxInvariant, PTL DEF Safety, DeliversInOrder, Promise!Spec
=============================================================================
