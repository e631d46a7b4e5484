--------------------------- MODULE DepositOutbox ---------------------------
(***************************************************************************)
(* The transactional outbox: the OutboxEvent table, the drain loop of      *)
(* DepositOutboxPublisher and every process that may run it.               *)
(*                                                                         *)
(* A dispatcher is one API replica running scheduledDrain (its `draining`  *)
(* flag makes it one sequential loop).  A caller is a request that drains  *)
(* the rows of one business operation straight after its commit; nothing   *)
(* excludes it from running beside the dispatchers.                        *)
(*                                                                         *)
(* Clock.  The code compares two time stamps with the clock: updatedAt of  *)
(* a PROCESSING row (stale after five minutes) and availableAt of a        *)
(* PENDING or FAILED row.  elapsed[e] says that the comparison of row e    *)
(* has come true; Elapse makes it true at any moment, so a live worker may *)
(* be overtaken by the five minutes just as a dead one.                    *)
(***************************************************************************)
EXTENDS Naturals, FiniteSets

CONSTANTS
    Events,       \* the rows that will ever be committed
    Dispatchers,  \* replicas that run scheduledDrain
    Callers,      \* requests that run a scoped drain
    Scopes,       \* the row sets a caller may ask for
    Limit,        \* rows one drain claims at most
    MaxAttempts,  \* claims after which a row is left alone: 10 in the code
    Gate,         \* invoice.issued rows of the invoice a payment row is about
    NeedsQr       \* payment rows whose payment request waits for its QR message

Workers == Dispatchers \cup Callers

ASSUME OutboxAssumption ==
    /\ IsFiniteSet(Dispatchers) /\ IsFiniteSet(Callers) /\ IsFiniteSet(Events)
    /\ Dispatchers \cap Callers = {}
    /\ Scopes \subseteq SUBSET Events
    /\ Limit \in Nat \ {0}
    /\ MaxAttempts \in Nat \ {0}
    /\ Gate \in [Events -> SUBSET Events]
    /\ NeedsQr \subseteq Events

VARIABLES
    status,     \* OutboxEvent.status, "ABSENT" before the producer commits
    attempts,   \* OutboxEvent.attempts
    rank,       \* position of the row in createdAt order, 0 while absent
    elapsed,    \* the time stamp the next drain looks at has passed
    qrSent,     \* metadata.zaloSentAt of the row's payment request is set
    deliveries, \* how often the row was handed to the event bus
    handled,    \* some delivery of the row succeeded
    pc,         \* where each worker stands in drain
    scope,      \* the rows a worker may touch
    todo,       \* claimed rows the worker has still to publish
    cur         \* the row whose publication has returned, as a set of at most one

rows    == <<status, attempts, rank, elapsed>>
bus     == <<deliveries, handled>>
workers == <<pc, scope, todo, cur>>
vars    == <<rows, qrSent, bus, workers>>

RowStatus == {"ABSENT", "PENDING", "PROCESSING", "PUBLISHED", "FAILED"}

TypeOK ==
    /\ status \in [Events -> RowStatus]
    /\ attempts \in [Events -> 0 .. MaxAttempts]
    /\ rank \in [Events -> Nat]
    /\ elapsed \in [Events -> BOOLEAN]
    /\ qrSent \in [Events -> BOOLEAN]
    /\ deliveries \in [Events -> Nat]
    /\ handled \in [Events -> BOOLEAN]
    /\ pc \in [Workers -> {"idle", "claim", "fetch", "publish", "mark", "fail"}]
    /\ scope \in [Workers -> SUBSET Events]
    /\ todo \in [Workers -> SUBSET Events]
    /\ cur \in [Workers -> SUBSET Events]

Init ==
    /\ status = [e \in Events |-> "ABSENT"]
    /\ attempts = [e \in Events |-> 0]
    /\ rank = [e \in Events |-> 0]
    /\ elapsed = [e \in Events |-> FALSE]
    /\ qrSent = [e \in Events |-> e \notin NeedsQr]
    /\ deliveries = [e \in Events |-> 0]
    /\ handled = [e \in Events |-> FALSE]
    /\ pc = [w \in Workers |-> "idle"]
    /\ scope = [w \in Workers |-> {}]
    /\ todo = [w \in Workers |-> {}]
    /\ cur = [w \in Workers |-> {}]

Committed == {e \in Events : status[e] # "ABSENT"}

-----------------------------------------------------------------------------
(* The surroundings of the table. *)

(* A business transaction commits its event: the row appears, due at once. *)
Commit(e) ==
    /\ status[e] = "ABSENT"
    /\ status' = [status EXCEPT ![e] = "PENDING"]
    /\ rank' = [rank EXCEPT ![e] = Cardinality(Committed) + 1]
    /\ elapsed' = [elapsed EXCEPT ![e] = TRUE]
    /\ UNCHANGED <<attempts, qrSent, bus, workers>>

(* The clock passes the row's time stamp. *)
Elapse(e) ==
    /\ status[e] \in {"PROCESSING", "FAILED"}
    /\ ~elapsed[e]
    /\ elapsed' = [elapsed EXCEPT ![e] = TRUE]
    /\ UNCHANGED <<status, attempts, rank, qrSent, bus, workers>>

(* The payment request of a payment row gets its zaloSentAt. *)
SendQr(e) ==
    /\ ~qrSent[e]
    /\ qrSent' = [qrSent EXCEPT ![e] = TRUE]
    /\ UNCHANGED <<rows, bus, workers>>

-----------------------------------------------------------------------------
(* drain, one step per statement that other workers can come between. *)

\* Mutant: only rows out of attempts are recovered.
StaleSpent(s) ==
    {e \in s : status[e] = "PROCESSING" /\ elapsed[e] /\ attempts[e] = MaxAttempts}

Stale(s) == {e \in s : status[e] = "PROCESSING" /\ elapsed[e]}

(* Recovery of the stale claims in the worker's scope. *)
Start(w, s) ==
    /\ pc[w] = "idle"
    /\ s # {}
    /\ status' = [e \in Events |-> IF e \in Stale(s) THEN "FAILED" ELSE status[e]]
    /\ pc' = [pc EXCEPT ![w] = "claim"]
    /\ scope' = [scope EXCEPT ![w] = s]
    /\ UNCHANGED <<attempts, rank, elapsed, qrSent, bus, todo, cur>>

\* Mutant: a claimed invoice row no longer holds the payment row back.
GatedUntilClaimed(e) ==
    \/ \E i \in Gate[e] : status[i] \notin {"ABSENT", "PUBLISHED", "PROCESSING"}
    \/ ~qrSent[e]

(* A payment row waits for the invoice.issued rows of its invoice and for  *)
(* its QR message.                                                         *)
Gated(e) ==
    \/ \E i \in Gate[e] : status[i] \notin {"ABSENT", "PUBLISHED"}
    \/ ~qrSent[e]

\* Mutant: no end of attempts.
ClaimableForEver(s) ==
    {e \in s : status[e] \in {"PENDING", "FAILED"} /\ elapsed[e] /\ ~Gated(e)}

\* Mutant: a failed row is not tried again.
ClaimableOnce(s) ==
    {e \in s : /\ status[e] = "PENDING" /\ elapsed[e]
               /\ attempts[e] < MaxAttempts /\ ~Gated(e)}

Claimable(s) ==
    {e \in s : /\ status[e] \in {"PENDING", "FAILED"}
               /\ elapsed[e]
               /\ attempts[e] < MaxAttempts
               /\ ~Gated(e)}

(* The oldest rows of S, no more than the limit. *)
IsBatch(ids, S) ==
    /\ ids \subseteq S
    /\ Cardinality(ids) <= Limit
    /\ ids # S => Cardinality(ids) = Limit
    /\ \A e \in ids, f \in S \ ids : rank[e] < rank[f]

\* Mutant: only a second claim counts as an attempt.
CountedRetries(ids) ==
    [e \in Events |-> IF e \in ids /\ status[e] = "FAILED" THEN attempts[e] + 1
                      ELSE attempts[e]]

Counted(ids) == [e \in Events |-> IF e \in ids THEN attempts[e] + 1 ELSE attempts[e]]

(* SELECT ... FOR UPDATE SKIP LOCKED and the update to PROCESSING are one  *)
(* transaction; without a row to claim the drain returns.                  *)
Claim(w) ==
    /\ pc[w] = "claim"
    /\ \E ids \in SUBSET Claimable(scope[w]) :
        /\ IsBatch(ids, Claimable(scope[w]))
        /\ status' = [e \in Events |-> IF e \in ids THEN "PROCESSING" ELSE status[e]]
        /\ attempts' = Counted(ids)
        /\ elapsed' = [e \in Events |-> elapsed[e] /\ e \notin ids]
        /\ todo' = [todo EXCEPT ![w] = ids]
        /\ pc' = [pc EXCEPT ![w] = IF ids = {} THEN "idle" ELSE "fetch"]
    /\ scope' = [scope EXCEPT ![w] = {}]
    /\ UNCHANGED <<rank, qrSent, bus, cur>>

(* The rows are read back outside the claiming transaction. *)
Fetch(w) ==
    LET live == {e \in todo[w] : status[e] = "PROCESSING"}
    IN  /\ pc[w] = "fetch"
        /\ todo' = [todo EXCEPT ![w] = live]
        /\ pc' = [pc EXCEPT ![w] = IF live = {} THEN "idle" ELSE "publish"]
        /\ UNCHANGED <<rows, qrSent, bus, scope, cur>>

\* Mutant: an error of a listener is swallowed.
OutcomeIgnored(ok) == "mark"

Outcome(ok) == IF ok THEN "mark" ELSE "fail"

(* The event bus runs the listeners of the oldest claimed row; they        *)
(* succeed or one of them throws.                                          *)
Publish(w) ==
    /\ pc[w] = "publish"
    /\ \E e \in todo[w], ok \in BOOLEAN :
        /\ \A f \in todo[w] : rank[e] <= rank[f]
        /\ deliveries' = [deliveries EXCEPT ![e] = @ + 1]
        /\ handled' = [handled EXCEPT ![e] = @ \/ ok]
        /\ todo' = [todo EXCEPT ![w] = @ \ {e}]
        /\ cur' = [cur EXCEPT ![w] = {e}]
        /\ pc' = [pc EXCEPT ![w] = Outcome(ok)]
    /\ UNCHANGED <<rows, qrSent, scope>>

NextRow(w) ==
    /\ cur' = [cur EXCEPT ![w] = {}]
    /\ pc' = [pc EXCEPT ![w] = IF todo[w] = {} THEN "idle" ELSE "publish"]

(* The update by id to PUBLISHED, whatever the row's status is by now. *)
MarkPublished(w) ==
    /\ pc[w] = "mark"
    /\ status' = [e \in Events |-> IF e \in cur[w] THEN "PUBLISHED" ELSE status[e]]
    /\ NextRow(w)
    /\ UNCHANGED <<attempts, rank, elapsed, qrSent, bus, scope, todo>>

(* That update is inside the try block: its failure takes the error path. *)
MarkThrows(w) ==
    /\ pc[w] = "mark"
    /\ pc' = [pc EXCEPT ![w] = "fail"]
    /\ UNCHANGED <<rows, qrSent, bus, scope, todo, cur>>

(* The update by id to FAILED with the next availableAt, also unguarded. *)
MarkFailed(w) ==
    /\ pc[w] = "fail"
    /\ status' = [e \in Events |-> IF e \in cur[w] THEN "FAILED" ELSE status[e]]
    /\ elapsed' = [e \in Events |-> elapsed[e] /\ e \notin cur[w]]
    /\ NextRow(w)
    /\ UNCHANGED <<attempts, rank, qrSent, bus, scope, todo>>

(* The process dies, or a statement outside the try block throws: the rest *)
(* of the batch stays PROCESSING.                                          *)
Crash(w) ==
    /\ pc[w] # "idle"
    /\ pc' = [pc EXCEPT ![w] = "idle"]
    /\ todo' = [todo EXCEPT ![w] = {}]
    /\ cur' = [cur EXCEPT ![w] = {}]
    /\ scope' = [scope EXCEPT ![w] = {}]
    /\ UNCHANGED <<rows, qrSent, bus>>

-----------------------------------------------------------------------------
Work(w) == Claim(w) \/ Fetch(w) \/ Publish(w) \/ MarkPublished(w) \/ MarkFailed(w)

Next ==
    \/ \E e \in Events : Commit(e) \/ Elapse(e) \/ SendQr(e)
    \/ \E w \in Dispatchers : Start(w, Events)
    \/ \E w \in Callers, s \in Scopes : Start(w, s \cap Committed)
    \/ \E w \in Workers : Work(w) \/ MarkThrows(w) \/ Crash(w)

(* Clocks pass; @Interval(1_000) keeps calling scheduledDrain, and a       *)
(* dispatcher is not killed for ever at the same statement.                *)
Fairness ==
    /\ \A e \in Events : WF_vars(Elapse(e))
    /\ \A w \in Dispatchers : /\ WF_vars(Start(w, Events))
                              /\ SF_vars(Claim(w))
                              /\ WF_vars(Work(w))
    /\ \A w \in Callers : WF_vars(Work(w))

Safety == Init /\ [][Next]_vars
Spec == Safety /\ Fairness

-----------------------------------------------------------------------------
(* Properties. *)

(* A claim gives the right to one delivery: however recovery, retries and  *)
(* late workers interleave, the listeners of a row run at most once per    *)
(* counted attempt, hence never more than MaxAttempts times.               *)
DeliveredWithinAttempts == \A e \in Events : deliveries[e] <= attempts[e]

(* A row that says PUBLISHED was handled by the listeners: no path (late   *)
(* update, recovery, crash between delivery and update) publishes on paper *)
(* only.                                                                   *)
PublishedWasHandled ==
    \A e \in Events : status[e] = "PUBLISHED" => handled[e]

(* A customer never gets a payment confirmation for an invoice that was    *)
(* not announced: when a payment row is delivered, every invoice.issued    *)
(* row of that invoice committed earlier has been handled, even if a late  *)
(* worker has put it back to FAILED since.                                 *)
ReceiptAfterInvoice ==
    \A e \in Events : deliveries[e] > 0 =>
        /\ qrSent[e]
        /\ \A i \in Gate[e] : (status[i] # "ABSENT" /\ rank[i] < rank[e]) => handled[i]

(* No row stays PROCESSING past the five minutes: a claim whose worker     *)
(* died or hangs is given back.                                            *)
ClaimsAreReleased ==
    \A e \in Events : status[e] = "PROCESSING" ~> status[e] # "PROCESSING"

(* Where a row can rest: published, out of attempts, or behind its gate. *)
Settled(e) ==
    \/ status[e] \in {"ABSENT", "PUBLISHED"}
    \/ status[e] = "FAILED" /\ attempts[e] = MaxAttempts
    \/ Gated(e)

(* Every committed row comes to rest: retries neither stop early nor go on *)
(* for ever, and a committed event is not forgotten in the table.          *)
EventuallySettled == \A e \in Events : <>[]Settled(e)

(* The table and its workers implement the consumers' view of them. *)
Promise == INSTANCE OrderedDelivery WITH
    Events <- Events, MaxAttempts <- MaxAttempts, Gate <- Gate,
    rank <- rank, deliveries <- deliveries, handled <- handled
DeliversInOrder == Promise!Spec
=============================================================================
