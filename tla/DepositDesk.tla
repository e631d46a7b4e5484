---------------------------- MODULE DepositDesk ----------------------------
(***************************************************************************)
(* The older cancellation endpoint, POST /deposits/:id/cancel, beside the  *)
(* command core.  It reads the deposit outside any transaction and decides *)
(* on what it read: a paid deposit goes to the command core, a DRAFT or    *)
(* PENDING one is set to CANCELLED by an update that looks at nothing.     *)
(***************************************************************************)
EXTENDS DepositCore

VARIABLE desk  \* requests between their read and their write, one at most

deskVars == <<vars, desk>>

DeskInit == Init /\ desk = {}

(* A PENDING booking hold of the newer kind is refused. *)
ReadForCancel(d) ==
    /\ desk = {}
    /\ deposit[d].status \in {"DRAFT", "PENDING", "PAID"}
    /\ ~(deposit[d].status = "PENDING" /\ Booked(d))
    /\ desk' = {[deposit |-> d, status |-> deposit[d].status, balance |-> balance[d]]}
    /\ UNCHANGED vars

(* The amounts the endpoint computes for the core from one action and one  *)
(* amount: what the amount leaves over is refunded, or kept if the action  *)
(* is a refund.                                                            *)
Resolution(action, amount, funds) ==
    LET rest == funds - amount
    IN  [refund |-> IF action = "REFUND" THEN amount ELSE rest,
         keep   |-> CASE action = "KEEP"   -> amount
                      [] action = "REFUND" -> rest
                      [] action = "DEDUCT" -> 0,
         deduct |-> IF action = "DEDUCT" THEN amount ELSE 0]

CancelPaid(k, action, amount, receipt) ==
    \E request \in desk :
        LET r == Resolution(action, amount, request.balance)
        IN  /\ request.status = "PAID"
            /\ 0 < amount /\ amount <= deposit[request.deposit].amount
            /\ amount <= request.balance
            /\ Cancel(k, request.deposit, r.refund, r.keep, r.deduct, receipt)
            /\ desk' = {}

CancelUnpaid ==
    \E request \in desk :
        /\ request.status # "PAID"
        /\ SetStatus(request.deposit, "CANCELLED")
        /\ desk' = {}
        /\ UNCHANGED <<now, cycle, roomStatus, hold, op, balance, outbox, sweep>>

(* A request that is refused after its read. *)
GiveUp ==
    /\ desk # {}
    /\ desk' = {}
    /\ UNCHANGED vars

DeskCommand(k) ==
    \/ Command(k) /\ UNCHANGED desk
    \/ \E action \in {"REFUND", "KEEP", "DEDUCT"}, amount \in Amounts,
          receipt \in {"PENDING", "COMPLETED"} : CancelPaid(k, action, amount, receipt)

DeskUnkeyed ==
    \/ Unkeyed /\ UNCHANGED desk
    \/ \E d \in DOMAIN deposit : ReadForCancel(d)
    \/ CancelUnpaid
    \/ GiveUp

DeskNext == (\E k \in Keys : DeskCommand(k)) \/ DeskUnkeyed

DeskSpec == DeskInit /\ [][DeskNext]_deskVars
=============================================================================
