------------------------- MODULE ContractLifecycle -------------------------
(***************************************************************************)
(* Rental contracts, the holds that keep a place in a room for them, the   *)
(* occupancies of the people who live there and the status of the room.    *)
(*                                                                         *)
(* Every command is one serializable transaction under the locks of the    *)
(* contract and of the room, with two exceptions that are kept apart:      *)
(* after creating, approving and editing a contract the code commits first *)
(* and then brings the parties and occupancies in line with the row it     *)
(* returned (syncContractHistory), and submitting a contract reads it and  *)
(* updates it without a condition.  Both may happen at once or late.       *)
(*                                                                         *)
(* A contract in Converted comes from a paid booking, whose own booking    *)
(* contract stays beside it; the others are drafted directly, imported, or *)
(* created by moving a co-representative to another room.  Every contract  *)
(* asks for a deposit.  Whether the deposit and the entry invoice are paid *)
(* belongs to DepositCore and SePay: here moving in may wait for them or   *)
(* not.  CLEANING also stands for MAINTENANCE, which is treated alike, and *)
(* ACTIVE for EXPIRING.  Dates, renewals, billing, the note of a room on   *)
(* the customer (Customer.roomId) and INACTIVE rooms are left out.         *)
(***************************************************************************)
EXTENDS Integers, FiniteSets

CONSTANTS
    Contracts, Rooms, People,
    Tenant,      \* the primary customer of each contract
    Groups,      \* the sets of co-representatives each contract may name
    Declared,    \* memberCount of each contract
    Converted,   \* the contracts that come from a paid booking
    Shared,      \* rooms let by the place; the others are let as a whole
    Capacity,
    ByHand,      \* rooms and the statuses other than AVAILABLE they are given by hand
    MaxLate,     \* writes that may be in flight at once
    NoRoom

ASSUME LifecycleAssumption ==
    /\ IsFiniteSet(Contracts) /\ IsFiniteSet(People)
    /\ Tenant \in [Contracts -> People]
    /\ Groups \in [Contracts -> SUBSET SUBSET People]
    /\ \A c \in Contracts : \A g \in Groups[c] : Tenant[c] \notin g
    /\ Declared \in [Contracts -> Nat \ {0}] /\ Capacity \in [Rooms -> Nat \ {0}]
    /\ Converted \subseteq Contracts /\ Shared \subseteq Rooms
    /\ ByHand \subseteq Rooms \X {"RESERVED", "OCCUPIED", "CLEANING"}
    /\ MaxLate \in Nat /\ NoRoom \notin Rooms

VARIABLES
    status,    \* Contract.status, NONE before it exists
    place,     \* Contract.roomId
    members,   \* Contract.coRepresentativeIds
    party,     \* co-representatives who ever had a ContractParty row
    hold,      \* the last RoomHold of the contract's rental cycle
    open,      \* occupancies that are not left, by contract and person
    room,      \* Room.status
    late,      \* writes whose read is done
    overtaken  \* history: contracts a late write has changed

vars == <<status, place, members, party, hold, open, room, late, overtaken>>

Pending == {"DRAFT", "PENDING_APPROVAL", "APPROVED"}
Visible == Pending \cup {"ACTIVE"}
Statuses == Visible \cup {"NONE", "TERMINATED"}
\* LAPSED and SPENT are ACTIVE and CONVERTED holds whose time has run out.
Holds == {"NONE", "LIVE", "LAPSED", "EXPIRED", "CANCELLED", "CONVERTED", "SPENT"}
RoomStatuses == {"AVAILABLE", "RESERVED", "OCCUPIED", "CLEANING"}

TypeOK ==
    /\ status \in [Contracts -> Statuses]
    /\ place \in [Contracts -> Rooms \cup {NoRoom}]
    /\ members \in [Contracts -> SUBSET People]
    /\ party \in [Contracts -> SUBSET People]
    /\ hold \in [Contracts -> Holds]
    /\ open \subseteq Contracts \X People
    /\ room \in [Rooms -> RoomStatuses]
    /\ late \subseteq [of : Contracts, write : {"submit", "sync"}, active : BOOLEAN,
                       members : SUBSET People]
    /\ overtaken \subseteq Contracts

Init ==
    /\ status = [c \in Contracts |-> "NONE"]
    /\ place = [c \in Contracts |-> NoRoom]
    /\ members = [c \in Contracts |-> {}]
    /\ party = [c \in Contracts |-> {}]
    /\ hold = [c \in Contracts |-> "NONE"]
    /\ open = {}
    /\ room = [r \in Rooms |-> "AVAILABLE"]
    /\ late = {} /\ overtaken = {}

In(r) == {c \in Contracts : place[c] = r}
OpenIn(r) == {o \in open : place[o[1]] = r}
LiveIn(r) == {c \in In(r) : hold[c] = "LIVE"}
ActiveIn(r) == {c \in In(r) : status[c] = "ACTIVE"}
Used(r) == Cardinality(OpenIn(r)) + Cardinality(LiveIn(r))
\* Mutant: the occupancies are written without their contract.
ResidentsUnlinked(c, m) == {NoRoom} \X ({Tenant[c]} \cup m)
Residents(c, m) == {c} \X ({Tenant[c]} \cup m)

\* The booking contract of a conversion keeps its DRAFT for good.
BookingsIn(r) == {c \in In(r) \cap Converted : hold[c] # "CANCELLED"}

\* Mutant: the room is taken for empty when somebody leaves.
VacatedAtOnce(O, A, H, otherwise) == otherwise
\* The status a room gets when something in it has ended.
Vacated(O, A, H, otherwise) ==
    IF O # {} \/ A # {} THEN "OCCUPIED" ELSE IF H # {} THEN "RESERVED" ELSE otherwise

Swept(r) == [c \in Contracts |->
                IF place[c] = r /\ hold[c] = "LAPSED" THEN "EXPIRED" ELSE hold[c]]

-----------------------------------------------------------------------------
(* What is done after the commit, at once or late. *)

Snapshot(c, write, active, m) == [of |-> c, write |-> write, active |-> active, members |-> m]

\* Occupancies and parties once the history of c follows a row of the contract.
Synced(c, active, m) == IF active THEN open \cup Residents(c, m) ELSE open \ ({c} \X People)
Sync(c, active, m) ==
    /\ open' = Synced(c, active, m)
    /\ party' = [party EXCEPT ![c] = @ \cup m]

Postpone(s) == Cardinality(late) < MaxLate /\ late' = late \cup {s}

SyncAfter(c, active, m) ==
    \/ Sync(c, active, m) /\ UNCHANGED late
    \/ Postpone(Snapshot(c, "sync", active, m)) /\ UNCHANGED <<open, party>>

LateSync == \E s \in late :
    /\ s.write = "sync"
    /\ Sync(s.of, s.active, s.members)
    /\ late' = late \ {s}
    /\ overtaken' = IF Synced(s.of, s.active, s.members) = open THEN overtaken
                    ELSE overtaken \cup {s.of}
    /\ UNCHANGED <<status, place, members, hold, room>>

LateSubmit == \E s \in late :
    /\ s.write = "submit"
    /\ status' = [status EXCEPT ![s.of] = "PENDING_APPROVAL"]
    /\ late' = late \ {s}
    /\ overtaken' = IF status[s.of] = "DRAFT" THEN overtaken ELSE overtaken \cup {s.of}
    /\ UNCHANGED <<place, members, party, hold, open, room>>

Crash == late # {} /\ late' = {}
         /\ UNCHANGED <<status, place, members, party, hold, open, room, overtaken>>

-----------------------------------------------------------------------------
(* Bookings and holds. *)

Book(c, r) ==
    /\ c \in Converted /\ hold[c] = "NONE" /\ status[c] = "NONE"
    /\ \A o \in open : o[2] = Tenant[c] => place[o[1]] = r
    /\ \A d \in Contracts : Tenant[d] = Tenant[c] /\ status[d] = "ACTIVE" => place[d] = r
    /\ room[r] # "CLEANING"
    /\ IF r \in Shared THEN Used(r) < Capacity[r] ELSE Used(r) = 0
    /\ place' = [place EXCEPT ![c] = r]
    /\ hold' = [Swept(r) EXCEPT ![c] = "LIVE"]
    /\ room' = [room EXCEPT ![r] = "RESERVED"]
    /\ UNCHANGED <<status, members, party, open, late, overtaken>>

CancelBooking(c) ==
    /\ c \in Converted /\ status[c] = "NONE" /\ hold[c] \in {"LIVE", "LAPSED", "EXPIRED"}
    /\ hold' = [hold EXCEPT ![c] = "CANCELLED"]
    /\ UNCHANGED <<status, place, members, party, open, room, late, overtaken>>

HoldRunsOut(c) ==
    /\ hold[c] \in {"LIVE", "CONVERTED"} /\ status[c] \notin {"ACTIVE", "TERMINATED"}
    /\ hold' = [hold EXCEPT ![c] = IF @ = "LIVE" THEN "LAPSED" ELSE "SPENT"]
    /\ UNCHANGED <<status, place, members, party, open, room, late, overtaken>>

SweepHolds ==
    /\ \E c \in Contracts : hold[c] = "LAPSED"
    /\ hold' = [c \in Contracts |-> IF hold[c] = "LAPSED" THEN "EXPIRED" ELSE hold[c]]
    /\ UNCHANGED <<status, place, members, party, open, room, late, overtaken>>

\* Another contract, booking or rental cycle of a whole room that is not over.
Foreign(c) == {d \in In(place[c]) \ {c} : status[d] \in Visible \/ d \in BookingsIn(place[c])}

Convert(c, g) ==
    LET r == place[c]
        Others == LiveIn(r) \ {c}
        used == Cardinality(OpenIn(r)) + Cardinality(Others)
    IN /\ c \in Converted /\ status[c] = "NONE" /\ hold[c] \in {"LIVE", "LAPSED", "EXPIRED"}
       /\ g \in Groups[c]
       /\ room[r] # "CLEANING"
       /\ IF r \in Shared THEN used < Capacity[r] ELSE used = 0 /\ Foreign(c) = {}
       /\ hold' = [Swept(r) EXCEPT ![c] = "LIVE"]
       /\ status' = [status EXCEPT ![c] = "DRAFT"]
       /\ members' = [members EXCEPT ![c] = g]
       /\ Sync(c, FALSE, g)
       /\ UNCHANGED <<place, room, late, overtaken>>

-----------------------------------------------------------------------------
(* From the draft to moving in. *)

Create(c, r, g) ==
    /\ c \notin Converted /\ status[c] = "NONE" /\ g \in Groups[c]
    /\ status' = [status EXCEPT ![c] = "DRAFT"]
    /\ place' = [place EXCEPT ![c] = r]
    /\ members' = [members EXCEPT ![c] = g]
    /\ SyncAfter(c, FALSE, g)
    /\ UNCHANGED <<hold, room, overtaken>>

Submit(c) ==
    /\ status[c] = "DRAFT"
    /\ \/ status' = [status EXCEPT ![c] = "PENDING_APPROVAL"] /\ UNCHANGED late
       \/ Postpone(Snapshot(c, "submit", FALSE, {})) /\ UNCHANGED status
    /\ UNCHANGED <<place, members, party, hold, open, room, overtaken>>

\* Mutant: an edit may change the people of an active contract.
MembershipFree(c, g) == g \in Groups[c]
MembershipKept(c, g) == status[c] = "ACTIVE" => g = members[c]

\* A generic edit; the members of an active contract are not its business.
Edit(c, g) ==
    /\ status[c] # "NONE"
    /\ g \in Groups[c] \cup {members[c]} /\ MembershipKept(c, g)
    /\ members' = [members EXCEPT ![c] = g]
    /\ SyncAfter(c, status[c] = "ACTIVE", g)
    /\ UNCHANGED <<status, place, hold, room, overtaken>>

Foreigners(c) == LiveIn(place[c]) \ {c}
\* Mutant: only holds are looked for in a whole room.
AdmissibleByHolds(c) ==
    IF place[c] \in Shared
    THEN Used(place[c]) + Declared[c] <= Capacity[place[c]]
    ELSE Foreigners(c) = {}
Admissible(c) ==
    LET r == place[c] IN
    IF r \in Shared
    THEN Cardinality(OpenIn(r)) + Cardinality(Foreigners(c)) + Declared[c] <= Capacity[r]
    ELSE OpenIn(r) = {} /\ ActiveIn(r) = {} /\ Foreigners(c) = {}

\* The hold a contract leaves its approval with: its own, or a new one, which
\* the unique key refuses while a hold of the whole room is still to be swept.
Approved(c) ==
    CASE hold[c] = "LIVE" -> "CONVERTED"
      [] hold[c] \in {"LAPSED", "CONVERTED", "SPENT"} -> hold[c]
      [] OTHER -> "LIVE"
KeyTaken(c) == place[c] \notin Shared /\ \E d \in In(place[c]) \ {c} : hold[d] = "LAPSED"

Approve(c) ==
    LET r == place[c] IN
    /\ status[c] = "PENDING_APPROVAL"
    /\ room[r] # "CLEANING" /\ (room[r] = "RESERVED" => hold[c] = "LIVE")
    /\ Admissible(c)
    /\ hold[c] \in {"NONE", "EXPIRED"} => ~KeyTaken(c)
    /\ status' = [status EXCEPT ![c] = "APPROVED"]
    /\ hold' = [hold EXCEPT ![c] = Approved(c)]
    /\ room' = [room EXCEPT ![r] =
                    IF r \in Shared /\ OpenIn(r) # {} THEN "OCCUPIED" ELSE "RESERVED"]
    /\ SyncAfter(c, FALSE, members[c])
    /\ UNCHANGED <<place, members, overtaken>>

Ready(c) == IF place[c] \in Shared THEN room[place[c]] \in {"RESERVED", "OCCUPIED"}
            ELSE room[place[c]] = "RESERVED"
\* Mutant: the place promised at approval is taken for granted.
FitsByApproval(c) == Declared[c] <= Capacity[place[c]]
Fits(c) == place[c] \in Shared =>
               Cardinality(OpenIn(place[c])) + Declared[c] <= Capacity[place[c]]

Activate(c) ==
    /\ status[c] = "APPROVED"
    /\ Ready(c) /\ hold[c] \in {"LIVE", "CONVERTED"} /\ Fits(c)
    /\ status' = [status EXCEPT ![c] = "ACTIVE"]
    /\ room' = [room EXCEPT ![place[c]] = "OCCUPIED"]
    /\ hold' = [hold EXCEPT ![c] = "CONVERTED"]
    /\ Sync(c, TRUE, members[c])
    /\ UNCHANGED <<place, members, late, overtaken>>

-----------------------------------------------------------------------------
(* Tenancies under way. *)

TargetHasPlace(r) ==
    /\ room[r] # "CLEANING"
    /\ IF r \in Shared THEN Used(r) + 1 <= Capacity[r] ELSE Used(r) = 0 /\ ActiveIn(r) = {}

\* A tenancy from before the system, entered as it stands.
Import(c, r) ==
    /\ c \notin Converted /\ status[c] = "NONE"
    /\ \A o \in open : o[2] # Tenant[c]
    /\ \A d \in Contracts : Tenant[d] = Tenant[c] =>
           status[d] \notin Visible /\ d \notin BookingsIn(place[d])
    /\ room[r] \in IF r \in Shared THEN {"AVAILABLE", "OCCUPIED"} ELSE {"AVAILABLE"}
    /\ TargetHasPlace(r) /\ Used(r) + Declared[c] <= Capacity[r]
    /\ r \in Shared => Declared[c] = 1
    /\ status' = [status EXCEPT ![c] = "ACTIVE"]
    /\ place' = [place EXCEPT ![c] = r]
    /\ open' = open \cup Residents(c, {})
    /\ room' = [room EXCEPT ![r] = "OCCUPIED"]
    /\ UNCHANGED <<members, party, hold, late, overtaken>>

AddOccupant(c, p) ==
    LET r == place[c] IN
    /\ status[c] = "ACTIVE" /\ r \notin Shared /\ room[r] # "CLEANING"
    /\ p \notin {Tenant[c]} \cup members[c] \cup party[c]
    /\ \A o \in open : o[2] # p
    /\ Used(r) + 1 <= Capacity[r]
    /\ members' = [members EXCEPT ![c] = @ \cup {p}]
    /\ party' = [party EXCEPT ![c] = @ \cup {p}]
    /\ open' = open \cup {<<c, p>>}
    /\ room' = [room EXCEPT ![r] = "OCCUPIED"]
    /\ UNCHANGED <<status, place, hold, late, overtaken>>

MoveOut(c, p) ==
    LET r == place[c]
        Left == OpenIn(r) \ {<<c, p>>}
    IN /\ p \in members[c] /\ <<c, p>> \in open
       /\ members' = [members EXCEPT ![c] = @ \ {p}]
       /\ open' = open \ {<<c, p>>}
       /\ room' = [room EXCEPT ![r] =
              Vacated(Left, ActiveIn(r), LiveIn(r),
                      IF @ = "CLEANING" THEN @ ELSE "AVAILABLE")]
       /\ UNCHANGED <<status, place, party, hold, late, overtaken>>

\* A co-representative moves to another room under a contract of his own.
Transfer(c, t, r) ==
    LET p == Tenant[t] IN
    /\ status[c] = "ACTIVE" /\ p \in members[c] /\ <<c, p>> \in open /\ r # place[c]
    /\ t \notin Converted /\ status[t] = "NONE"
    /\ TargetHasPlace(r)
    /\ status' = [status EXCEPT ![t] = "ACTIVE"]
    /\ place' = [place EXCEPT ![t] = r]
    /\ members' = [members EXCEPT ![c] = @ \ {p}]
    /\ open' = (open \ {<<c, p>>}) \cup {<<t, p>>}
    /\ room' = [room EXCEPT ![place[c]] = "OCCUPIED", ![r] = "OCCUPIED"]
    /\ UNCHANGED <<party, hold, late, overtaken>>

Settle(c, turnover) ==
    LET r == place[c]
        Left == {o \in OpenIn(r) : o[1] # c}
    IN /\ status[c] = "ACTIVE"
       /\ status' = [status EXCEPT ![c] = "TERMINATED"]
       /\ open' = open \ ({c} \X People)
       /\ room' = [room EXCEPT ![r] =
              Vacated(Left, ActiveIn(r) \ {c}, LiveIn(r),
                      IF turnover = "CLEANING" \/ @ = "CLEANING" THEN "CLEANING"
                      ELSE "AVAILABLE")]
       /\ UNCHANGED <<place, members, party, hold, late, overtaken>>

-----------------------------------------------------------------------------
(* The room itself. *)

InUse(r) ==
    \/ OpenIn(r) # {} \/ LiveIn(r) # {}
    \/ \E c \in In(r) : status[c] \in Visible
    \/ BookingsIn(r) # {}

MakeAvailable(r) ==
    /\ room[r] = "CLEANING" /\ ~InUse(r)
    /\ room' = [room EXCEPT ![r] = "AVAILABLE"]
    /\ UNCHANGED <<status, place, members, party, hold, open, late, overtaken>>

SetRoomStatus(r, s) ==
    /\ <<r, s>> \in ByHand /\ s # room[r]
    /\ room' = [room EXCEPT ![r] = s]
    /\ UNCHANGED <<status, place, members, party, hold, open, late, overtaken>>

-----------------------------------------------------------------------------
ContractStep(c) ==
    \/ CancelBooking(c) \/ HoldRunsOut(c) \/ Submit(c) \/ Approve(c) \/ Activate(c)
    \/ \E r \in Rooms : Book(c, r) \/ Import(c, r)
    \/ \E g \in Groups[c] : Convert(c, g)
    \/ \E g \in Groups[c] \cup {members[c]} : Edit(c, g)
    \/ \E r \in Rooms, g \in Groups[c] : Create(c, r, g)
    \/ \E p \in UNION Groups[c] : AddOccupant(c, p) \/ MoveOut(c, p)
    \/ \E t \in Contracts \ {c}, r \in Rooms : Transfer(c, t, r)
    \/ \E turnover \in {"AVAILABLE", "CLEANING"} : Settle(c, turnover)

Next ==
    \/ \E c \in Contracts : ContractStep(c)
    \/ \E r \in Rooms : MakeAvailable(r) \/ \E s \in RoomStatuses : SetRoomStatus(r, s)
    \/ SweepHolds \/ LateSync \/ LateSubmit \/ Crash

Spec == Init /\ [][Next]_vars

-----------------------------------------------------------------------------
(* Properties. *)

\* Nobody is housed by a contract that is not active and everybody whom an
\* active contract names is housed by it, as long as no write of another
\* command came in between: commands change the two tables apart.
OccupancyFollowsContract ==
    \A c \in Contracts \ overtaken :
        {o \in open : o[1] = c} =
            IF status[c] = "ACTIVE" THEN Residents(c, members[c]) ELSE {}

Settled(r) == In(r) \cap overtaken = {}

NeverReservedByHand == \A r \in Rooms : <<r, "RESERVED">> \notin ByHand

\* A room let as a whole never has two active contracts, although activation
\* looks at nothing but the status of the room.
OneContractPerWholeRoom ==
    NeverReservedByHand =>
        \A r \in Rooms \ Shared : Settled(r) => \A c, d \in ActiveIn(r) : c = d

\* As long as the people of each contract are as many as it declared (in a
\* whole room: as many as the room has places), nobody lives in a room that
\* was full, whichever of the five ways led into it.
Honest(r) == \A c \in ActiveIn(r) :
    1 + Cardinality(members[c]) <= IF r \in Shared THEN Declared[c] ELSE Capacity[r]
RoomNotOvercrowded ==
    NeverReservedByHand =>
        \A r \in Rooms : Settled(r) /\ Honest(r) => Cardinality(OpenIn(r)) <= Capacity[r]

\* A room shown as available houses nobody and is not held for anybody, the
\* hold of a booking that its conversion brought back apart.
AvailableMeansEmpty ==
    \A r \in Rooms : room[r] = "AVAILABLE" /\ Settled(r) =>
        OpenIn(r) = {} /\ ActiveIn(r) = {} /\ LiveIn(r) \subseteq Converted

\* A room whose tenancies have all ended can be handed over as available
\* (the journey from booking to settlement and AVAILABLE).
RoomComesBack ==
    \A r \in Rooms : (\A c \in In(r) : status[c] = "TERMINATED") /\ OpenIn(r) = {} => ~InUse(r)
=============================================================================
