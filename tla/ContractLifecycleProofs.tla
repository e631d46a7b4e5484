----------------------- MODULE ContractLifecycleProofs -----------------------
(***************************************************************************)
(* The lifecycle for any number of contracts, rooms, people and late       *)
(* writes.                                                                 *)
(*                                                                         *)
(* Once it is known who is housed (Housed), what a room is shown as can be *)
(* told from the contracts alone (Shown): a room whose contracts no late   *)
(* write has changed houses somebody exactly when one of them is active,   *)
(* because the tenant of an active contract always lives there.            *)
(*                                                                         *)
(* The places of a shared room are counted by what each contract declared  *)
(* (Placed), since a contract may be honest later that was not when the    *)
(* next one moved in.                                                      *)
(***************************************************************************)
EXTENDS ContractLifecycle, FiniteSetTheorems, TLAPS

(* What does not exist yet has no place, no people and no hold. *)
Fresh ==
    \A c \in Contracts :
        /\ status[c] = "NONE" /\ (c \notin Converted \/ hold[c] = "NONE") => place[c] = NoRoom
        /\ status[c] = "NONE" => members[c] = {}
        /\ status[c] = "NONE" /\ c \notin Converted => hold[c] = "NONE"
        /\ Tenant[c] \notin members[c]

HousedBy(c) ==
    \A p \in People :
        <<c, p>> \in open <=> status[c] = "ACTIVE" /\ p \in {Tenant[c]} \cup members[c]
Housed == \A c \in Contracts \ overtaken : HousedBy(c)

ShownAt(r) ==
    /\ room[r] = "AVAILABLE" =>
           \A c \in In(r) : status[c] # "ACTIVE" /\ (hold[c] = "LIVE" => c \in Converted)
    /\ r \notin Shared /\ NeverReservedByHand =>
           /\ room[r] = "RESERVED" => ActiveIn(r) = {}
           /\ \A c, d \in ActiveIn(r) : c = d
Shown == \A r \in Rooms : Settled(r) => ShownAt(r)

IndInv == TypeOK /\ Fresh /\ Housed /\ Shown

LateWrites == [of : Contracts, write : {"submit", "sync"}, active : BOOLEAN, members : SUBSET People]

(* The people a contract may name are people. *)
LEMMA Candidates ==
    ASSUME NEW c \in Contracts
    PROVE  /\ Groups[c] \subseteq SUBSET People
           /\ UNION Groups[c] \subseteq People
           /\ Tenant[c] \in People /\ \A g \in Groups[c] : Tenant[c] \notin g
<1>1. Groups[c] \subseteq SUBSET People BY LifecycleAssumption
<1>2. UNION Groups[c] \subseteq People BY <1>1
<1>3. QED BY <1>1, <1>2, LifecycleAssumption

(* Occupancies written for a contract belong to it. *)
LEMMA ResidentsType ==
    ASSUME NEW c \in Contracts, NEW m \in SUBSET People
    PROVE  Residents(c, m) \subseteq Contracts \X People
<1>1. {Tenant[c]} \cup m \subseteq People BY Candidates
<1>2. QED BY <1>1 DEF Residents

(* Bringing the history in line keeps the tables well formed, at once ... *)
LEMMA SyncType ==
    ASSUME TypeOK, NEW c \in Contracts, NEW m \in SUBSET People, NEW active, Sync(c, active, m)
    PROVE  open' \subseteq Contracts \X People /\ party' \in [Contracts -> SUBSET People]
<1>1. Synced(c, active, m) \subseteq Contracts \X People BY ResidentsType DEF Synced, TypeOK
<1>2. QED BY <1>1 DEF Sync, TypeOK

(* A write that is postponed is well formed. *)
LEMMA SnapshotType ==
    ASSUME NEW c \in Contracts, NEW w \in {"submit", "sync"}, NEW active \in BOOLEAN,
           NEW m \in SUBSET People
    PROVE  Snapshot(c, w, active, m) \in LateWrites
BY DEF Snapshot, LateWrites

(* ... or later. *)
LEMMA SyncAfterType ==
    ASSUME TypeOK, NEW c \in Contracts, NEW m \in SUBSET People, NEW active \in BOOLEAN,
           SyncAfter(c, active, m)
    PROVE  /\ open' \subseteq Contracts \X People /\ party' \in [Contracts -> SUBSET People]
           /\ late' \subseteq LateWrites
<1>0. late \subseteq LateWrites BY DEF TypeOK, LateWrites
<1>1. CASE Sync(c, active, m) /\ UNCHANGED late BY <1>0, <1>1, SyncType
<1>2. CASE Postpone(Snapshot(c, "sync", active, m)) /\ UNCHANGED <<open, party>>
    BY <1>0, <1>2, SnapshotType DEF Postpone, TypeOK
<1>3. QED BY <1>1, <1>2 DEF SyncAfter

(* Every command leaves every table with the values of its columns. *)
LEMMA TypeStep ==
    ASSUME TypeOK, [Next]_vars
    PROVE  TypeOK'
<1>1. ASSUME NEW c \in Contracts, NEW r \in Rooms, Book(c, r) PROVE TypeOK'
    BY <1>1, LifecycleAssumption DEF Book, Swept, TypeOK, LateWrites, Statuses, Visible, Pending, Holds, RoomStatuses
<1>2. ASSUME NEW c \in Contracts, CancelBooking(c) PROVE TypeOK'
    BY <1>2, LifecycleAssumption DEF CancelBooking, TypeOK, LateWrites, Statuses, Visible, Pending, Holds, RoomStatuses
<1>3. ASSUME NEW c \in Contracts, HoldRunsOut(c) PROVE TypeOK'
    BY <1>3, LifecycleAssumption DEF HoldRunsOut, TypeOK, LateWrites, Statuses, Visible, Pending, Holds, RoomStatuses
<1>4. ASSUME SweepHolds PROVE TypeOK'
    BY <1>4, LifecycleAssumption DEF SweepHolds, TypeOK, LateWrites, Statuses, Visible, Pending, Holds, RoomStatuses
<1>5. ASSUME NEW c \in Contracts, NEW g \in Groups[c], Convert(c, g) PROVE TypeOK'
    BY <1>5, LifecycleAssumption, Candidates, SyncType DEF Convert, Swept, TypeOK, LateWrites, Statuses, Visible, Pending, Holds, RoomStatuses
<1>6. ASSUME NEW c \in Contracts, NEW r \in Rooms, NEW g \in Groups[c], Create(c, r, g) PROVE TypeOK'
    BY <1>6, LifecycleAssumption, Candidates, SyncAfterType DEF Create, TypeOK, LateWrites, Statuses, Visible, Pending, Holds, RoomStatuses
<1>7. ASSUME NEW c \in Contracts, Submit(c) PROVE TypeOK'
    <2>1. Snapshot(c, "submit", FALSE, {}) \in LateWrites BY SnapshotType
    <2>2. late' \subseteq LateWrites BY <1>7, <2>1 DEF Submit, Postpone, TypeOK, LateWrites
    <2>3. QED BY <1>7, <2>2 DEF Submit, TypeOK, LateWrites, Statuses, Visible, Pending, Holds, RoomStatuses
<1>8. ASSUME NEW c \in Contracts, NEW g \in Groups[c] \cup {members[c]}, Edit(c, g) PROVE TypeOK'
    <2>1. g \in SUBSET People BY Candidates DEF TypeOK
    <2>2. (status[c] = "ACTIVE") \in BOOLEAN OBVIOUS
    <2>3. QED BY <1>8, <2>1, <2>2, SyncAfterType DEF Edit, TypeOK, LateWrites, Statuses, Visible, Pending, Holds, RoomStatuses
<1>9. ASSUME NEW c \in Contracts, Approve(c) PROVE TypeOK'
    <2>1. members[c] \in SUBSET People BY DEF TypeOK
    <2>2. Approved(c) \in Holds BY DEF Approved, TypeOK, Holds
    <2>3. QED BY <1>9, <2>1, <2>2, SyncAfterType DEF Approve, TypeOK, LateWrites, Statuses, Visible, Pending, Holds, RoomStatuses
<1>10. ASSUME NEW c \in Contracts, Activate(c) PROVE TypeOK'
    <2>1. members[c] \in SUBSET People BY DEF TypeOK
    <2>2. QED BY <1>10, <2>1, SyncType DEF Activate, TypeOK, LateWrites, Statuses, Visible, Pending, Holds, RoomStatuses
<1>11. ASSUME NEW c \in Contracts, NEW r \in Rooms, Import(c, r) PROVE TypeOK'
    <2>1. Residents(c, {}) \subseteq Contracts \X People BY ResidentsType
    <2>2. QED BY <1>11, <2>1 DEF Import, TypeOK, LateWrites, Statuses, Visible, Pending, Holds, RoomStatuses
<1>12. ASSUME NEW c \in Contracts, NEW p \in UNION Groups[c], AddOccupant(c, p) PROVE TypeOK'
    <2>1. p \in People BY Candidates
    <2>2. <<c, p>> \in Contracts \X People BY <2>1
    <2>3. open' \subseteq Contracts \X People BY <1>12, <2>2 DEF AddOccupant, TypeOK
    <2>4. room' \in [Rooms -> RoomStatuses] BY <1>12 DEF AddOccupant, TypeOK, RoomStatuses
    <2>5. members' \in [Contracts -> SUBSET People] BY <1>12, <2>1 DEF AddOccupant, TypeOK
    <2>6. party' \in [Contracts -> SUBSET People] BY <1>12, <2>1 DEF AddOccupant, TypeOK
    <2>7. QED BY <1>12, <2>3, <2>4, <2>5, <2>6 DEF AddOccupant, TypeOK
<1>13. ASSUME NEW c \in Contracts, NEW p \in UNION Groups[c], MoveOut(c, p) PROVE TypeOK'
    BY <1>13, LifecycleAssumption DEF MoveOut, Vacated, TypeOK, LateWrites, Statuses, Visible, Pending, Holds, RoomStatuses
<1>14. ASSUME NEW c \in Contracts, NEW t \in Contracts \ {c}, NEW r \in Rooms, Transfer(c, t, r) PROVE TypeOK'
    <2>1. Tenant[t] \in People BY Candidates
    <2>2. QED BY <1>14, <2>1 DEF Transfer, TypeOK, LateWrites, Statuses, Visible, Pending, Holds, RoomStatuses
<1>15. ASSUME NEW c \in Contracts, NEW turnover \in {"AVAILABLE", "CLEANING"}, Settle(c, turnover) PROVE TypeOK'
    BY <1>15, LifecycleAssumption DEF Settle, Vacated, TypeOK, LateWrites, Statuses, Visible, Pending, Holds, RoomStatuses
<1>16. ASSUME NEW r \in Rooms, MakeAvailable(r) PROVE TypeOK'
    BY <1>16, LifecycleAssumption DEF MakeAvailable, TypeOK, LateWrites, Statuses, Visible, Pending, Holds, RoomStatuses
<1>17. ASSUME NEW r \in Rooms, NEW s \in RoomStatuses, SetRoomStatus(r, s) PROVE TypeOK'
    BY <1>17, LifecycleAssumption DEF SetRoomStatus, TypeOK, LateWrites, Statuses, Visible, Pending, Holds, RoomStatuses
<1>18. ASSUME LateSync PROVE TypeOK'
    <2>1. PICK s \in late : Sync(s.of, s.active, s.members) /\ late' = late \ {s}
                           /\ overtaken' \in {overtaken, overtaken \cup {s.of}}
        BY <1>18 DEF LateSync
    <2>2. s.of \in Contracts /\ s.members \in SUBSET People BY DEF TypeOK
    <2>3. QED BY <1>18, <2>1, <2>2, SyncType DEF LateSync, TypeOK, LateWrites, Statuses, Visible, Pending, Holds, RoomStatuses
<1>19. ASSUME LateSubmit PROVE TypeOK'
    BY <1>19, LifecycleAssumption DEF LateSubmit, TypeOK, LateWrites, Statuses, Visible, Pending, Holds, RoomStatuses
<1>20. ASSUME Crash PROVE TypeOK'
    BY <1>20, LifecycleAssumption DEF Crash, TypeOK, LateWrites, Statuses, Visible, Pending, Holds, RoomStatuses
<1>21. ASSUME UNCHANGED vars PROVE TypeOK'
    BY <1>21 DEF vars, TypeOK, LateWrites, Statuses, Visible, Pending, Holds, RoomStatuses
<1>22. QED BY <1>1, <1>2, <1>3, <1>4, <1>5, <1>6, <1>7, <1>8, <1>9, <1>10, <1>11, <1>12, <1>13, <1>14, <1>15, <1>16, <1>17, <1>18, <1>19, <1>20, <1>21 DEF Next, ContractStep

(* What does not exist has nothing, and nobody is named beside himself. *)
LEMMA FreshStep ==
    ASSUME TypeOK, Fresh, [Next]_vars
    PROVE  Fresh'
<1>1. ASSUME NEW c \in Contracts, NEW r \in Rooms, Book(c, r) PROVE Fresh'
    BY <1>1, LifecycleAssumption DEF Book, Swept, TypeOK, Fresh
<1>2. ASSUME NEW c \in Contracts, CancelBooking(c) PROVE Fresh'
    BY <1>2, LifecycleAssumption DEF CancelBooking, TypeOK, Fresh
<1>3. ASSUME NEW c \in Contracts, HoldRunsOut(c) PROVE Fresh'
    BY <1>3, LifecycleAssumption DEF HoldRunsOut, TypeOK, Fresh
<1>4. ASSUME SweepHolds PROVE Fresh'
    BY <1>4, LifecycleAssumption DEF SweepHolds, TypeOK, Fresh
<1>5. ASSUME NEW c \in Contracts, NEW g \in Groups[c], Convert(c, g) PROVE Fresh'
    BY <1>5, LifecycleAssumption, Candidates DEF Convert, Swept, TypeOK, Fresh
<1>6. ASSUME NEW c \in Contracts, NEW r \in Rooms, NEW g \in Groups[c], Create(c, r, g) PROVE Fresh'
    BY <1>6, LifecycleAssumption, Candidates DEF Create, TypeOK, Fresh
<1>7. ASSUME NEW c \in Contracts, Submit(c) PROVE Fresh'
    <2>1. CASE status' = status BY <1>7, <2>1 DEF Submit, Fresh
    <2>2. CASE status' = [status EXCEPT ![c] = "PENDING_APPROVAL"] BY <1>7, <2>2 DEF Submit, TypeOK, Fresh
    <2>3. QED BY <1>7, <2>1, <2>2 DEF Submit
<1>8. ASSUME NEW c \in Contracts, NEW g \in Groups[c] \cup {members[c]}, Edit(c, g) PROVE Fresh'
    BY <1>8, LifecycleAssumption, Candidates DEF Edit, TypeOK, Fresh
<1>9. ASSUME NEW c \in Contracts, Approve(c) PROVE Fresh'
    BY <1>9, LifecycleAssumption DEF Approve, Approved, TypeOK, Fresh
<1>10. ASSUME NEW c \in Contracts, Activate(c) PROVE Fresh'
    BY <1>10, LifecycleAssumption DEF Activate, TypeOK, Fresh
<1>11. ASSUME NEW c \in Contracts, NEW r \in Rooms, Import(c, r) PROVE Fresh'
    BY <1>11, LifecycleAssumption DEF Import, TypeOK, Fresh
<1>12. ASSUME NEW c \in Contracts, NEW p \in UNION Groups[c], AddOccupant(c, p) PROVE Fresh'
    BY <1>12, LifecycleAssumption DEF AddOccupant, TypeOK, Fresh
<1>13. ASSUME NEW c \in Contracts, NEW p \in UNION Groups[c], MoveOut(c, p) PROVE Fresh'
    BY <1>13, LifecycleAssumption DEF MoveOut, TypeOK, Fresh
<1>14. ASSUME NEW c \in Contracts, NEW t \in Contracts \ {c}, NEW r \in Rooms, Transfer(c, t, r) PROVE Fresh'
    BY <1>14, LifecycleAssumption DEF Transfer, TypeOK, Fresh
<1>15. ASSUME NEW c \in Contracts, NEW turnover \in {"AVAILABLE", "CLEANING"}, Settle(c, turnover) PROVE Fresh'
    BY <1>15, LifecycleAssumption DEF Settle, TypeOK, Fresh
<1>16. ASSUME NEW r \in Rooms, MakeAvailable(r) PROVE Fresh'
    BY <1>16, LifecycleAssumption DEF MakeAvailable, TypeOK, Fresh
<1>17. ASSUME NEW r \in Rooms, NEW s \in RoomStatuses, SetRoomStatus(r, s) PROVE Fresh'
    BY <1>17, LifecycleAssumption DEF SetRoomStatus, TypeOK, Fresh
<1>18. ASSUME LateSync PROVE Fresh'
    BY <1>18, LifecycleAssumption DEF LateSync, TypeOK, Fresh
<1>19. ASSUME LateSubmit PROVE Fresh'
    BY <1>19, LifecycleAssumption DEF LateSubmit, TypeOK, Fresh
<1>20. ASSUME Crash PROVE Fresh'
    BY <1>20, LifecycleAssumption DEF Crash, TypeOK, Fresh
<1>21. ASSUME UNCHANGED vars PROVE Fresh'
    BY <1>21 DEF vars, TypeOK, Fresh
<1>22. QED BY <1>1, <1>2, <1>3, <1>4, <1>5, <1>6, <1>7, <1>8, <1>9, <1>10, <1>11, <1>12, <1>13, <1>14, <1>15, <1>16, <1>17, <1>18, <1>19, <1>20, <1>21 DEF Next, ContractStep

(* Whom the history brought in line houses. *)
LEMMA SyncedHouses ==
    ASSUME NEW c \in Contracts, NEW m, NEW active, NEW d \in Contracts, NEW p \in People
    PROVE  <<d, p>> \in Synced(c, active, m) <=>
               IF active THEN <<d, p>> \in open \/ (d = c /\ p \in {Tenant[c]} \cup m)
               ELSE <<d, p>> \in open /\ d # c
BY DEF Synced, Residents

(* The same of the table after the step. *)
LEMMA SyncHousedBy ==
    ASSUME TypeOK, NEW c \in Contracts, NEW m, NEW active, open' = Synced(c, active, m),
           NEW d \in Contracts, NEW p \in People
    PROVE  <<d, p>> \in open' <=>
               IF active THEN <<d, p>> \in open \/ (d = c /\ p \in {Tenant[c]} \cup m)
               ELSE <<d, p>> \in open /\ d # c
BY SyncedHouses

(* Exactly the people of active contracts stay housed. *)
LEMMA HousedStep ==
    ASSUME TypeOK, Fresh, Housed, [Next]_vars
    PROVE  Housed'
<1>1. ASSUME NEW c \in Contracts, NEW r \in Rooms, Book(c, r) PROVE Housed'
    BY <1>1, LifecycleAssumption DEF Book, TypeOK, Fresh, Housed, HousedBy
<1>2. ASSUME NEW c \in Contracts, CancelBooking(c) PROVE Housed'
    BY <1>2, LifecycleAssumption DEF CancelBooking, TypeOK, Fresh, Housed, HousedBy
<1>3. ASSUME NEW c \in Contracts, HoldRunsOut(c) PROVE Housed'
    BY <1>3, LifecycleAssumption DEF HoldRunsOut, TypeOK, Fresh, Housed, HousedBy
<1>4. ASSUME SweepHolds PROVE Housed'
    BY <1>4, LifecycleAssumption DEF SweepHolds, TypeOK, Fresh, Housed, HousedBy
<1>5. ASSUME NEW c \in Contracts, NEW g \in Groups[c], Convert(c, g) PROVE Housed'
    <2> SUFFICES ASSUME NEW d \in Contracts, d \notin overtaken', NEW q \in People
                 PROVE  <<d, q>> \in open' <=>
                            status'[d] = "ACTIVE" /\ q \in {Tenant[d]} \cup members'[d]
        BY DEF Housed, HousedBy
    <2>0. d \notin overtaken => HousedBy(d) BY DEF Housed
    <2>1. <<d, q>> \in open' <=> <<d, q>> \in open /\ d # c
        BY <1>5 DEF Convert, Sync, Synced, Residents
    <2>2. QED BY <1>5, <2>0, <2>1 DEF Convert, HousedBy, TypeOK, Fresh
<1>6. ASSUME NEW c \in Contracts, NEW r \in Rooms, NEW g \in Groups[c], Create(c, r, g) PROVE Housed'
    <2> SUFFICES ASSUME NEW d \in Contracts, d \notin overtaken', NEW q \in People
                 PROVE  <<d, q>> \in open' <=>
                            status'[d] = "ACTIVE" /\ q \in {Tenant[d]} \cup members'[d]
        BY DEF Housed, HousedBy
    <2>0. d \notin overtaken => HousedBy(d) BY DEF Housed
    <2>1. CASE open' = open BY <1>6, <2>0, <2>1 DEF Create, HousedBy, TypeOK, Fresh
    <2>2. CASE open' = Synced(c, FALSE, g)
        <3>1. <<d, q>> \in open' <=> <<d, q>> \in open /\ d # c
            BY <2>2 DEF Synced, Residents
        <3>2. QED BY <1>6, <2>0, <3>1 DEF Create, HousedBy, TypeOK, Fresh
    <2>3. QED BY <1>6, <2>1, <2>2 DEF Create, SyncAfter, Sync
<1>7. ASSUME NEW c \in Contracts, Submit(c) PROVE Housed'
    <2> SUFFICES ASSUME NEW d \in Contracts, d \notin overtaken', NEW q \in People
                 PROVE  <<d, q>> \in open' <=>
                            status'[d] = "ACTIVE" /\ q \in {Tenant[d]} \cup members'[d]
        BY DEF Housed, HousedBy
    <2>0. d \notin overtaken => HousedBy(d) BY DEF Housed
    <2>1. QED BY <1>7, <2>0 DEF Submit, HousedBy, TypeOK, Fresh
<1>8. ASSUME NEW c \in Contracts, NEW g \in Groups[c] \cup {members[c]}, Edit(c, g) PROVE Housed'
    <2> SUFFICES ASSUME NEW d \in Contracts, d \notin overtaken', NEW q \in People
                 PROVE  <<d, q>> \in open' <=>
                            status'[d] = "ACTIVE" /\ q \in {Tenant[d]} \cup members'[d]
        BY DEF Housed, HousedBy
    <2>0. d \notin overtaken => HousedBy(d) BY DEF Housed
    <2>1. CASE open' = open BY <1>8, <2>0, <2>1 DEF Edit, HousedBy, TypeOK, Fresh, MembershipKept
    <2>2. CASE open' = Synced(c, status[c] = "ACTIVE", g)
        <3>1. <<d, q>> \in open' <=> 
                          IF status[c] = "ACTIVE" THEN <<d, q>> \in open \/ (d = c /\ q \in {Tenant[c]} \cup g)
                          ELSE <<d, q>> \in open /\ d # c
            BY <2>2 DEF Synced, Residents
        <3>2. QED BY <1>8, <2>0, <3>1 DEF Edit, HousedBy, TypeOK, Fresh, MembershipKept
    <2>3. QED BY <1>8, <2>1, <2>2 DEF Edit, SyncAfter, Sync
<1>9. ASSUME NEW c \in Contracts, Approve(c) PROVE Housed'
    <2> SUFFICES ASSUME NEW d \in Contracts, d \notin overtaken', NEW q \in People
                 PROVE  <<d, q>> \in open' <=>
                            status'[d] = "ACTIVE" /\ q \in {Tenant[d]} \cup members'[d]
        BY DEF Housed, HousedBy
    <2>0. d \notin overtaken => HousedBy(d) BY DEF Housed
    <2>1. CASE open' = open BY <1>9, <2>0, <2>1 DEF Approve, HousedBy, TypeOK, Fresh
    <2>2. CASE open' = Synced(c, FALSE, members[c])
        <3>1. <<d, q>> \in open' <=> <<d, q>> \in open /\ d # c
            BY <2>2 DEF Synced, Residents
        <3>2. QED BY <1>9, <2>0, <3>1 DEF Approve, HousedBy, TypeOK, Fresh
    <2>3. QED BY <1>9, <2>1, <2>2 DEF Approve, SyncAfter, Sync
<1>10. ASSUME NEW c \in Contracts, Activate(c) PROVE Housed'
    <2> SUFFICES ASSUME NEW d \in Contracts, d \notin overtaken', NEW q \in People
                 PROVE  <<d, q>> \in open' <=>
                            status'[d] = "ACTIVE" /\ q \in {Tenant[d]} \cup members'[d]
        BY DEF Housed, HousedBy
    <2>0. d \notin overtaken => HousedBy(d) BY DEF Housed
    <2>1. <<d, q>> \in open' <=> <<d, q>> \in open \/ (d = c /\ q \in {Tenant[c]} \cup members[c])
        BY <1>10 DEF Activate, Sync, Synced, Residents
    <2>2. QED BY <1>10, <2>0, <2>1 DEF Activate, HousedBy, TypeOK, Fresh
<1>11. ASSUME NEW c \in Contracts, NEW r \in Rooms, Import(c, r) PROVE Housed'
    <2> SUFFICES ASSUME NEW d \in Contracts, d \notin overtaken', NEW q \in People
                 PROVE  <<d, q>> \in open' <=>
                            status'[d] = "ACTIVE" /\ q \in {Tenant[d]} \cup members'[d]
        BY DEF Housed, HousedBy
    <2>0. d \notin overtaken => HousedBy(d) BY DEF Housed
    <2>1. QED BY <1>11, <2>0 DEF Import, HousedBy, TypeOK, Fresh, Residents
<1>12. ASSUME NEW c \in Contracts, NEW p \in UNION Groups[c], AddOccupant(c, p) PROVE Housed'
    <2> SUFFICES ASSUME NEW d \in Contracts, d \notin overtaken', NEW q \in People
                 PROVE  <<d, q>> \in open' <=>
                            status'[d] = "ACTIVE" /\ q \in {Tenant[d]} \cup members'[d]
        BY DEF Housed, HousedBy
    <2>0. d \notin overtaken => HousedBy(d) BY DEF Housed
    <2>1. QED BY <1>12, <2>0 DEF AddOccupant, HousedBy, TypeOK, Fresh
<1>13. ASSUME NEW c \in Contracts, NEW p \in UNION Groups[c], MoveOut(c, p) PROVE Housed'
    <2> SUFFICES ASSUME NEW d \in Contracts, d \notin overtaken', NEW q \in People
                 PROVE  <<d, q>> \in open' <=>
                            status'[d] = "ACTIVE" /\ q \in {Tenant[d]} \cup members'[d]
        BY DEF Housed, HousedBy
    <2>0. d \notin overtaken => HousedBy(d) BY DEF Housed
    <2>1. QED BY <1>13, <2>0 DEF MoveOut, HousedBy, TypeOK, Fresh
<1>14. ASSUME NEW c \in Contracts, NEW t \in Contracts \ {c}, NEW r \in Rooms, Transfer(c, t, r) PROVE Housed'
    <2> SUFFICES ASSUME NEW d \in Contracts, d \notin overtaken', NEW q \in People
                 PROVE  <<d, q>> \in open' <=>
                            status'[d] = "ACTIVE" /\ q \in {Tenant[d]} \cup members'[d]
        BY DEF Housed, HousedBy
    <2>0. d \notin overtaken => HousedBy(d) BY DEF Housed
    <2>1. QED BY <1>14, <2>0, Candidates DEF Transfer, HousedBy, TypeOK, Fresh
<1>15. ASSUME NEW c \in Contracts, NEW turnover \in {"AVAILABLE", "CLEANING"}, Settle(c, turnover) PROVE Housed'
    <2> SUFFICES ASSUME NEW d \in Contracts, d \notin overtaken', NEW q \in People
                 PROVE  <<d, q>> \in open' <=>
                            status'[d] = "ACTIVE" /\ q \in {Tenant[d]} \cup members'[d]
        BY DEF Housed, HousedBy
    <2>0. d \notin overtaken => HousedBy(d) BY DEF Housed
    <2>1. QED BY <1>15, <2>0 DEF Settle, HousedBy, TypeOK, Fresh
<1>16. ASSUME NEW r \in Rooms, MakeAvailable(r) PROVE Housed'
    BY <1>16, LifecycleAssumption DEF MakeAvailable, TypeOK, Fresh, Housed, HousedBy
<1>17. ASSUME NEW r \in Rooms, NEW s \in RoomStatuses, SetRoomStatus(r, s) PROVE Housed'
    BY <1>17, LifecycleAssumption DEF SetRoomStatus, TypeOK, Fresh, Housed, HousedBy
<1>18. ASSUME LateSync PROVE Housed'
    <2> SUFFICES ASSUME NEW d \in Contracts, d \notin overtaken', NEW q \in People
                 PROVE  <<d, q>> \in open' <=> <<d, q>> \in open
        BY <1>18 DEF LateSync, Housed, HousedBy
    <2>1. PICK s \in late : /\ open' = Synced(s.of, s.active, s.members)
                           /\ overtaken' = IF Synced(s.of, s.active, s.members) = open
                                           THEN overtaken ELSE overtaken \cup {s.of}
        BY <1>18 DEF LateSync, Sync
    <2>2. s.of \in Contracts BY DEF TypeOK
    <2>3. CASE open' = open BY <2>3
    <2>4. CASE open' # open
        <3>1. d # s.of BY <2>1, <2>4
        <3>2. QED BY <2>1, <2>2, <3>1, SyncHousedBy
    <2>5. QED BY <2>3, <2>4
<1>19. ASSUME LateSubmit PROVE Housed'
    <2> SUFFICES ASSUME NEW d \in Contracts, d \notin overtaken', NEW q \in People
                 PROVE  <<d, q>> \in open' <=>
                            status'[d] = "ACTIVE" /\ q \in {Tenant[d]} \cup members'[d]
        BY DEF Housed, HousedBy
    <2>0. d \notin overtaken => HousedBy(d) BY DEF Housed
    <2>1. QED BY <1>19, <2>0 DEF LateSubmit, HousedBy, TypeOK, Fresh
<1>20. ASSUME Crash PROVE Housed'
    BY <1>20, LifecycleAssumption DEF Crash, TypeOK, Fresh, Housed, HousedBy
<1>21. ASSUME UNCHANGED vars PROVE Housed'
    BY <1>21 DEF vars, TypeOK, Fresh, Housed, HousedBy
<1>22. QED BY <1>1, <1>2, <1>3, <1>4, <1>5, <1>6, <1>7, <1>8, <1>9, <1>10, <1>11, <1>12, <1>13, <1>14, <1>15, <1>16, <1>17, <1>18, <1>19, <1>20, <1>21 DEF Next, ContractStep

(* A room without use has nobody in it and no place held. *)
LEMMA UnusedIsEmpty ==
    ASSUME TypeOK, NEW r \in Rooms, Used(r) = 0
    PROVE  OpenIn(r) = {} /\ LiveIn(r) = {}
<1>1. IsFiniteSet(OpenIn(r))
    <2>1. IsFiniteSet(Contracts \X People) BY LifecycleAssumption, FS_Product
    <2>2. OpenIn(r) \subseteq Contracts \X People BY DEF OpenIn, TypeOK
    <2>3. QED BY <2>1, <2>2, FS_Subset
<1>2. IsFiniteSet(LiveIn(r))
    <2>1. LiveIn(r) \subseteq Contracts BY DEF LiveIn, In
    <2>2. QED BY <2>1, LifecycleAssumption, FS_Subset
<1>3. Cardinality(OpenIn(r)) \in Nat /\ Cardinality(LiveIn(r)) \in Nat
    BY <1>1, <1>2, FS_CardinalityType
<1>4. Cardinality(OpenIn(r)) = 0 /\ Cardinality(LiveIn(r)) = 0 BY <1>3 DEF Used
<1>5. QED BY <1>1, <1>2, <1>4, FS_EmptySet

(* Where nobody is housed no contract is active. *)
LEMMA EmptyIsInactive ==
    ASSUME TypeOK, Housed, NEW r \in Rooms, Settled(r), OpenIn(r) = {}
    PROVE  ActiveIn(r) = {}
<1> SUFFICES ASSUME NEW c \in ActiveIn(r) PROVE FALSE OBVIOUS
<1>1. c \in Contracts /\ place[c] = r /\ status[c] = "ACTIVE" /\ c \notin overtaken
    BY DEF ActiveIn, In, Settled
<1>2. Tenant[c] \in People BY <1>1, Candidates
<1>3. <<c, Tenant[c]>> \in open BY <1>1, <1>2 DEF Housed, HousedBy
<1>4. <<c, Tenant[c]>> \in OpenIn(r) BY <1>1, <1>3 DEF OpenIn
<1>5. QED BY <1>4

(* Every command leaves the rooms as their contracts make them. *)
LEMMA ShownStep ==
    ASSUME IndInv, [Next]_vars
    PROVE  Shown'
<1> USE DEF IndInv
<1>1. ASSUME NEW c \in Contracts, NEW r \in Rooms, Book(c, r) PROVE Shown'
    <2> SUFFICES ASSUME NEW q \in Rooms, Settled(q)' PROVE ShownAt(q)' BY DEF Shown
    <2>0. Settled(q) => ShownAt(q) BY DEF Shown
    <2>1. place[c] = NoRoom BY <1>1 DEF Book, Fresh
    <2>2. \A d \in Contracts : place'[d] = q <=> place[d] = q \/ (d = c /\ q = r)
        BY <1>1, <2>1, LifecycleAssumption DEF Book, TypeOK
    <2>3. Settled(q) BY <1>1, <2>2 DEF Book, Settled, In
    <2>4. ShownAt(q) BY <2>0, <2>3
    <2>5. CASE q # r
        <3>1. \A d \in Contracts : place[d] = q => d # c
            BY <2>1, LifecycleAssumption
        <3>2. QED BY <1>1, <2>2, <2>4, <2>5, <3>1 DEF Book, ShownAt, In, ActiveIn, TypeOK, Swept
    <2>6. CASE q = r
        <3>1. q \notin Shared => ActiveIn(q) = {} BY <1>1, <2>3, <2>6, UnusedIsEmpty, EmptyIsInactive DEF Book, Swept
        <3>2. QED BY <1>1, <2>2, <2>4, <2>6, <3>1 DEF Book, ShownAt, In, ActiveIn, TypeOK, Swept
    <2>7. QED BY <2>5, <2>6
<1>2. ASSUME NEW c \in Contracts, CancelBooking(c) PROVE Shown'
    <2> SUFFICES ASSUME NEW q \in Rooms, Settled(q)' PROVE ShownAt(q)' BY DEF Shown
    <2>0. Settled(q) => ShownAt(q) BY DEF Shown
    <2>1. QED BY <1>2, <2>0 DEF CancelBooking, ShownAt, Settled, In, ActiveIn, TypeOK, Fresh
<1>3. ASSUME NEW c \in Contracts, HoldRunsOut(c) PROVE Shown'
    <2> SUFFICES ASSUME NEW q \in Rooms, Settled(q)' PROVE ShownAt(q)' BY DEF Shown
    <2>0. Settled(q) => ShownAt(q) BY DEF Shown
    <2>1. QED BY <1>3, <2>0 DEF HoldRunsOut, ShownAt, Settled, In, ActiveIn, TypeOK, Fresh
<1>4. ASSUME SweepHolds PROVE Shown'
    <2> SUFFICES ASSUME NEW q \in Rooms, Settled(q)' PROVE ShownAt(q)' BY DEF Shown
    <2>0. Settled(q) => ShownAt(q) BY DEF Shown
    <2>1. QED BY <1>4, <2>0 DEF SweepHolds, ShownAt, Settled, In, ActiveIn, TypeOK, Fresh
<1>5. ASSUME NEW c \in Contracts, NEW g \in Groups[c], Convert(c, g) PROVE Shown'
    <2> SUFFICES ASSUME NEW q \in Rooms, Settled(q)' PROVE ShownAt(q)' BY DEF Shown
    <2>0. Settled(q) => ShownAt(q) BY DEF Shown
    <2>1. QED BY <1>5, <2>0 DEF Convert, ShownAt, Settled, In, ActiveIn, TypeOK, Fresh, Swept
<1>6. ASSUME NEW c \in Contracts, NEW r \in Rooms, NEW g \in Groups[c], Create(c, r, g) PROVE Shown'
    <2> SUFFICES ASSUME NEW q \in Rooms, Settled(q)' PROVE ShownAt(q)' BY DEF Shown
    <2>0. Settled(q) => ShownAt(q) BY DEF Shown
    <2>1. place[c] = NoRoom BY <1>6 DEF Create, Fresh
    <2>2. \A d \in Contracts : place'[d] = q <=> place[d] = q \/ (d = c /\ q = r)
        BY <1>6, <2>1, LifecycleAssumption DEF Create, TypeOK
    <2>3. Settled(q) BY <1>6, <2>2 DEF Create, Settled, In
    <2>4. ShownAt(q) BY <2>0, <2>3
    <2>5. CASE q # r
        <3>1. \A d \in Contracts : place[d] = q => d # c
            BY <2>1, LifecycleAssumption
        <3>2. QED BY <1>6, <2>2, <2>4, <2>5, <3>1 DEF Create, ShownAt, In, ActiveIn, TypeOK
    <2>6. CASE q = r
        <3>1. QED BY <1>6, <2>2, <2>4, <2>6 DEF Create, ShownAt, In, ActiveIn, TypeOK, Fresh
    <2>7. QED BY <2>5, <2>6
<1>7. ASSUME NEW c \in Contracts, Submit(c) PROVE Shown'
    <2> SUFFICES ASSUME NEW q \in Rooms, Settled(q)' PROVE ShownAt(q)' BY DEF Shown
    <2>0. Settled(q) => ShownAt(q) BY DEF Shown
    <2>1. CASE status' = status BY <1>7, <2>0, <2>1 DEF Submit, ShownAt, Settled, In, ActiveIn, TypeOK, Fresh
    <2>2. CASE status' = [status EXCEPT ![c] = "PENDING_APPROVAL"]
        BY <1>7, <2>0, <2>2 DEF Submit, ShownAt, Settled, In, ActiveIn, TypeOK, Fresh
    <2>3. QED BY <1>7, <2>1, <2>2 DEF Submit
<1>8. ASSUME NEW c \in Contracts, NEW g \in Groups[c] \cup {members[c]}, Edit(c, g) PROVE Shown'
    <2> SUFFICES ASSUME NEW q \in Rooms, Settled(q)' PROVE ShownAt(q)' BY DEF Shown
    <2>0. Settled(q) => ShownAt(q) BY DEF Shown
    <2>1. QED BY <1>8, <2>0 DEF Edit, ShownAt, Settled, In, ActiveIn, TypeOK, Fresh
<1>9. ASSUME NEW c \in Contracts, Approve(c) PROVE Shown'
    <2> SUFFICES ASSUME NEW q \in Rooms, Settled(q)' PROVE ShownAt(q)' BY DEF Shown
    <2>0. Settled(q) => ShownAt(q) BY DEF Shown
    <2>1. QED BY <1>9, <2>0 DEF Approve, ShownAt, Settled, In, ActiveIn, TypeOK, Fresh, Admissible, Approved
<1>10. ASSUME NEW c \in Contracts, Activate(c) PROVE Shown'
    <2> SUFFICES ASSUME NEW q \in Rooms, Settled(q)' PROVE ShownAt(q)' BY DEF Shown
    <2>0. Settled(q) => ShownAt(q) BY DEF Shown
    <2>1. QED BY <1>10, <2>0 DEF Activate, ShownAt, Settled, In, ActiveIn, TypeOK, Fresh, Ready
<1>11. ASSUME NEW c \in Contracts, NEW r \in Rooms, Import(c, r) PROVE Shown'
    <2> SUFFICES ASSUME NEW q \in Rooms, Settled(q)' PROVE ShownAt(q)' BY DEF Shown
    <2>0. Settled(q) => ShownAt(q) BY DEF Shown
    <2>1. place[c] = NoRoom BY <1>11 DEF Import, Fresh
    <2>2. \A d \in Contracts : place'[d] = q <=> place[d] = q \/ (d = c /\ q = r)
        BY <1>11, <2>1, LifecycleAssumption DEF Import, TypeOK
    <2>3. Settled(q) BY <1>11, <2>2 DEF Import, Settled, In
    <2>4. ShownAt(q) BY <2>0, <2>3
    <2>5. CASE q # r
        <3>1. \A d \in Contracts : place[d] = q => d # c
            BY <2>1, LifecycleAssumption
        <3>2. QED BY <1>11, <2>2, <2>4, <2>5, <3>1 DEF Import, ShownAt, In, ActiveIn, TypeOK, TargetHasPlace
    <2>6. CASE q = r
        <3>1. q \notin Shared => ActiveIn(q) = {} BY <1>11, <2>3, <2>6 DEF Import, TargetHasPlace
        <3>2. QED BY <1>11, <2>2, <2>4, <2>6, <3>1 DEF Import, ShownAt, In, ActiveIn, TypeOK, TargetHasPlace
    <2>7. QED BY <2>5, <2>6
<1>12. ASSUME NEW c \in Contracts, NEW p \in UNION Groups[c], AddOccupant(c, p) PROVE Shown'
    <2> SUFFICES ASSUME NEW q \in Rooms, Settled(q)' PROVE ShownAt(q)' BY DEF Shown
    <2>0. Settled(q) => ShownAt(q) BY DEF Shown
    <2>1. QED BY <1>12, <2>0 DEF AddOccupant, ShownAt, Settled, In, ActiveIn, TypeOK, Fresh
<1>13. ASSUME NEW c \in Contracts, NEW p \in UNION Groups[c], MoveOut(c, p) PROVE Shown'
    <2> SUFFICES ASSUME NEW q \in Rooms, Settled(q)' PROVE ShownAt(q)' BY DEF Shown
    <2>0. Settled(q) => ShownAt(q) BY DEF Shown
    <2>1. QED BY <1>13, <2>0 DEF MoveOut, ShownAt, Settled, In, ActiveIn, TypeOK, Fresh, Vacated, LiveIn
<1>14. ASSUME NEW c \in Contracts, NEW t \in Contracts \ {c}, NEW r \in Rooms, Transfer(c, t, r) PROVE Shown'
    <2> SUFFICES ASSUME NEW q \in Rooms, Settled(q)' PROVE ShownAt(q)' BY DEF Shown
    <2>0. Settled(q) => ShownAt(q) BY DEF Shown
    <2>1. place[t] = NoRoom BY <1>14 DEF Transfer, Fresh
    <2>2. \A d \in Contracts : place'[d] = q <=> place[d] = q \/ (d = t /\ q = r)
        BY <1>14, <2>1, LifecycleAssumption DEF Transfer, TypeOK
    <2>3. Settled(q) BY <1>14, <2>2 DEF Transfer, Settled, In
    <2>4. ShownAt(q) BY <2>0, <2>3
    <2>5. CASE q # r
        <3>1. \A d \in Contracts : place[d] = q => d # t
            BY <2>1, LifecycleAssumption
        <3>2. QED BY <1>14, <2>2, <2>4, <2>5, <3>1 DEF Transfer, ShownAt, In, ActiveIn, TypeOK, TargetHasPlace
    <2>6. CASE q = r
        <3>1. q \notin Shared => ActiveIn(q) = {} BY <1>14, <2>3, <2>6 DEF Transfer, TargetHasPlace
        <3>2. QED BY <1>14, <2>2, <2>4, <2>6, <3>1 DEF Transfer, ShownAt, In, ActiveIn, TypeOK, TargetHasPlace
    <2>7. QED BY <2>5, <2>6
<1>15. ASSUME NEW c \in Contracts, NEW turnover \in {"AVAILABLE", "CLEANING"}, Settle(c, turnover) PROVE Shown'
    <2> SUFFICES ASSUME NEW q \in Rooms, Settled(q)' PROVE ShownAt(q)' BY DEF Shown
    <2>0. Settled(q) => ShownAt(q) BY DEF Shown
    <2>1. QED BY <1>15, <2>0 DEF Settle, ShownAt, Settled, In, ActiveIn, TypeOK, Fresh, Vacated, LiveIn
<1>16. ASSUME NEW r \in Rooms, MakeAvailable(r) PROVE Shown'
    <2> SUFFICES ASSUME NEW q \in Rooms, Settled(q)' PROVE ShownAt(q)' BY DEF Shown
    <2>0. Settled(q) => ShownAt(q) BY DEF Shown
    <2>1. QED BY <1>16, <2>0 DEF MakeAvailable, ShownAt, Settled, In, ActiveIn, TypeOK, Fresh, InUse, LiveIn, Visible
<1>17. ASSUME NEW r \in Rooms, NEW s \in RoomStatuses, SetRoomStatus(r, s) PROVE Shown'
    <2> SUFFICES ASSUME NEW q \in Rooms, Settled(q)' PROVE ShownAt(q)' BY DEF Shown
    <2>0. Settled(q) => ShownAt(q) BY DEF Shown
    <2>1. QED BY <1>17, <2>0, LifecycleAssumption DEF SetRoomStatus, ShownAt, Settled, In, ActiveIn, TypeOK, Fresh, NeverReservedByHand
<1>18. ASSUME LateSync PROVE Shown'
    <2> SUFFICES ASSUME NEW q \in Rooms, Settled(q)' PROVE ShownAt(q)' BY DEF Shown
    <2>0. Settled(q) => ShownAt(q) BY DEF Shown
    <2>1. QED BY <1>18, <2>0 DEF LateSync, ShownAt, Settled, In, ActiveIn, TypeOK, Fresh
<1>19. ASSUME LateSubmit PROVE Shown'
    <2> SUFFICES ASSUME NEW q \in Rooms, Settled(q)' PROVE ShownAt(q)' BY DEF Shown
    <2>0. Settled(q) => ShownAt(q) BY DEF Shown
    <2>1. QED BY <1>19, <2>0 DEF LateSubmit, ShownAt, Settled, In, ActiveIn, TypeOK, Fresh
<1>20. ASSUME Crash PROVE Shown'
    <2> SUFFICES ASSUME NEW q \in Rooms, Settled(q)' PROVE ShownAt(q)' BY DEF Shown
    <2>0. Settled(q) => ShownAt(q) BY DEF Shown
    <2>1. QED BY <1>20, <2>0 DEF Crash, ShownAt, Settled, In, ActiveIn, TypeOK, Fresh
<1>21. ASSUME UNCHANGED vars PROVE Shown'
    BY <1>21 DEF vars, Shown, ShownAt, Settled, In, ActiveIn, TypeOK, Fresh
<1>22. QED BY <1>1, <1>2, <1>3, <1>4, <1>5, <1>6, <1>7, <1>8, <1>9, <1>10, <1>11, <1>12, <1>13, <1>14, <1>15, <1>16, <1>17, <1>18, <1>19, <1>20, <1>21 DEF Next, ContractStep

-----------------------------------------------------------------------------
(* The invariant holds at first *)
LEMMA InitInd == Init => IndInv
<1> SUFFICES ASSUME Init PROVE IndInv OBVIOUS
<1>1. TypeOK
    BY LifecycleAssumption DEF Init, TypeOK, Statuses, Visible, Pending, Holds, RoomStatuses
<1>2. Fresh /\ Housed BY Candidates DEF Init, Fresh, Housed, HousedBy
<1>3. Shown BY DEF Init, Shown, ShownAt, ActiveIn, In
<1>4. QED BY <1>1, <1>2, <1>3 DEF IndInv

(* and after every step. *)
LEMMA IndInvStep == IndInv /\ [Next]_vars => IndInv'
<1> SUFFICES ASSUME IndInv, [Next]_vars PROVE IndInv' OBVIOUS
<1>1. TypeOK' BY TypeStep DEF IndInv
<1>2. Fresh' BY FreshStep DEF IndInv
<1>3. Housed' BY HousedStep DEF IndInv
<1>4. Shown' BY ShownStep
<1>5. QED BY <1>1, <1>2, <1>3, <1>4 DEF IndInv

(* The inductive invariant. *)
THEOREM Invariant == Spec => []IndInv
<1>1. Init => IndInv BY InitInd
<1>2. IndInv /\ [Next]_vars => IndInv' BY IndInvStep
<1>3. QED BY <1>1, <1>2, PTL DEF Spec

(* Type correctness of contracts, holds, occupancies and rooms. *)
THEOREM TypeCorrect == Spec => []TypeOK
<1>1. IndInv => TypeOK BY DEF IndInv
<1>2. QED BY <1>1, Invariant, PTL

(* Occupancies follow the contract: those of an active contract are exactly *)
(* its tenant's and its co-representatives', any other has none.            *)
LEMMA HousedIsOccupancy ==
    ASSUME TypeOK, Housed
    PROVE  OccupancyFollowsContract
<1> SUFFICES ASSUME NEW c \in Contracts \ overtaken
             PROVE  {o \in open : o[1] = c} =
                        IF status[c] = "ACTIVE" THEN Residents(c, members[c]) ELSE {}
    BY DEF OccupancyFollowsContract
<1>1. HousedBy(c) BY DEF Housed
<1>2. \A o \in open : o = <<o[1], o[2]>> /\ o[2] \in People BY DEF TypeOK
<1>3. {Tenant[c]} \cup members[c] \subseteq People BY Candidates DEF TypeOK
<1>4. ASSUME NEW o \in open, o[1] = c
      PROVE  status[c] = "ACTIVE" /\ o \in Residents(c, members[c])
    BY <1>1, <1>2, <1>4 DEF HousedBy, Residents
<1>5. ASSUME status[c] = "ACTIVE", NEW o \in Residents(c, members[c])
      PROVE  o \in open /\ o[1] = c
    BY <1>1, <1>3, <1>5 DEF HousedBy, Residents
<1>6. QED BY <1>4, <1>5

(* Nobody is housed by a contract that is not active, and everybody whom   *)
(* an active contract names is, until a late write changes it.             *)
THEOREM OccupancyIsRight == Spec => []OccupancyFollowsContract
<1>1. IndInv => OccupancyFollowsContract BY HousedIsOccupancy DEF IndInv
<1>2. QED BY <1>1, Invariant, PTL

(* A whole room is never let to two contracts at once, although activation  *)
(* asks only how the room is shown.                                         *)
THEOREM WholeRoomLetOnce == Spec => []OneContractPerWholeRoom
<1>1. IndInv => OneContractPerWholeRoom
    BY DEF IndInv, Shown, ShownAt, OneContractPerWholeRoom
<1>2. QED BY <1>1, Invariant, PTL

(* What is shown as available is empty. *)
LEMMA ShownIsEmpty ==
    ASSUME TypeOK, Housed, Shown
    PROVE  AvailableMeansEmpty
<1> SUFFICES ASSUME NEW r \in Rooms, room[r] = "AVAILABLE", Settled(r)
             PROVE  OpenIn(r) = {} /\ ActiveIn(r) = {} /\ LiveIn(r) \subseteq Converted
    BY DEF AvailableMeansEmpty
<1>1. \A c \in In(r) : status[c] # "ACTIVE" /\ (hold[c] = "LIVE" => c \in Converted)
    BY DEF Shown, ShownAt
<1>2. OpenIn(r) = {}
    <2> SUFFICES ASSUME NEW o \in OpenIn(r) PROVE FALSE OBVIOUS
    <2>1. /\ o \in open /\ o[1] \in Contracts /\ o[2] \in People /\ o = <<o[1], o[2]>>
          /\ place[o[1]] = r
        BY DEF OpenIn, TypeOK
    <2>2. o[1] \notin overtaken /\ status[o[1]] # "ACTIVE" BY <1>1, <2>1 DEF Settled, In
    <2>3. QED BY <2>1, <2>2 DEF Housed, HousedBy
<1>3. QED BY <1>1, <1>2 DEF ActiveIn, LiveIn

(* A room shown as available houses nobody and is not held for anybody, a  *)
(* converted booking apart.                                                *)
THEOREM AvailableIsEmpty == Spec => []AvailableMeansEmpty
<1>1. IndInv => AvailableMeansEmpty BY ShownIsEmpty DEF IndInv
<1>2. QED BY <1>1, Invariant, PTL

-----------------------------------------------------------------------------
(* Places.  A contract may be shorter of people than it declared and, once *)
(* active, still not take more places than it declared.  So the invariant  *)
(* counts, of the people in a shared room, any that are no more to a       *)
(* contract than it declared: they are never more than the room takes.     *)

Of(O, c) == {o \in O : o[1] = c}

PlacesKept(r) ==
    \A O \in SUBSET OpenIn(r) :
        (\A c \in Contracts : Cardinality(Of(O, c)) <= Declared[c])
            => Cardinality(O) <= Capacity[r]

Placed == \A r \in Shared : Settled(r) => PlacesKept(r)

(* Whoever is active in the room afterwards was before, with as many.      *)
StaysIn(r) ==
    \A c \in Contracts : place'[c] = r /\ status'[c] = "ACTIVE" =>
        status[c] = "ACTIVE" /\ place[c] = r /\ members'[c] \subseteq members[c]

(* A contract that has a room keeps it, and what a late write changed      *)
(* stays marked.                                                           *)
KeepsPlaces ==
    /\ overtaken \subseteq overtaken'
    /\ \A c \in Contracts : place[c] # NoRoom => place'[c] = place[c]

(* No command moves a contract to another room. *)
LEMMA PlacesStay ==
    ASSUME IndInv, [Next]_vars
    PROVE  KeepsPlaces
<1>1. ASSUME NEW c \in Contracts, place[c] = NoRoom, NEW r \in Rooms,
             place' = [place EXCEPT ![c] = r]
      PROVE  \A d \in Contracts : place[d] # NoRoom => place'[d] = place[d]
    BY <1>1 DEF IndInv, TypeOK
<1>2. ASSUME NEW c \in Contracts, NEW r \in Rooms,
             Book(c, r) \/ Import(c, r) \/ \E g \in Groups[c] : Create(c, r, g)
      PROVE  KeepsPlaces
    <2>1. place[c] = NoRoom BY <1>2 DEF Book, Import, Create, IndInv, Fresh
    <2>2. overtaken' = overtaken /\ place' = [place EXCEPT ![c] = r]
        BY <1>2 DEF Book, Import, Create
    <2>3. QED BY <1>1, <2>1, <2>2 DEF KeepsPlaces
<1>3. ASSUME NEW c \in Contracts, NEW t \in Contracts \ {c}, NEW r \in Rooms, Transfer(c, t, r)
      PROVE  KeepsPlaces
    <2>1. place[t] = NoRoom BY <1>3 DEF Transfer, IndInv, Fresh
    <2>2. overtaken' = overtaken /\ place' = [place EXCEPT ![t] = r] BY <1>3 DEF Transfer
    <2>3. QED BY <1>1, <2>1, <2>2 DEF KeepsPlaces
<1>4. ASSUME UNCHANGED place, overtaken \subseteq overtaken' PROVE KeepsPlaces
    BY <1>4 DEF KeepsPlaces
<1>5. ASSUME LateSync \/ LateSubmit \/ Crash \/ SweepHolds \/ UNCHANGED vars PROVE KeepsPlaces
    BY <1>4, <1>5 DEF LateSync, LateSubmit, Crash, SweepHolds, vars
<1>6. ASSUME NEW r \in Rooms, MakeAvailable(r) \/ \E s \in RoomStatuses : SetRoomStatus(r, s)
      PROVE  KeepsPlaces
    BY <1>4, <1>6 DEF MakeAvailable, SetRoomStatus
<1>7. ASSUME NEW c \in Contracts,
             \/ CancelBooking(c) \/ HoldRunsOut(c) \/ Submit(c) \/ Approve(c) \/ Activate(c)
             \/ \E g \in Groups[c] : Convert(c, g)
             \/ \E g \in Groups[c] \cup {members[c]} : Edit(c, g)
             \/ \E p \in UNION Groups[c] : AddOccupant(c, p) \/ MoveOut(c, p)
             \/ \E turnover \in {"AVAILABLE", "CLEANING"} : Settle(c, turnover)
      PROVE  KeepsPlaces
    BY <1>4, <1>7 DEF CancelBooking, HoldRunsOut, Submit, Approve, Activate, Convert, Edit,
        AddOccupant, MoveOut, Settle
<1>8. QED BY <1>2, <1>3, <1>5, <1>6, <1>7 DEF Next, ContractStep

(* Only three commands bring people into a shared room. *)
Enters(r) ==
    \E c \in Contracts :
        \/ Activate(c) /\ place[c] = r
        \/ Import(c, r)
        \/ \E t \in Contracts \ {c} : Transfer(c, t, r)

(* All other commands only take people out of it. *)
LEMMA EntersOrStays ==
    ASSUME IndInv, [Next]_vars, NEW r \in Shared
    PROVE  Enters(r) \/ StaysIn(r)
<1> USE DEF IndInv
<1>0. r \in Rooms /\ r # NoRoom BY LifecycleAssumption
<1>1. ASSUME UNCHANGED <<status, place, members>> PROVE StaysIn(r)
    BY <1>1 DEF StaysIn
<1>2. ASSUME NEW c \in Contracts, NEW q \in Rooms, Book(c, q) PROVE StaysIn(r)
    BY <1>0, <1>2 DEF Book, StaysIn, TypeOK
<1>3. ASSUME NEW c \in Contracts, NEW q \in Rooms, NEW g \in Groups[c], Create(c, q, g)
      PROVE  StaysIn(r)
    BY <1>0, <1>3 DEF Create, StaysIn, TypeOK
<1>4. ASSUME NEW c \in Contracts, NEW q \in Rooms, Import(c, q), q # r PROVE StaysIn(r)
    BY <1>0, <1>4 DEF Import, StaysIn, TypeOK
<1>5. ASSUME NEW c \in Contracts, NEW t \in Contracts \ {c}, NEW q \in Rooms, Transfer(c, t, q),
             q # r
      PROVE  StaysIn(r)
    BY <1>0, <1>5 DEF Transfer, StaysIn, TypeOK
<1>6. ASSUME NEW c \in Contracts, Activate(c), place[c] # r PROVE StaysIn(r)
    BY <1>0, <1>6 DEF Activate, StaysIn, TypeOK
<1>7. ASSUME NEW c \in Contracts, NEW g \in Groups[c] \cup {members[c]}, Edit(c, g)
      PROVE  StaysIn(r)
    BY <1>0, <1>7 DEF Edit, MembershipKept, StaysIn, TypeOK
<1>8. ASSUME NEW c \in Contracts, NEW p \in UNION Groups[c], AddOccupant(c, p)
      PROVE  StaysIn(r)
    BY <1>0, <1>8 DEF AddOccupant, StaysIn, TypeOK
<1>9. ASSUME NEW c \in Contracts, NEW p \in UNION Groups[c], MoveOut(c, p)
      PROVE  StaysIn(r)
    BY <1>0, <1>9 DEF MoveOut, StaysIn, TypeOK
<1>10. ASSUME NEW c \in Contracts,
              Submit(c) \/ Approve(c) \/ \E turnover \in {"AVAILABLE", "CLEANING"} : Settle(c, turnover)
       PROVE  StaysIn(r)
    BY <1>0, <1>10 DEF Submit, Approve, Settle, StaysIn, TypeOK
<1>11. ASSUME NEW c \in Contracts, NEW g \in Groups[c], Convert(c, g) PROVE StaysIn(r)
    BY <1>0, <1>11 DEF Convert, StaysIn, TypeOK
<1>12. ASSUME LateSubmit PROVE StaysIn(r)
    BY <1>0, <1>12 DEF LateSubmit, StaysIn, TypeOK
<1>13. ASSUME LateSync \/ Crash \/ SweepHolds \/ UNCHANGED vars PROVE StaysIn(r)
    BY <1>1, <1>13 DEF LateSync, Crash, SweepHolds, vars
<1>14. ASSUME NEW q \in Rooms, MakeAvailable(q) \/ \E s \in RoomStatuses : SetRoomStatus(q, s)
       PROVE  StaysIn(r)
    BY <1>1, <1>14 DEF MakeAvailable, SetRoomStatus
<1>15. ASSUME NEW c \in Contracts, CancelBooking(c) \/ HoldRunsOut(c) PROVE StaysIn(r)
    BY <1>1, <1>15 DEF CancelBooking, HoldRunsOut
<1>16. QED
    BY <1>2, <1>3, <1>4, <1>5, <1>6, <1>7, <1>8, <1>9, <1>10, <1>11, <1>12, <1>13, <1>14, <1>15
    DEF Next, ContractStep, Enters

(* The people in a room, one by one. *)
LEMMA InARoom ==
    ASSUME TypeOK, Housed, NEW r \in Rooms, Settled(r), NEW o \in OpenIn(r)
    PROVE  \E c \in Contracts : \E p \in People :
              o = <<c, p>> /\ o[1] = c /\ o \in open /\ place[c] = r /\ c \notin overtaken
              /\ status[c] = "ACTIVE" /\ p \in {Tenant[c]} \cup members[c]
<1>1. o \in open /\ o \in Contracts \X People /\ place[o[1]] = r BY DEF OpenIn, TypeOK
<1>2. PICK c \in Contracts, p \in People : o = <<c, p>> /\ o[1] = c BY <1>1
<1>3. c \notin overtaken BY <1>1, <1>2 DEF Settled, In
<1>4. QED BY <1>1, <1>2, <1>3 DEF Housed, HousedBy

(* The people in a room can be counted. *)
LEMMA FinitelyMany ==
    ASSUME TypeOK, NEW r
    PROVE  IsFiniteSet(OpenIn(r)) /\ Cardinality(OpenIn(r)) \in Nat
<1>1. IsFiniteSet(Contracts \X People) BY LifecycleAssumption, FS_Product
<1>2. OpenIn(r) \subseteq Contracts \X People BY DEF OpenIn, TypeOK
<1>3. IsFiniteSet(OpenIn(r)) BY <1>1, <1>2, FS_Subset
<1>4. QED BY <1>3, FS_CardinalityType

(* A room that no late write has touched after a step was untouched        *)
(* before.                                                                 *)
LEMMA SettledBefore ==
    ASSUME KeepsPlaces, NEW r \in Rooms, Settled(r)'
    PROVE  Settled(r)
BY LifecycleAssumption DEF KeepsPlaces, Settled, In

(* People who are in the room after a step; whom the step did not touch    *)
(* was there before.                                                       *)
LEMMA InTheRoomThen ==
    ASSUME TypeOK', Housed', NEW r \in Rooms, Settled(r)', NEW o \in OpenIn(r)'
    PROVE  \E c \in Contracts : \E p \in People :
              o = <<c, p>> /\ o[1] = c /\ o \in open' /\ place'[c] = r /\ c \notin overtaken'
              /\ status'[c] = "ACTIVE" /\ p \in {Tenant[c]} \cup members'[c]
<1>1. o \in open' /\ o \in Contracts \X People /\ place'[o[1]] = r BY DEF OpenIn, TypeOK
<1>2. PICK c \in Contracts, p \in People : o = <<c, p>> /\ o[1] = c BY <1>1
<1>3. c \notin overtaken' BY <1>1, <1>2 DEF Settled, In
<1>4. QED BY <1>1, <1>2, <1>3 DEF Housed, HousedBy

(* A room nobody enters keeps its places. *)
LEMMA StayingKeeps ==
    ASSUME IndInv, IndInv', Placed, KeepsPlaces, NEW r \in Shared, StaysIn(r), Settled(r)'
    PROVE  PlacesKept(r)'
<1>0. r \in Rooms BY LifecycleAssumption
<1>1. PlacesKept(r) BY <1>0, SettledBefore DEF Placed
<1>2. OpenIn(r)' \subseteq OpenIn(r)
    <2> SUFFICES ASSUME NEW o \in OpenIn(r)' PROVE o \in OpenIn(r) OBVIOUS
    <2>1. PICK c \in Contracts, p \in People :
              o = <<c, p>> /\ o[1] = c /\ place'[c] = r /\ c \notin overtaken'
              /\ status'[c] = "ACTIVE" /\ p \in {Tenant[c]} \cup members'[c]
        BY <1>0, InTheRoomThen DEF IndInv
    <2>2. c \notin overtaken /\ status[c] = "ACTIVE" /\ place[c] = r
          /\ p \in {Tenant[c]} \cup members[c]
        BY <2>1 DEF StaysIn, KeepsPlaces
    <2>3. o \in open BY <2>1, <2>2 DEF IndInv, Housed, HousedBy
    <2>4. QED BY <2>1, <2>2, <2>3 DEF OpenIn
<1>3. QED BY <1>1, <1>2 DEF PlacesKept

(* Room for all that a contract declared is room for any part of it.       *)
LEMMA RoomForDeclared ==
    ASSUME TypeOK, NEW r \in Rooms, NEW c \in Contracts,
           Cardinality(OpenIn(r)) + Declared[c] <= Capacity[r],
           OpenIn(r)' \subseteq OpenIn(r) \cup ({c} \X People)
    PROVE  PlacesKept(r)'
<1>0. Declared[c] \in Nat /\ Capacity[r] \in Nat BY LifecycleAssumption
<1>1. IsFiniteSet(OpenIn(r)) /\ Cardinality(OpenIn(r)) \in Nat BY FinitelyMany
<1>2. ASSUME NEW O \in SUBSET (OpenIn(r)'), Cardinality(Of(O, c)) <= Declared[c]
      PROVE  Cardinality(O) <= Capacity[r]
    <2> DEFINE A == O \cap OpenIn(r)
               B == Of(O, c)
    <2>1. O = A \cup B BY DEF Of
    <2>2. IsFiniteSet(A) /\ Cardinality(A) <= Cardinality(OpenIn(r)) BY <1>1, FS_Subset
    <2>3. IsFiniteSet(B)
        <3>1. B \subseteq OpenIn(r) \cup ({c} \X People) BY DEF Of
        <3>2. IsFiniteSet({c} \X People) BY LifecycleAssumption, FS_Singleton, FS_Product
        <3>3. IsFiniteSet(OpenIn(r) \cup ({c} \X People)) BY <1>1, <3>2, FS_Union
        <3>4. QED BY <3>1, <3>3, FS_Subset
    <2>4. Cardinality(A) \in Nat /\ Cardinality(B) \in Nat /\ Cardinality(A \cap B) \in Nat
        <3>1. IsFiniteSet(A \cap B) BY <2>2, FS_Subset
        <3>2. QED BY <2>2, <2>3, <3>1, FS_CardinalityType
    <2>5. Cardinality(A \cup B) = Cardinality(A) + Cardinality(B) - Cardinality(A \cap B)
        BY <2>2, <2>3, FS_Union
    <2>6. Cardinality(B) <= Declared[c] BY <1>2
    <2> HIDE DEF A, B
    <2>7. Cardinality(O) = Cardinality(A \cup B) BY <2>1
    <2>8. Cardinality(A \cup B) <= Capacity[r] BY <1>0, <1>1, <2>2, <2>4, <2>5, <2>6
    <2>9. QED BY <2>7, <2>8
<1>3. QED BY <1>2 DEF PlacesKept

(* Room for one more, whoever it is. *)
LEMMA RoomForOne ==
    ASSUME TypeOK, NEW r \in Rooms, NEW x, Cardinality(OpenIn(r)) + 1 <= Capacity[r],
           OpenIn(r)' \subseteq OpenIn(r) \cup {x}
    PROVE  PlacesKept(r)'
<1>0. Capacity[r] \in Nat BY LifecycleAssumption
<1>1. IsFiniteSet(OpenIn(r)) /\ Cardinality(OpenIn(r)) \in Nat BY FinitelyMany
<1>2. /\ IsFiniteSet(OpenIn(r) \cup {x}) /\ Cardinality(OpenIn(r) \cup {x}) \in Nat
      /\ Cardinality(OpenIn(r) \cup {x}) <= Cardinality(OpenIn(r)) + 1
    <2>1. IsFiniteSet(OpenIn(r) \cup {x}) BY <1>1, FS_AddElement
    <2>2. \/ Cardinality(OpenIn(r) \cup {x}) = Cardinality(OpenIn(r)) + 1
          \/ Cardinality(OpenIn(r) \cup {x}) = Cardinality(OpenIn(r))
        BY <1>1, FS_AddElement
    <2>3. QED BY <1>1, <2>1, <2>2
<1>3. ASSUME NEW O \in SUBSET (OpenIn(r)') PROVE Cardinality(O) <= Capacity[r]
    <2>1. O \subseteq OpenIn(r) \cup {x} OBVIOUS
    <2>2. IsFiniteSet(O) /\ Cardinality(O) <= Cardinality(OpenIn(r) \cup {x})
        BY <1>2, <2>1, FS_Subset
    <2>3. Cardinality(O) \in Nat BY <2>2, FS_CardinalityType
    <2>4. QED BY <1>0, <1>1, <1>2, <2>2, <2>3
<1>4. QED BY <1>3 DEF PlacesKept

(* A place that is used is not free for another. *)
LEMMA UsedPlaces ==
    ASSUME TypeOK, NEW r \in Rooms, Used(r) + 1 <= Capacity[r]
    PROVE  Cardinality(OpenIn(r)) + 1 <= Capacity[r]
<1>1. Cardinality(OpenIn(r)) \in Nat BY FinitelyMany
<1>2. LiveIn(r) \subseteq Contracts BY DEF LiveIn, In
<1>3. IsFiniteSet(LiveIn(r)) BY <1>2, LifecycleAssumption, FS_Subset
<1>4. Cardinality(LiveIn(r)) \in Nat BY <1>3, FS_CardinalityType
<1>5. Capacity[r] \in Nat BY LifecycleAssumption
<1>6. QED BY <1>1, <1>4, <1>5 DEF Used

(* Each of the three commands counts the people in the room before it adds *)
(* to them.                                                                *)
LEMMA EnteringKeeps ==
    ASSUME IndInv, IndInv', KeepsPlaces, NEW r \in Shared, Enters(r), Settled(r)'
    PROVE  PlacesKept(r)'
<1>0. r \in Rooms /\ TypeOK /\ Settled(r) BY LifecycleAssumption, SettledBefore DEF IndInv
<1>1. ASSUME NEW c \in Contracts, Activate(c), place[c] = r PROVE PlacesKept(r)'
    <2>1. Cardinality(OpenIn(r)) + Declared[c] <= Capacity[r] BY <1>1 DEF Activate, Fits
    <2>2. OpenIn(r)' \subseteq OpenIn(r) \cup ({c} \X People)
        <3>1. open' = open \cup Residents(c, members[c]) /\ place' = place
            BY <1>1 DEF Activate, Sync, Synced
        <3>2. {Tenant[c]} \cup members[c] \subseteq People BY Candidates DEF IndInv, TypeOK
        <3>3. QED BY <3>1, <3>2 DEF OpenIn, Residents
    <2>3. QED BY <1>0, <2>1, <2>2, RoomForDeclared
<1>2. ASSUME NEW c \in Contracts, NEW x, place[c] = NoRoom, place' = [place EXCEPT ![c] = r],
             x[1] = c, open' \subseteq open \cup {x}, status[c] = "NONE",
             overtaken' = overtaken, TargetHasPlace(r)
      PROVE  PlacesKept(r)'
    <2>1. Cardinality(OpenIn(r)) + 1 <= Capacity[r] BY <1>0, <1>2, UsedPlaces DEF TargetHasPlace
    <2>2. OpenIn(r)' \subseteq OpenIn(r) \cup {x}
        <3> SUFFICES ASSUME NEW o \in OpenIn(r)', o # x PROVE o \in OpenIn(r) OBVIOUS
        <3>1. PICK d \in Contracts, p \in People :
                  o = <<d, p>> /\ o[1] = d /\ o \in open' /\ place'[d] = r /\ d \notin overtaken'
            BY <1>0, InTheRoomThen DEF IndInv
        <3>2. o \in open BY <1>2, <3>1
        <3>3. d # c BY <1>2, <3>1, <3>2 DEF IndInv, Housed, HousedBy
        <3>4. place[d] = r BY <1>0, <1>2, <3>1, <3>3 DEF TypeOK
        <3>5. QED BY <3>1, <3>2, <3>4 DEF OpenIn
    <2>3. QED BY <1>0, <2>1, <2>2, RoomForOne
<1>3. ASSUME NEW c \in Contracts, Import(c, r) PROVE PlacesKept(r)'
    <2>1. place[c] = NoRoom BY <1>3 DEF Import, IndInv, Fresh
    <2>2. open' \subseteq open \cup {<<c, Tenant[c]>>} BY <1>3 DEF Import, Residents
    <2>3. <<c, Tenant[c]>>[1] = c OBVIOUS
    <2>4. QED BY <1>2, <1>3, <2>1, <2>2, <2>3 DEF Import
<1>4. ASSUME NEW c \in Contracts, NEW t \in Contracts \ {c}, Transfer(c, t, r)
      PROVE  PlacesKept(r)'
    <2>1. place[t] = NoRoom BY <1>4 DEF Transfer, IndInv, Fresh
    <2>2. open' \subseteq open \cup {<<t, Tenant[t]>>} BY <1>4 DEF Transfer
    <2>3. <<t, Tenant[t]>>[1] = t OBVIOUS
    <2>4. QED BY <1>2, <1>4, <2>1, <2>2, <2>3 DEF Transfer
<1>5. QED BY <1>1, <1>3, <1>4 DEF Enters

(* In an honest room the people of every contract count, so all do.        *)
LEMMA KeptIsNotCrowded ==
    ASSUME IndInv, Placed
    PROVE  RoomNotOvercrowded
<1> SUFFICES ASSUME NeverReservedByHand, NEW r \in Rooms, Settled(r), Honest(r)
             PROVE  Cardinality(OpenIn(r)) <= Capacity[r]
    BY DEF RoomNotOvercrowded
<1>0. TypeOK /\ Housed /\ Capacity[r] \in Nat BY LifecycleAssumption DEF IndInv
<1>1. ASSUME NEW c \in Contracts
      PROVE  /\ IsFiniteSet(Residents(c, members[c]))
             /\ Cardinality(Residents(c, members[c])) = 1 + Cardinality(members[c])
             /\ Cardinality(members[c]) \in Nat
    <2>1. members[c] \in SUBSET People /\ Tenant[c] \notin members[c]
        BY DEF IndInv, TypeOK, Fresh
    <2>2. IsFiniteSet(members[c]) /\ Cardinality(members[c]) \in Nat
        BY <2>1, LifecycleAssumption, FS_Subset, FS_CardinalityType
    <2>3. /\ IsFiniteSet(members[c] \cup {Tenant[c]})
          /\ Cardinality(members[c] \cup {Tenant[c]}) = Cardinality(members[c]) + 1
        BY <2>1, <2>2, FS_AddElement
    <2>4. Residents(c, members[c]) = {c} \X (members[c] \cup {Tenant[c]}) BY DEF Residents
    <2>5. IsFiniteSet({c}) /\ Cardinality({c}) = 1 BY FS_Singleton
    <2>6. /\ IsFiniteSet({c} \X (members[c] \cup {Tenant[c]}))
          /\ Cardinality({c} \X (members[c] \cup {Tenant[c]})) =
                 1 * (Cardinality(members[c]) + 1)
        BY <2>3, <2>5, FS_Product
    <2>7. QED BY <2>2, <2>4, <2>6
<1>2. ASSUME NEW o \in OpenIn(r)
      PROVE  \E c \in ActiveIn(r) : o[1] = c /\ o \in Residents(c, members[c])
    BY <1>0, InARoom DEF ActiveIn, In, Residents
<1>3. CASE r \notin Shared
    <2>1. \A c, d \in ActiveIn(r) : c = d
        BY <1>3 DEF IndInv, Shown, ShownAt
    <2>2. CASE OpenIn(r) = {} BY <1>0, <2>2, FS_EmptySet
    <2>3. CASE OpenIn(r) # {}
        <3>1. PICK c \in ActiveIn(r) : OpenIn(r) \subseteq Residents(c, members[c])
            BY <1>2, <2>1, <2>3
        <3>2. c \in Contracts BY DEF ActiveIn, In
        <3>3. 1 + Cardinality(members[c]) <= Capacity[r] BY <1>3 DEF Honest
        <3>4. Cardinality(OpenIn(r)) <= Cardinality(Residents(c, members[c]))
            BY <1>1, <3>1, <3>2, FS_Subset
        <3>5. Cardinality(OpenIn(r)) \in Nat BY <1>0, FinitelyMany
        <3>6. QED BY <1>0, <1>1, <3>2, <3>3, <3>4, <3>5
    <2>4. QED BY <2>2, <2>3
<1>4. CASE r \in Shared
    <2>1. ASSUME NEW c \in Contracts PROVE Cardinality(Of(OpenIn(r), c)) <= Declared[c]
        <3>0. Declared[c] \in Nat BY LifecycleAssumption
        <3>1. CASE Of(OpenIn(r), c) = {} BY <3>0, <3>1, FS_EmptySet
        <3>2. CASE Of(OpenIn(r), c) # {}
            <4>1. c \in ActiveIn(r) BY <1>2, <3>2 DEF Of
            <4>2. Of(OpenIn(r), c) \subseteq Residents(c, members[c]) BY <1>2 DEF Of
            <4>3. 1 + Cardinality(members[c]) <= Declared[c] BY <1>4, <4>1 DEF Honest
            <4>4. Cardinality(Of(OpenIn(r), c)) <= Cardinality(Residents(c, members[c]))
                BY <1>1, <4>2, FS_Subset
            <4>5. Cardinality(Of(OpenIn(r), c)) \in Nat
                BY <1>1, <4>2, FS_Subset, FS_CardinalityType
            <4>6. QED BY <1>1, <3>0, <4>3, <4>4, <4>5
        <3>3. QED BY <3>1, <3>2
    <2>2. OpenIn(r) \in SUBSET OpenIn(r) OBVIOUS
    <2>3. PlacesKept(r) BY <1>4 DEF Placed
    <2>4. QED BY <2>1, <2>2, <2>3 DEF PlacesKept
<1>5. QED BY <1>3, <1>4

(* The places of the shared rooms, over the invariant above. *)
THEOREM PlacesInvariant == Spec => [](IndInv /\ Placed)
<1>1. Init => Placed
    <2> SUFFICES ASSUME Init, NEW r \in Shared PROVE PlacesKept(r) BY DEF Placed
    <2>1. OpenIn(r) = {} /\ Capacity[r] \in Nat BY LifecycleAssumption DEF Init, OpenIn
    <2>2. QED BY <2>1, FS_EmptySet DEF PlacesKept
<1>2. IndInv /\ IndInv' /\ Placed /\ [Next]_vars => Placed'
    <2> SUFFICES ASSUME IndInv, IndInv', Placed, [Next]_vars, NEW r \in Shared, Settled(r)'
                 PROVE  PlacesKept(r)'
        BY DEF Placed
    <2>1. KeepsPlaces BY PlacesStay
    <2>2. CASE Enters(r) BY <2>1, <2>2, EnteringKeeps
    <2>3. CASE StaysIn(r) BY <2>1, <2>3, StayingKeeps
    <2>4. QED BY <2>2, <2>3, EntersOrStays
<1>3. QED BY <1>1, <1>2, Invariant, PTL DEF Spec

(* Whichever way people come into a room, it never houses more than it has *)
(* places, as long as its contracts are honest about their number and no   *)
(* late write has changed one of them.                                     *)
THEOREM RoomIsNotCrowded == Spec => []RoomNotOvercrowded
<1>1. IndInv /\ Placed => RoomNotOvercrowded BY KeptIsNotCrowded
<1>2. QED BY <1>1, PlacesInvariant, PTL
=============================================================================
