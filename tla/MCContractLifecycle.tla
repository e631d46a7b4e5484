------------------------ MODULE MCContractLifecycle ------------------------
(* A whole room and a shared one of two places each; a contract from a     *)
(* booking and two others.  The third person is named by the second        *)
(* contract and is the tenant of the third.                                *)
EXTENDS ContractLifecycle, TLC

CONSTANTS booked, drafted, moved, whole, shared, ann, bo, cy

TenantOf == booked :> ann @@ drafted :> bo @@ moved :> cy
GroupsOf == booked :> {{}} @@ drafted :> {{}, {cy}} @@ moved :> {{}}
DeclaredBy == booked :> 1 @@ drafted :> 2 @@ moved :> 1
PlacesOf == whole :> 2 @@ shared :> 2
ByHandOf == {<<shared, "CLEANING">>}

\* A behaviour is followed up to the first late write that changed something.
UntilOvertaken == overtaken = {}
=============================================================================
