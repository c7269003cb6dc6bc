--------------------------- MODULE MCStaffLedger ---------------------------
EXTENDS StaffBooks, TLC

CONSTANTS ana, leo, v1, r1, r2

MCPeople == {ana, leo}
MCRoles == (ana :> "ADMIN") @@ (leo :> "EMPLOYEE")
OneSale == (v1 :> 4)
SameRequests == Permutations({r1, r2})
OnlyAdding == {"confirm", "consume", "settle", "adjust", "close"}
AllOperations == OnlyAdding \cup {"propose", "reverse", "collect", "return", "cancel"}
=============================================================================
