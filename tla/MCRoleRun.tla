------------------------------ MODULE MCRoleRun ------------------------------
\* RoleRun with few attempts: two where a stop or the deadline may come, one where the
\* orchestrator may die and where a stop and the deadline may meet.
EXTENDS RoleRun

FewAttempts ==
    {[attempts |-> 2, may |-> {"stop"}], [attempts |-> 2, may |-> {"late"}],
     [attempts |-> 1, may |-> {"stop", "late"}], [attempts |-> 1, may |-> {"crash"}]}
=============================================================================
