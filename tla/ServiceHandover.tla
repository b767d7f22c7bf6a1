--------------------------- MODULE ServiceHandover ---------------------------
(***************************************************************************)
(* What the disaster recovery of MongoDB promises the clients: the right   *)
(* to serve them belongs to a site, a site opens only while it has that    *)
(* right, and the right is handed over only when the site that gave it up  *)
(* has closed.  A failover breaks the rule; it is made good once a site    *)
(* has given up the right and closed.  Switchover implements this.         *)
(***************************************************************************)
CONSTANT Sites

VARIABLES
    owners,  \* sites that have the right to serve clients
    open,    \* sites that are open to clients
    forced   \* a right was taken that nobody had given up

vars == <<owners, open, forced>>

Init == \E s \in Sites : owners = {s} /\ open = {s} /\ forced = FALSE

Open(s) ==
    /\ s \in owners
    /\ open' = open \cup {s}
    /\ UNCHANGED <<owners, forced>>

Close(s) ==
    /\ open' = open \ {s}
    /\ UNCHANGED <<owners, forced>>

Release(s) ==
    /\ owners' = owners \ {s}
    /\ UNCHANGED <<open, forced>>

Acquire(s) ==
    /\ owners = {} /\ open \subseteq {s}
    /\ owners' = {s}
    /\ UNCHANGED <<open, forced>>

Seize(s) ==
    /\ owners' = owners \cup {s}
    /\ forced' = TRUE
    /\ UNCHANGED open

Settle(s) ==
    /\ s \notin owners \cup open
    /\ forced' = FALSE
    /\ UNCHANGED <<owners, open>>

Next ==
    \E s \in Sites : \/ Open(s) \/ Close(s) \/ Release(s)
                     \/ Acquire(s) \/ Seize(s) \/ Settle(s)

Spec == Init /\ [][Next]_vars

=============================================================================
