-------------------------------- MODULE Gate --------------------------------
(***************************************************************************)
(* What the service promises about its inference engine, stated without    *)
(* handlers, channels, timers or contexts.  Users pass a gate to use one   *)
(* resource.  At most Capacity are inside, they enter only while the       *)
(* resource is ready and the gate is not closing, and the resource is      *)
(* destroyed only once the gate is sealed: closing, and seen empty.  A     *)
(* reset is a crash or a new process.  Service.tla implements this.        *)
(***************************************************************************)
EXTENDS Naturals, FiniteSets

CONSTANTS Users, Capacity

VARIABLES inside,    \* the users that are past the gate
          closing,   \* nobody may enter any more
          sealed,    \* closing, and the last user has been seen to leave
          resource   \* "absent", "ready" or "gone"

gateVars == <<inside, closing, sealed, resource>>

GateInit ==
    /\ inside = {}
    /\ closing = FALSE
    /\ sealed = FALSE
    /\ resource = "absent"

Provide ==
    /\ resource = "absent"
    /\ resource' = "ready"
    /\ UNCHANGED <<inside, closing, sealed>>

Enter(u) ==
    /\ resource = "ready"
    /\ ~closing
    /\ u \notin inside
    /\ Cardinality(inside) < Capacity
    /\ inside' = inside \cup {u}
    /\ UNCHANGED <<closing, sealed, resource>>

\* The last user to leave a closing gate seals it.
Leave(u) ==
    /\ u \in inside
    /\ inside' = inside \ {u}
    /\ sealed' = (sealed \/ (closing /\ inside' = {}))
    /\ UNCHANGED <<closing, resource>>

CloseGate ==
    /\ ~closing
    /\ closing' = TRUE
    /\ sealed' = (inside = {})
    /\ UNCHANGED <<inside, resource>>

Destroy ==
    /\ sealed
    /\ resource = "ready"
    /\ resource' = "gone"
    /\ UNCHANGED <<inside, closing, sealed>>

Reset ==
    /\ inside' = {}
    /\ closing' = FALSE
    /\ sealed' = FALSE
    /\ resource' = "absent"

GateNext ==
    \/ Provide
    \/ \E u \in Users : Enter(u) \/ Leave(u)
    \/ CloseGate
    \/ Destroy
    \/ Reset

GateSpec == GateInit /\ [][GateNext]_gateVars

\* Nobody is inside a sealed gate, nor while the resource is not ready: what the
\* order of acquire, Drain and Engine.Close is there for.
GateSafe ==
    /\ sealed => closing /\ inside = {}
    /\ inside # {} => resource = "ready"
=============================================================================
