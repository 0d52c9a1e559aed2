-------------------------- MODULE AddressAllocator --------------------------
(***************************************************************************)
(* What an address pool of Oakestra promises its clients: an address is    *)
(* handed to a client only while nobody holds it, and stays with that      *)
(* client until the client gives it up.  Which address is handed out, and  *)
(* whether a request is served at all, is left open.                       *)
(*                                                                         *)
(* The subnetwork pools of the root service manager are shown to implement *)
(* this specification.                                                     *)
(***************************************************************************)
CONSTANTS
    Clients,    \* who is given addresses: workers, services, containers
    Addresses   \* the addresses of the pool

VARIABLE held   \* the addresses each client holds

Init == held = [c \in Clients |-> {}]

Held == UNION {held[c] : c \in Clients}

Allocate(c, a) ==
    /\ a \notin Held
    /\ held' = [held EXCEPT ![c] = @ \cup {a}]

GiveBack(c, a) ==
    /\ a \in held[c]
    /\ held' = [held EXCEPT ![c] = @ \ {a}]

Next == \E c \in Clients, a \in Addresses : Allocate(c, a) \/ GiveBack(c, a)

Spec == Init /\ [][Next]_held

=============================================================================
