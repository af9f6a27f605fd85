----------------------------- MODULE NatGateway -----------------------------
(***************************************************************************)
(* The egress route table (table 118) of a NAT gateway, as                 *)
(* pkg/nat/gateway.go fills it: one host route per client address, out of  *)
(* the tunnel device of that client.                                       *)
(***************************************************************************)
EXTENDS FouTunnel

VARIABLE route  \* client address -> the device its host route uses, or None

natVars == <<route>>

NatTypeOK == route \in [Addr -> LinkName \cup {None}]

NatInit == route = [a \in Addr |-> None]

\* AddClient returns at once when a route to the address is listed, whatever
\* device that route uses.
ClientRouted(a) == route[a] # None

\* Mutant of AddClientRoute: through any device that is up.
AddClientRouteAny(a) ==
    \E n \in up : route' = [route EXCEPT ![a] = n]

\* RouteAdd: the kernel refuses a route through a device that is down.
AddClientRoute(a) ==
    /\ FouName[a] \in up
    /\ route' = [route EXCEPT ![a] = FouName[a]]

\* Deleting a device deletes the routes that use it (kernel).
FlushRoutes(n) ==
    route' = [a \in Addr |-> IF route[a] = n THEN None ELSE route[a]]

\* The return path of a client: its own tunnel device, up, and a route to it.
HasTunnel(a) ==
    /\ remote[FouName[a]] = a
    /\ FouName[a] \in up
    /\ route[a] = FouName[a]
=============================================================================
