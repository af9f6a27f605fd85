------------------------------ MODULE NatClient ------------------------------
(***************************************************************************)
(* The routing of a NAT client pod (pkg/nat/client.go): route table 117    *)
(* of the pod's network namespace and the rule that sends packets to it.   *)
(* A step is one netlink call.  The kernel is external: a route is         *)
(* identified by its destination and its metric, and RouteAdd refuses one  *)
(* that is there already.                                                  *)
(***************************************************************************)
EXTENDS FouTunnel

CONSTANTS
    Prefix,     \* IP prefixes
    V6Prefix,   \* the prefixes of Prefix that are IPv6; the others are IPv4
    Private     \* v4PrivateList, v6PrivateList, v4LinkLocal and v6LinkLocal

PrefixFamily(p) == IF p \in V6Prefix THEN "v6" ELSE "v4"

ASSUME NatClientAssumption ==
    /\ V6Prefix \subseteq Prefix
    /\ Private \subseteq Prefix /\ Private # {}

VARIABLES
    ncRule,     \* families with the rule for table 117 (priority ncPrio)
    throws,     \* prefixes with a throw route (throwMetric)
    via         \* prefix -> the device of its route (routeMetric), or None

ncVars == <<ncRule, throws, via>>

NcTypeOK ==
    /\ ncRule \subseteq Family
    /\ throws \subseteq Prefix
    /\ via \in [Prefix -> LinkName \cup {None}]

NcInit == ncRule = {} /\ throws = {} /\ via = [p \in Prefix |-> None]

(***************************************************************************)
(* Init: for each family, clear deletes the rule and the routes one by     *)
(* one, and then the rule is added.                                        *)
(***************************************************************************)

\* Mutant of Leftover: clear deletes the throw routes only.
LeftoverThrows(f) == {p \in throws : PrefixFamily(p) = f}

Leftover(f) == {p \in throws \cup {q \in Prefix : via[q] # None} : PrefixFamily(p) = f}

ClearRule(f) ==
    /\ f \in ncRule
    /\ ncRule' = ncRule \ {f}
    /\ UNCHANGED <<throws, via>>

ClearRoute(f) ==
    /\ f \notin ncRule
    /\ \E p \in Leftover(f) :
          \/ p \in throws /\ throws' = throws \ {p} /\ UNCHANGED via
          \/ via[p] # None /\ via' = [via EXCEPT ![p] = None] /\ UNCHANGED throws
    /\ UNCHANGED ncRule

AddRule(f) ==
    /\ f \notin ncRule /\ Leftover(f) = {}
    /\ ncRule' = ncRule \cup {f}
    /\ UNCHANGED <<throws, via>>

(***************************************************************************)
(* UpdateRoutes(link, subnets), after the link is set up.                  *)
(***************************************************************************)
\* collectRoutes
Current(link) == {p \in Prefix : via[p] = link}

addThrow(p) ==
    /\ p \notin throws
    /\ throws' = throws \cup {p}
    /\ UNCHANGED <<ncRule, via>>

addRoute(link, p) ==
    /\ via[p] = None
    /\ via' = [via EXCEPT ![p] = link]
    /\ UNCHANGED <<ncRule, throws>>

delRoute(p) ==
    /\ via' = [via EXCEPT ![p] = None]
    /\ UNCHANGED <<ncRule, throws>>
=============================================================================
