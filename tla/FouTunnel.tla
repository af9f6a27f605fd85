------------------------------ MODULE FouTunnel ------------------------------
(***************************************************************************)
(* The Foo-over-UDP tunnel devices of one network namespace, as            *)
(* pkg/tunnel/fou/fou.go drives them.  The kernel is external: LinkAdd,    *)
(* LinkDel and LinkSetUp are modelled by the effect the code relies on.    *)
(*                                                                         *)
(* A step of this module is one netlink call (or one group of calls with   *)
(* a single effect), so that a caller can fail or crash between two steps. *)
(***************************************************************************)
EXTENDS Integers, Sequences, FiniteSets, Functions

CONSTANTS
    Addr,       \* peer addresses
    V6,         \* the addresses of Addr that are IPv6; the others are IPv4
    Local,      \* families with a local address: local4 # nil, local6 # nil
    LinkName,   \* interface names
    FouName,    \* fouName: the name of the interface of each peer
    None        \* "no such thing": no device, no route, no pod

Family == {"v4", "v6"}

FamilyOf(a) == IF a \in V6 THEN "v6" ELSE "v4"

\* fouName writes an IPv4 address out in full, but only the first four bytes
\* of the SHA-1 of an IPv6 address: two IPv6 addresses may share a name.
\* NewFoUTunnelController rejects a controller without a local address.
ASSUME FouAssumption ==
    /\ V6 \subseteq Addr
    /\ Local \subseteq Family /\ Local # {}
    /\ FouName \in [Addr -> LinkName]
    /\ \A a, b \in Addr : a # b /\ FouName[a] = FouName[b] => {a, b} \subseteq V6
    /\ None \notin Addr \cup LinkName

\* No two peers share an interface name: what the theorems and most runs
\* assume, and what 32 bits of a hash make likely and not certain.
DistinctNames == \A a, b \in Addr : FouName[a] = FouName[b] => a = b

VARIABLES
    remote,     \* name -> the remote address of that device, None if absent
    up,         \* names of the tunnel devices that are up
    decap       \* families whose flow based device pona_ipip{4,6} is up

fouVars == <<remote, up, decap>>

FouTypeOK ==
    /\ remote \in [LinkName -> Addr \cup {None}]
    /\ up \subseteq LinkName
    /\ decap \subseteq Family

FouInit ==
    /\ remote = [n \in LinkName |-> None]
    /\ up = {}
    /\ decap = {}

\* addPeer4 and addPeer6 answer ErrIPFamilyMismatch otherwise.
Supported(a) == FamilyOf(a) \in Local

\* LinkByName(fouName(a)) finds a device.
LinkExists(a) == remote[FouName[a]] # None

(***************************************************************************)
(* AddPeer, after the family test: an existing device is returned as it is *)
(* (the caller takes that branch on LinkExists), otherwise the device is   *)
(* created and then the flow based device is set up.                       *)
(***************************************************************************)
AddPeerLink(a) ==
    /\ ~LinkExists(a)
    /\ remote' = [remote EXCEPT ![FouName[a]] = a]
    /\ UNCHANGED <<up, decap>>

SetupFlowBased(a) ==
    /\ decap' = decap \cup {FamilyOf(a)}
    /\ UNCHANGED <<remote, up>>

\* setupDevice failed, or renaming the fallback device did after it.
SetupFlowBasedFailed(a) ==
    /\ \/ decap' = decap
       \/ decap' = decap \cup {FamilyOf(a)}
    /\ UNCHANGED <<remote, up>>

\* netlink.LinkSetUp on the device AddPeer returned for a.
LinkSetUp(a) ==
    /\ up' = up \cup {FouName[a]}
    /\ UNCHANGED <<remote, decap>>

\* DelPeer deletes by name and takes a missing device for success.
DelPeer(a) ==
    /\ remote' = [remote EXCEPT ![FouName[a]] = None]
    /\ up' = up \ {FouName[a]}
    /\ UNCHANGED decap
=============================================================================
