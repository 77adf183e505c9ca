--------------------------- MODULE Configuration ---------------------------
(***************************************************************************)
(* From the machine's network interfaces to what the service admits and    *)
(* wakes: netif.py, config.py (load, write_default_config), wake.py, the   *)
(* `wake` handler (http/handlers.py) and network_middleware.               *)
(*                                                                         *)
(* The configuration is read once, when the service starts; the interfaces *)
(* go on changing.  A LAN stands for its network, its broadcast address    *)
(* and the hosts on it.  Reading TOML is external; every setting that is   *)
(* checked by itself is part of `valid`.                                   *)
(***************************************************************************)
EXTENDS Naturals, Sequences, FiniteSetsExt

CONSTANTS
  Interfaces,  \* numbered in the order of their names
  Macs,        \* the addresses each may have: its own number, Shared, Wide
  Tunnels,     \* those that may be tunnels
  Lans,        \* networks
  NoLan,       \* no address
  Zero,        \* the address 0.0.0.0, broadcast address of a tunnel
  Loopback,    \* 127.0.0.0/8
  Fallback,    \* 192.168.1.255
  Shared,      \* the MAC address of the members of a bond
  Wide,        \* an address that is not six bytes long (InfiniBand)
  Default,     \* a key the file does not have
  NoFile, Refused, Stopped,
  Hosts,       \* host names: "short", or "long", over 63 bytes
  Edits        \* files an operator may write by hand

\* What a file may say of a target.
Written == [mac : Interfaces \cup {Shared, Wide}, broadcast : Lans \cup {Zero, Fallback, Default}]

ASSUME ConfigurationAssumption ==
  /\ Interfaces \subseteq Nat \ {0} /\ IsFiniteSet(Interfaces)
  /\ \A i \in Interfaces : Macs[i] \subseteq {i, Shared, Wide}
  /\ Default \notin Lans \cup {Zero, Fallback} /\ NoLan \notin Lans \cup {Zero, Fallback}
  /\ \A f \in Edits : /\ f.networks # Default => f.networks \subseteq Lans \cup {Loopback}
                      /\ f.targets # Default => f.targets \in Seq(Written)

VARIABLES
  iface,   \* the interfaces
  route,   \* the one carrying the default route, or 0
  host,    \* the host name
  file,    \* config.toml
  config,  \* the settings of the running service
  own,     \* history: the file is as --write-default-config wrote it
  intact,  \* history: the file is as --write-default-config wrote it, and so are the
           \*          interfaces
  timely,  \* history: the file and the interfaces are as they were at the start
  answer,  \* of the last request
  sent     \* the packets it sent

machine == <<iface, route, host>>
vars    == <<machine, file, config, own, intact, timely, answer, sent>>

Types(i) == [mac : Macs[i], physical : BOOLEAN, lan : Lans \cup {NoLan}, tunnel : BOOLEAN,
             up : BOOLEAN]

\* The interfaces a machine can have: tunnels are not physical, and neither up nor
\* down; an interface that has no address is not up here.
Real(i) == {x \in Types(i) :
              /\ x.mac # i => x.physical
              /\ x.tunnel => i \in Tunnels /\ ~x.physical /\ ~x.up /\ x.lan # NoLan
              /\ x.lan = NoLan => ~x.up}

Targets == [mac : Interfaces \cup {Shared, Wide}, broadcast : Lans \cup {Zero, Fallback}]

-----------------------------------------------------------------------------
(* netif.py.                                                               *)

\* The members of S in their order (SetToSortSeq, in a form that can be proved about).
InOrder(S) ==
  CHOOSE s \in [1 .. Cardinality(S) -> S] : \A j, k \in DOMAIN s : j < k => s[j] < s[k]

Broadcast(i) == IF iface[i].tunnel THEN Zero ELSE iface[i].lan

Wakeable == {i \in Interfaces : iface[i].physical}

\* primary_broadcast: the default route's, else the first that is up and not 0.0.0.0.
PrimaryBroadcast ==
  LET up == {i \in Interfaces : iface[i].up /\ Broadcast(i) \notin {NoLan, Zero}}
  IN  IF route # 0 THEN Broadcast(route)
      ELSE IF up = {} THEN NoLan
      ELSE Broadcast(Min(up))

-----------------------------------------------------------------------------
(* config.py.                                                              *)

\* Mutant: only the network of the default route.
LocalNetworksOfRoute ==
  {Loopback} \cup IF route = 0 THEN {} ELSE {iface[route].lan}

\* _detect_local_networks.
LocalNetworks ==
  {Loopback} \cup ({iface[i].lan : i \in Interfaces} \ {NoLan})

TargetsFor(macs, broadcast) ==
  [k \in DOMAIN macs |-> [mac |-> iface[macs[k]].mac, broadcast |-> broadcast]]

\* _default_wake_targets.
DefaultTargets ==
  IF PrimaryBroadcast = NoLan THEN <<>> ELSE TargetsFor(InOrder(Wakeable), PrimaryBroadcast)

\* WakeTarget.from_toml: the file names six-byte addresses, and a broadcast address
\* unless one could be detected.
Parsed(target) ==
  [target EXCEPT !.broadcast = IF @ = Default THEN PrimaryBroadcast ELSE @]

ParsedTargets(f) ==
  IF f = NoFile \/ f.targets = Default THEN DefaultTargets
  ELSE [k \in DOMAIN f.targets |-> Parsed(f.targets[k])]

MalformedTarget(f) ==
  /\ f # NoFile /\ f.targets # Default
  /\ \E k \in DOMAIN f.targets :
       f.targets[k].mac = Wide \/ Parsed(f.targets[k]).broadcast = NoLan

Distinct(targets) ==
  \A j, k \in DOMAIN targets : targets[j].mac = targets[k].mac => j = k

Named(f) == IF f = NoFile \/ f.name = Default THEN host ELSE f.name

Networks(f) == IF f = NoFile \/ f.networks = Default THEN LocalNetworks ELSE f.networks

\* What load and the from_toml methods refuse, the addresses of the targets aside.
Invalid(f) ==
  \/ f # NoFile /\ ~f.valid
  \/ Named(f) = "long"
  \/ MalformedTarget(f)

Settings(f) == [networks |-> Networks(f), targets |-> ParsedTargets(f)]

Loads(f) == ~Invalid(f) /\ Distinct(ParsedTargets(f))

Load(f) == IF Loads(f) THEN Settings(f) ELSE Refused

FileBroadcast == IF PrimaryBroadcast = NoLan THEN Fallback ELSE PrimaryBroadcast

\* Mutant: every interface is listed.
RenderedAll ==
  [valid |-> TRUE, name |-> host, networks |-> LocalNetworks,
   targets |-> TargetsFor(InOrder(Interfaces), FileBroadcast)]

\* Mutant: the broadcast addresses are left to be detected by load.
RenderedUndirected ==
  [valid |-> TRUE, name |-> host, networks |-> LocalNetworks,
   targets |-> IF Wakeable = {} THEN Default ELSE TargetsFor(InOrder(Wakeable), Default)]

\* render_default_toml; no [[wake.targets]] at all if there is no interface to list.
Rendered ==
  [valid |-> TRUE, name |-> host, networks |-> LocalNetworks,
   targets |-> IF Wakeable = {} THEN Default ELSE TargetsFor(InOrder(Wakeable), FileBroadcast)]

-----------------------------------------------------------------------------

Init ==
  /\ iface \in [Interfaces -> UNION {Real(i) : i \in Interfaces}]
  /\ \A i \in Interfaces : iface[i] \in Real(i)
  /\ route \in {0} \cup {i \in Interfaces : iface[i].lan # NoLan}
  /\ host \in Hosts
  /\ file = NoFile
  /\ config = Stopped
  /\ own = FALSE
  /\ intact = FALSE
  /\ timely = FALSE
  /\ answer = "none"
  /\ sent = {}

Quiet == answer' = "none" /\ sent' = {}

\* An interface gets another address, or none.
Move(i) ==
  /\ \E x \in Real(i) :
       /\ x.mac = iface[i].mac /\ x.physical = iface[i].physical /\ x.tunnel = iface[i].tunnel
       /\ x # iface[i]
       /\ iface' = [iface EXCEPT ![i] = x]
       /\ route' = IF route = i /\ x.lan = NoLan THEN 0 ELSE route
  /\ intact' = FALSE
  /\ timely' = FALSE
  /\ Quiet
  /\ UNCHANGED <<host, file, config, own>>

\* wol-unlock --write-default-config, which refuses to overwrite without --force.
WriteDefault(force) ==
  /\ file = NoFile \/ force
  /\ file' = Rendered
  /\ own' = TRUE
  /\ intact' = TRUE
  /\ timely' = FALSE
  /\ Quiet
  /\ UNCHANGED <<machine, config>>

Edit ==
  /\ file' \in Edits \cup {NoFile}
  /\ own' = FALSE
  /\ intact' = FALSE
  /\ timely' = FALSE
  /\ Quiet
  /\ UNCHANGED <<machine, config>>

\* main: an invalid configuration is fatal.
Start ==
  /\ config \in {Stopped, Refused}
  /\ config' = Load(file)
  /\ timely' = TRUE
  /\ Quiet
  /\ UNCHANGED <<machine, file, own, intact>>

Stop ==
  /\ config # Stopped
  /\ config' = Stopped
  /\ timely' = FALSE
  /\ Quiet
  /\ UNCHANGED <<machine, file, own, intact>>

-----------------------------------------------------------------------------
(* POST /v1/wake, from a host of the network `peer`.                       *)

Running == config \notin {Stopped, Refused}

Answer(a, packets) ==
  /\ answer' = a
  /\ sent' = packets
  /\ UNCHANGED <<machine, file, config, own, intact, timely>>

\* network_middleware; HttpConfig.allows.
Forbidden(peer) ==
  /\ Running /\ peer \notin config.networks
  /\ Answer("forbidden_network", {})

Admitted(peer) == Running /\ peer \in config.networks

\* normalize_mac raises ConfigError for an address that is not six bytes long; it is
\* called with the address of a request and again with the one of a packet, but not with
\* those of the default targets.
Normalizes(mac) == mac # Wide

\* Mutant: the first target that fails ends the request.
FanOutFirstError(targets, failing) ==
  LET bad == {k \in DOMAIN targets : k \in failing \/ ~Normalizes(targets[k].mac)}
      end == IF bad = {} THEN Len(targets) + 1 ELSE Min(bad)
  IN  Answer(IF bad = {} THEN "ok" ELSE "wake_failed",
             {targets[k] : k \in {j \in DOMAIN targets : j < end}})

\* send_to_targets: the targets in `failing` raise OSError, which is noted.  A MAC
\* that build_magic_packet refuses raises ConfigError, which ends the request.
FanOut(targets, failing) ==
  LET wide == {k \in DOMAIN targets : ~Normalizes(targets[k].mac)}
      end  == IF wide = {} THEN Len(targets) + 1 ELSE Min(wide)
      good == {k \in DOMAIN targets \ failing : k < end}
  IN  Answer(IF wide # {} THEN "internal_error" ELSE IF good = {} THEN "wake_failed" ELSE "ok",
             {targets[k] : k \in good})

\* "target": "self"; with no target configured the same answer comes first.
WakeSelf(peer, failing) ==
  /\ Admitted(peer)
  /\ failing \subseteq DOMAIN config.targets
  /\ FanOut(config.targets, failing)

\* Config.wake_target_for: the first target with this address, or 0; none if normalize_mac
\* raises, even if the defaults have listed such an address.
WakeTargetFor(mac) ==
  LET found == {k \in DOMAIN config.targets : Normalizes(mac) /\ config.targets[k].mac = mac}
  IN  IF found = {} THEN 0 ELSE Min(found)

\* "target": an address that is not in the list, or not a MAC address.
RelayRefused(peer, mac) ==
  /\ Admitted(peer)
  /\ WakeTargetFor(mac) = 0
  /\ Answer(IF Normalizes(mac) THEN "not_allowed" ELSE "internal_error", {})

\* Mutant: a broadcast address is taken from the request as it is.
RelayAnywhere(peer, mac, broadcast, failing) ==
  /\ Admitted(peer) /\ WakeTargetFor(mac) # 0
  /\ LET target == config.targets[WakeTargetFor(mac)]
         to == IF broadcast = Default THEN target.broadcast ELSE broadcast
     IN  FanOut(<<[target EXCEPT !.broadcast = to]>>, failing)

\* _apply_overrides: an address of the caller must lie in an allowed network.
Relay(peer, mac, broadcast, failing) ==
  /\ Admitted(peer) /\ WakeTargetFor(mac) # 0
  /\ LET target == config.targets[WakeTargetFor(mac)]
     IN  IF broadcast = Default THEN FanOut(<<target>>, failing)
         ELSE IF broadcast \notin config.networks THEN Answer("not_allowed", {})
         ELSE FanOut(<<[target EXCEPT !.broadcast = broadcast]>>, failing)

Wake(peer) ==
  \/ Forbidden(peer)
  \/ /\ Running
     /\ \/ \E failing \in SUBSET DOMAIN config.targets : WakeSelf(peer, failing)
        \/ \E mac \in Interfaces \cup {Shared, Wide} :
             \/ RelayRefused(peer, mac)
             \/ \E to \in Lans \cup {Default}, failing \in {{}, {1}} :
                  Relay(peer, mac, to, failing)

Next ==
  \/ \E i \in Interfaces : Move(i)
  \/ \E force \in BOOLEAN : WriteDefault(force)
  \/ Edit
  \/ Start
  \/ Stop
  \/ \E peer \in Lans : Wake(peer)

Spec == Init /\ [][Next]_vars

-----------------------------------------------------------------------------
(* Properties.                                                             *)

\* Every variable has its type; a stopped service answers nothing, and interfaces
\* that are tunnels, or have no address, are never up.
TypeOK ==
  /\ iface \in [Interfaces -> UNION {Real(i) : i \in Interfaces}]
  /\ \A i \in Interfaces : iface[i] \in Real(i)
  /\ route \in {0} \cup {i \in Interfaces : iface[i].lan # NoLan}
  /\ intact => file = Rendered
  /\ Running => config.targets \in Seq(Targets)
  /\ ~Running => sent = {} /\ answer = "none"
  /\ sent \subseteq Targets

\* write_default_config, WakeTarget.from_toml: the service starts with the file that was
\* written for it, however old that file is and whatever addresses the interfaces have
\* or lack by then (at boot, say), unless the host name is too long or two interfaces
\* share an address or have one that is not six bytes long, which load refuses.
OwnFileLoads ==
  /\ own /\ host = "short"
  /\ \A i, j \in Wakeable : iface[i].mac # Wide /\ (iface[i].mac = iface[j].mac => i = j)
  => Loads(file)

\* write_default_config, "reflecting this machine's actual interfaces": the file it
\* wrote is read as no file would be, on a machine with a broadcast address and
\* without an interface whose address is not six bytes long.
WrittenAsDefault ==
  intact /\ PrimaryBroadcast # NoLan /\ (\A i \in Wakeable : iface[i].mac # Wide) =>
    Load(file) = Load(NoFile)

\* "Partial success is success" (send_to_targets): wake_failed and internal_error are
\* the answer only if no packet was sent, and ok only if one was; except that a target
\* whose address is not six bytes long ends the request.
PartialSuccess ==
  Running /\ (\A k \in DOMAIN config.targets : Normalizes(config.targets[k].mac)) =>
    (answer = "ok" <=> sent # {})

\* _apply_overrides, wake_target_for: a packet names a configured address, and goes to
\* its configured broadcast address or into an allowed network.
SentInside ==
  \A packet \in sent :
    \E k \in DOMAIN config.targets :
      /\ packet.mac = config.targets[k].mac
      /\ packet.broadcast \in config.networks \cup {config.targets[k].broadcast}

\* _detect_local_networks, HttpConfig.allows: as long as neither the file nor the
\* interfaces change, a service that nobody told its networks admits the hosts of
\* every network the machine is in.
OwnNetworksAdmitted ==
  Running /\ timely /\ (file = NoFile \/ intact) =>
    \A i \in Interfaces : iface[i].lan # NoLan => Admitted(iface[i].lan)

\* config.py, load: "A missing file is not an error: the built-in defaults plus
\* autodetected interfaces are a working configuration".
MissingFileStarts == [][Start /\ file = NoFile => config' # Refused]_vars

\* wake.py, send_to_targets: "Partial success is success".
AnyPacketIsSuccess == sent # {} => answer = "ok"

\* netif.py, primary_broadcast: "Broadcast address of the interface carrying the default
\* route.  Falls back to the first up interface with a broadcast address."
DefaultsReachLan ==
  Running /\ file = NoFile /\ timely /\ (\E i \in Interfaces : iface[i].up) =>
    \A k \in DOMAIN config.targets : config.targets[k].broadcast # Zero

=============================================================================
