------------------------ MODULE ConfigurationProofs ------------------------
(***************************************************************************)
(* Proofs about Configuration, for any interfaces, networks, files and     *)
(* failures.                                                               *)
(***************************************************************************)
EXTENDS Configuration, FiniteSetTheorems, WellFoundedInduction, TLAPS

-----------------------------------------------------------------------------
(* Numbers in order.                                                       *)

\* A set of numbers has a least member.
LEMMA Least ==
  ASSUME NEW S \in SUBSET Nat, S # {}
  PROVE  \E m \in S : \A k \in S : m <= k
<1>1. PICK m \in S : \A k \in S : <<k, m>> \notin OpToRel(<, Nat)
  BY NatLessThanWellFounded, WFMin
<1>2. \A k \in S : ~(k < m)
  BY <1>1 DEF OpToRel
<1>. QED
  BY <1>2

\* Entries grow with their positions.
Sorts(s) == \A j, k \in DOMAIN s : j < k => s[j] < s[k]

\* Every finite set of numbers can be listed in order: by the least size of one that
\* cannot.
LEMMA Sortable ==
  ASSUME NEW S \in SUBSET Nat, IsFiniteSet(S)
  PROVE  \E s \in [1 .. Cardinality(S) -> S] : Sorts(s)
<1>. DEFINE Bad == {n \in Nat : \E R \in SUBSET Nat :
                      /\ IsFiniteSet(R) /\ Cardinality(R) = n
                      /\ ~ \E s \in [1 .. n -> R] : Sorts(s)}
<1>1. Bad = {}
  <2>. SUFFICES ASSUME Bad # {} PROVE FALSE
    OBVIOUS
  <2>1. PICK n \in Bad : \A k \in Bad : n <= k
    BY Least
  <2>2. PICK R \in SUBSET Nat : /\ IsFiniteSet(R) /\ Cardinality(R) = n
                                /\ ~ \E s \in [1 .. n -> R] : Sorts(s)
    BY <2>1
  <2>3. R # {}
    <3>. SUFFICES ASSUME R = {} PROVE FALSE
      OBVIOUS
    <3>1. n = 0
      BY <2>2, FS_EmptySet
    <3>2. [k \in 1 .. 0 |-> 0] \in [1 .. n -> R]
      BY <3>1
    <3>3. Sorts([k \in 1 .. 0 |-> 0])
      BY DEF Sorts
    <3>. QED
      BY <2>2, <3>2, <3>3
  <2>4. PICK m \in R : \A k \in R : m <= k
    BY <2>3, Least
  <2>5. n \in Nat \ {0} /\ IsFiniteSet(R \ {m}) /\ Cardinality(R \ {m}) = n - 1
    BY <2>1, <2>2, <2>3, FS_RemoveElement, FS_EmptySet
  <2>6. n - 1 \notin Bad /\ n - 1 \in Nat
    BY <2>1, <2>5
  <2>7. PICK t \in [1 .. n - 1 -> R \ {m}] : Sorts(t)
    BY <2>5, <2>6
  <2>. DEFINE s == [k \in 1 .. n |-> IF k = 1 THEN m ELSE t[k - 1]]
  <2>8. s \in [1 .. n -> R]
    BY <2>5, <2>7
  <2>9. ASSUME NEW j \in 1 .. n, NEW k \in 1 .. n, j < k
        PROVE  s[j] < s[k]
    <3>1. k - 1 \in 1 .. n - 1 /\ s[k] = t[k - 1]
      BY <2>5, <2>9
    <3>2. CASE j = 1
      <4>1. t[k - 1] \in R \ {m}
        BY <3>1, <2>7
      <4>2. s[j] = m
        BY <3>2, <2>9
      <4>3. m \in Nat /\ t[k - 1] \in Nat /\ m <= t[k - 1] /\ m # t[k - 1]
        BY <4>1, <2>4
      <4>. QED
        BY <3>1, <4>2, <4>3
    <3>3. CASE j # 1
      <4>1. j - 1 \in 1 .. n - 1 /\ s[j] = t[j - 1] /\ j - 1 < k - 1
        BY <3>3, <2>5, <2>9
      <4>. QED
        BY <3>1, <4>1, <2>7 DEF Sorts
    <3>. QED
      BY <3>2, <3>3
  <2>10. Sorts(s)
    BY <2>9 DEF Sorts
  <2>. QED
    BY <2>2, <2>8, <2>10
<1>2. Cardinality(S) \in Nat
  BY FS_CardinalityType
<1>. QED
  BY <1>1, <1>2

\* InOrder lists a set of interfaces, each once.
LEMMA Ordered ==
  ASSUME NEW S \in SUBSET Nat, IsFiniteSet(S)
  PROVE  InOrder(S) \in Seq(S) /\ Sorts(InOrder(S))
<1>1. InOrder(S) \in [1 .. Cardinality(S) -> S] /\ Sorts(InOrder(S))
  BY Sortable DEF InOrder, Sorts
<1>2. Cardinality(S) \in Nat
  BY FS_CardinalityType
<1>. QED
  BY <1>1, <1>2

-----------------------------------------------------------------------------
(* The inductive invariant.                                                *)

\* A file lists targets with their addresses, if any.
FileOK(f) == f = NoFile \/ f.targets = Default \/ f.targets \in Seq(Written)

\* The file that was written for the machine has its name and lists the interfaces that
\* can be woken, all with one broadcast address, or has no list.
OwnOK ==
  own =>
    /\ file.valid /\ file.name = host
    /\ \/ file.targets = Default
       \/ \E b \in Lans \cup {Zero, Fallback} : file.targets = TargetsFor(InOrder(Wakeable), b)

IInv ==
  /\ TypeOK
  /\ FileOK(file)
  /\ OwnOK
  /\ Running => Distinct(config.targets)
  /\ PartialSuccess
  /\ SentInside
  /\ OwnNetworksAdmitted

\* What the interfaces offer.
LEMMA Offered ==
  ASSUME TypeOK
  PROVE  /\ \A i \in Interfaces : iface[i].mac \in Interfaces \cup {Shared, Wide}
         /\ PrimaryBroadcast \in Lans \cup {Zero, NoLan}
         /\ InOrder(Wakeable) \in Seq(Wakeable) /\ Sorts(InOrder(Wakeable))
<1>1. \A i \in Interfaces : /\ iface[i].mac \in Interfaces \cup {Shared, Wide}
                            /\ Broadcast(i) \in Lans \cup {Zero, NoLan}
  BY ConfigurationAssumption DEF TypeOK, Real, Types, Broadcast
<1>2. PrimaryBroadcast \in Lans \cup {Zero, NoLan}
  <2>. DEFINE up == {i \in Interfaces : iface[i].up /\ Broadcast(i) \notin {NoLan, Zero}}
  <2>1. CASE up # {}
    <3>1. up \in SUBSET Nat
      BY ConfigurationAssumption
    <3>2. PICK m \in up : \A k \in up : m <= k
      BY <2>1, <3>1, Least
    <3>3. Min(up) \in up
      BY <3>2 DEF Min
    <3>. QED
      BY <1>1, <3>3 DEF PrimaryBroadcast, TypeOK
  <2>2. CASE up = {}
    BY <1>1, <2>2 DEF PrimaryBroadcast, TypeOK
  <2>. QED
    BY <2>1, <2>2
<1>3. Wakeable \in SUBSET Nat /\ IsFiniteSet(Wakeable)
  BY ConfigurationAssumption, FS_Subset DEF Wakeable
<1>. QED
  BY <1>1, <1>2, <1>3, Ordered

\* The targets that load and render_default_toml list for the interfaces.
LEMMA Listed ==
  ASSUME TypeOK, NEW b \in Lans \cup {Zero, Fallback}
  PROVE  /\ TargetsFor(InOrder(Wakeable), b) \in Seq(Targets)
         /\ TargetsFor(InOrder(Wakeable), b) \in Seq(Written)
         /\ \A k \in DOMAIN TargetsFor(InOrder(Wakeable), b) :
              /\ TargetsFor(InOrder(Wakeable), b)[k].mac \in {iface[i].mac : i \in Wakeable}
              /\ TargetsFor(InOrder(Wakeable), b)[k].broadcast = b
<1>. DEFINE s == InOrder(Wakeable)
<1>1. s \in Seq(Wakeable) /\ Wakeable \subseteq Interfaces
  BY Offered DEF Wakeable
<1>2. \A k \in DOMAIN s : s[k] \in Wakeable
  BY <1>1
<1>3. \A k \in DOMAIN s : /\ [mac |-> iface[s[k]].mac, broadcast |-> b] \in Targets
                          /\ [mac |-> iface[s[k]].mac, broadcast |-> b] \in Written
  BY <1>1, <1>2, Offered DEF Targets, Written
<1>4. DOMAIN s = 1 .. Len(s) /\ Len(s) \in Nat
  BY <1>1
<1>. HIDE DEF s
<1>. QED
  BY <1>2, <1>3, <1>4 DEF TargetsFor, s

\* They have different addresses if the interfaces do.
LEMMA ListedDistinct ==
  ASSUME TypeOK, NEW b, \A i, j \in Wakeable : iface[i].mac = iface[j].mac => i = j
  PROVE  Distinct(TargetsFor(InOrder(Wakeable), b))
<1>. DEFINE s == InOrder(Wakeable)
<1>1. s \in Seq(Wakeable) /\ Sorts(s) /\ Wakeable \subseteq Nat
  BY Offered, ConfigurationAssumption DEF Wakeable
<1>2. DOMAIN s = 1 .. Len(s) /\ Len(s) \in Nat /\ \A k \in DOMAIN s : s[k] \in Wakeable
  BY <1>1
<1>. HIDE DEF s
<1>3. ASSUME NEW j \in DOMAIN s, NEW k \in DOMAIN s, s[j] = s[k]
      PROVE  j = k
  <2>1. j \in 1 .. Len(s) /\ k \in 1 .. Len(s)
    BY <1>2, Zenon
  <2>2. s[j] \in Nat /\ j \in Nat /\ k \in Nat
    <3>1. s[j] \in Nat
      BY <1>1, <1>2, Zenon
    <3>. QED
      BY <1>2, <2>1, <3>1
  <2>. QED
    BY <1>1, <1>3, <2>2 DEF Sorts
<1>4. ASSUME NEW j \in DOMAIN s, NEW k \in DOMAIN s, iface[s[j]].mac = iface[s[k]].mac
      PROVE  j = k
  BY <1>2, <1>3, <1>4
<1>. QED
  BY <1>4 DEF Distinct, TargetsFor, s

\* wake_target_for returns a target of the list, with the address it was asked for.
LEMMA Found ==
  ASSUME config.targets \in Seq(Targets), Distinct(config.targets),
         NEW mac, WakeTargetFor(mac) # 0
  PROVE  /\ WakeTargetFor(mac) \in DOMAIN config.targets
         /\ config.targets[WakeTargetFor(mac)].mac = mac
<1>. DEFINE found == {k \in DOMAIN config.targets : Normalizes(mac) /\ config.targets[k].mac = mac}
<1>1. found # {}
  BY DEF WakeTargetFor
<1>2. PICK k \in found : k \in Nat /\ found = {k}
  <2>1. PICK k : k \in found
    BY <1>1
  <2>2. \A j \in found : j = k
    BY <2>1 DEF Distinct
  <2>. QED
    BY <2>1, <2>2
<1>3. Min({k}) = k
  BY <1>2 DEF Min
<1>. QED
  BY <1>2, <1>3 DEF WakeTargetFor

\* What load returns is well formed.
LEMMA Loaded ==
  ASSUME TypeOK, FileOK(file), Load(file) # Refused
  PROVE  /\ Load(file) = Settings(file)
         /\ ParsedTargets(file) \in Seq(Targets)
         /\ Distinct(ParsedTargets(file))
<1>1. Load(file) = Settings(file) /\ ~Invalid(file) /\ Distinct(ParsedTargets(file))
  BY DEF Load, Loads
<1>2. DefaultTargets \in Seq(Targets)
  <2>1. CASE PrimaryBroadcast = NoLan
    BY <2>1 DEF DefaultTargets
  <2>2. CASE PrimaryBroadcast # NoLan
    BY <2>2, Offered, Listed DEF DefaultTargets
  <2>. QED
    BY <2>1, <2>2
<1>3. CASE file = NoFile \/ file.targets = Default
  BY <1>1, <1>2, <1>3 DEF ParsedTargets
<1>4. CASE ~(file = NoFile \/ file.targets = Default)
  <2>1. file.targets \in Seq(Written)
    BY <1>4 DEF FileOK
  <2>2. ASSUME NEW k \in DOMAIN file.targets
        PROVE  Parsed(file.targets[k]) \in Targets
    <3>1. file.targets[k] \in Written
      BY <2>1
    <3>2. Parsed(file.targets[k]).broadcast # NoLan
      BY <1>1, <1>4 DEF Invalid, MalformedTarget
    <3>. QED
      BY <3>1, <3>2, Offered DEF Parsed, Written, Targets
  <2>3. ParsedTargets(file) = [k \in DOMAIN file.targets |-> Parsed(file.targets[k])]
    BY <1>4 DEF ParsedTargets
  <2>4. DOMAIN file.targets = 1 .. Len(file.targets) /\ Len(file.targets) \in Nat
    BY <2>1
  <2>. QED
    BY <1>1, <2>2, <2>3, <2>4
<1>. QED
  BY <1>3, <1>4

\* The file that is written is read as no file would be.
LEMMA ReadBack ==
  ASSUME TypeOK, PrimaryBroadcast # NoLan, \A i \in Wakeable : iface[i].mac # Wide
  PROVE  Load(Rendered) = Load(NoFile)
<1>. DEFINE listed == TargetsFor(InOrder(Wakeable), PrimaryBroadcast)
<1>1. DefaultTargets = listed /\ FileBroadcast = PrimaryBroadcast
  BY DEF DefaultTargets, FileBroadcast
<1>2. /\ listed \in Seq(Written)
      /\ \A k \in DOMAIN listed : listed[k].mac # Wide /\ listed[k].broadcast = PrimaryBroadcast
  BY Offered, Listed
<1>. HIDE DEF listed
<1>3. \A k \in DOMAIN listed : listed[k] \in Written
  BY <1>2
<1>4. \A k \in DOMAIN listed : Parsed(listed[k]) = listed[k]
  BY <1>2, <1>3 DEF Parsed, Written
<1>5. Rendered.targets = Default \/ Rendered.targets = listed
  BY <1>1 DEF Rendered, listed
<1>6. ParsedTargets(NoFile) = listed
  BY <1>1 DEF ParsedTargets
<1>7. [k \in DOMAIN listed |-> Parsed(listed[k])] = listed
  BY <1>2, <1>4
<1>8. ParsedTargets(Rendered) = listed
  BY <1>1, <1>5, <1>7 DEF ParsedTargets
<1>9. Networks(Rendered) = Networks(NoFile) /\ Named(Rendered) = Named(NoFile)
  BY DEF Networks, Named, Rendered
<1>10. ~MalformedTarget(Rendered) /\ ~MalformedTarget(NoFile)
  BY <1>2, <1>4, <1>5 DEF MalformedTarget
<1>11. Rendered = NoFile \/ Rendered.valid
  BY DEF Rendered
<1>12. Invalid(Rendered) <=> Invalid(NoFile)
  BY <1>9, <1>10, <1>11 DEF Invalid
<1>. QED
  BY <1>6, <1>8, <1>9, <1>12 DEF Load, Loads, Settings

\* The file that was written is not refused later.
LEMMA ReadLater == ASSUME TypeOK, OwnOK PROVE OwnFileLoads
<1>. SUFFICES ASSUME own, host = "short", \A i \in Wakeable : iface[i].mac # Wide,
                     \A i, j \in Wakeable : iface[i].mac = iface[j].mac => i = j
              PROVE  Loads(file)
  BY DEF OwnFileLoads
<1>1. file.valid /\ Named(file) = "short"
  BY DEF OwnOK, Named
<1>2. Distinct(DefaultTargets)
  BY ListedDistinct DEF DefaultTargets, Distinct
<1>3. CASE file = NoFile \/ file.targets = Default
  BY <1>1, <1>2, <1>3 DEF Loads, Invalid, MalformedTarget, ParsedTargets
<1>4. CASE ~(file = NoFile \/ file.targets = Default)
  <2>1. PICK b \in Lans \cup {Zero, Fallback} : file.targets = TargetsFor(InOrder(Wakeable), b)
    BY <1>4 DEF OwnOK
  <2>2. /\ file.targets \in Seq(Written)
        /\ \A k \in DOMAIN file.targets : /\ file.targets[k].mac # Wide
                                          /\ file.targets[k].broadcast = b
    BY <2>1, Listed
  <2>3. b # Default /\ b # NoLan
    BY ConfigurationAssumption
  <2>4. \A k \in DOMAIN file.targets : Parsed(file.targets[k]) = file.targets[k]
    <3>1. \A k \in DOMAIN file.targets : file.targets[k] \in Written
      BY <2>2
    <3>. QED
      BY <2>2, <2>3, <3>1 DEF Parsed, Written
  <2>5. ParsedTargets(file) = file.targets
    BY <1>4, <2>2, <2>4 DEF ParsedTargets
  <2>6. ~MalformedTarget(file)
    BY <2>2, <2>3, <2>4 DEF MalformedTarget
  <2>7. Distinct(file.targets)
    BY <2>1, ListedDistinct
  <2>. QED
    BY <1>1, <2>5, <2>6, <2>7 DEF Loads, Invalid
<1>. QED
  BY <1>3, <1>4

-----------------------------------------------------------------------------
(* Steps.                                                                  *)

\* The service is stopped at first.
LEMMA InitInv == Init => IInv
<1>. SUFFICES ASSUME Init PROVE IInv
  OBVIOUS
<1>1. ~Running
  BY DEF Init, Running
<1>2. TypeOK
  BY <1>1 DEF Init, TypeOK
<1>. QED
  BY <1>1, <1>2 DEF Init, IInv, FileOK, OwnOK, PartialSuccess, SentInside, OwnNetworksAdmitted

\* A step that sends nothing and leaves the service alone.
LEMMA QuietStep ==
  ASSUME IInv, Quiet, UNCHANGED config, TypeOK', FileOK(file)', OwnOK', ~timely'
  PROVE  IInv'
BY DEF IInv, Quiet, Running, Distinct, PartialSuccess, SentInside, OwnNetworksAdmitted

\* The file that was written for a machine stays so.
LEMMA SameFile == ASSUME OwnOK, UNCHANGED <<machine, file, own>> PROVE OwnOK'
BY DEF OwnOK, machine, TargetsFor, Wakeable

\* Interfaces change.
LEMMA MoveStep == ASSUME IInv, NEW i \in Interfaces, Move(i) PROVE IInv'
<1>1. TypeOK'
  BY DEF IInv, Move, Quiet, TypeOK, Running, Real, Types
<1>2. OwnOK'
  <2>1. \A j \in Interfaces : iface'[j].mac = iface[j].mac /\ iface'[j].physical = iface[j].physical
    BY DEF IInv, TypeOK, Move
  <2>2. Wakeable' = Wakeable /\ Wakeable \subseteq Interfaces
    BY <2>1 DEF Wakeable
  <2>3. \A k \in DOMAIN InOrder(Wakeable) : InOrder(Wakeable)[k] \in Interfaces
    BY <2>2, Offered DEF IInv
  <2>4. ASSUME NEW b PROVE TargetsFor(InOrder(Wakeable), b)' = TargetsFor(InOrder(Wakeable), b)
    BY <2>1, <2>2, <2>3 DEF TargetsFor
  <2>. QED
    BY <2>4 DEF IInv, OwnOK, Move
<1>. QED
  BY <1>1, <1>2, QuietStep DEF IInv, Move, FileOK

\* The defaults are written.
LEMMA WriteStep == ASSUME IInv, NEW force \in BOOLEAN, WriteDefault(force) PROVE IInv'
<1>1. Rendered' = Rendered
  BY DEF WriteDefault, machine, Rendered, LocalNetworks, Wakeable, TargetsFor, FileBroadcast,
         PrimaryBroadcast, Broadcast
<1>2. TypeOK'
  BY <1>1 DEF IInv, WriteDefault, machine, Quiet, TypeOK, Running, Real, Types
<1>3. FileBroadcast \in Lans \cup {Zero, Fallback}
  BY Offered DEF IInv, FileBroadcast
<1>4. FileOK(Rendered)
  BY <1>3, Listed DEF IInv, FileOK, Rendered
<1>5. OwnOK'
  <2>1. ASSUME NEW b PROVE TargetsFor(InOrder(Wakeable), b)' = TargetsFor(InOrder(Wakeable), b)
    BY DEF WriteDefault, machine, TargetsFor, Wakeable
  <2>2. \/ Rendered.targets = Default
        \/ Rendered.targets = TargetsFor(InOrder(Wakeable), FileBroadcast)
    BY DEF Rendered
  <2>3. file' = Rendered /\ host' = host /\ Rendered.valid /\ Rendered.name = host
    BY DEF WriteDefault, machine, Rendered
  <2>. QED
    BY <1>3, <2>1, <2>2, <2>3 DEF OwnOK
<1>. QED
  BY <1>2, <1>4, <1>5, QuietStep DEF WriteDefault, FileOK

\* The operator edits the file.
LEMMA EditStep == ASSUME IInv, Edit PROVE IInv'
<1>1. TypeOK'
  BY DEF IInv, Edit, machine, Quiet, TypeOK, Running, Real, Types
<1>2. FileOK(file)'
  BY ConfigurationAssumption DEF Edit, FileOK
<1>. QED
  BY <1>1, <1>2, QuietStep DEF Edit, OwnOK

\* The service stops.
LEMMA StopStep == ASSUME IInv, Stop PROVE IInv'
<1>. USE DEF IInv, Stop, machine, Quiet
<1>1. Rendered' = Rendered
  BY DEF Rendered, LocalNetworks, Wakeable, TargetsFor, FileBroadcast, PrimaryBroadcast, Broadcast
<1>2. TypeOK'
  BY <1>1 DEF TypeOK, Running, Real, Types
<1>. QED
  BY <1>2, SameFile DEF Running, FileOK, PartialSuccess, SentInside, OwnNetworksAdmitted

\* The service loads the file.
LEMMA StartStep == ASSUME IInv, Start PROVE IInv'
<1>. USE DEF IInv, Start, machine, Quiet
<1>1. Rendered' = Rendered
  BY DEF Rendered, LocalNetworks, Wakeable, TargetsFor, FileBroadcast, PrimaryBroadcast, Broadcast
<1>2. Running' => /\ Load(file) # Refused
                  /\ config'.targets = ParsedTargets(file)
                  /\ config'.networks = Networks(file)
  BY Loaded DEF Running, Settings
<1>3. Running' => config'.targets \in Seq(Targets) /\ Distinct(config'.targets)
  BY <1>2, Loaded
<1>4. TypeOK'
  BY <1>1, <1>3 DEF TypeOK, Running, Real, Types, Targets
<1>5. OwnNetworksAdmitted'
  <2>. SUFFICES ASSUME Running', file = NoFile \/ intact, NEW i \in Interfaces, iface[i].lan # NoLan
                PROVE  iface[i].lan \in config'.networks
    BY DEF OwnNetworksAdmitted, Admitted
  <2>1. Networks(file) = LocalNetworks
    BY DEF TypeOK, Networks, Rendered
  <2>. QED
    BY <1>2, <2>1 DEF LocalNetworks
<1>. QED
  BY <1>3, <1>4, <1>5, SameFile DEF FileOK, PartialSuccess, SentInside

\* A request changes nothing but its answer.
LEMMA AnswerStep ==
  ASSUME IInv, NEW a, NEW packets, Answer(a, packets), Running,
         packets \subseteq Targets,
         \A packet \in packets : \E k \in DOMAIN config.targets :
            /\ packet.mac = config.targets[k].mac
            /\ packet.broadcast \in config.networks \cup {config.targets[k].broadcast},
         (\A k \in DOMAIN config.targets : Normalizes(config.targets[k].mac)) =>
            (a = "ok" <=> packets # {})
  PROVE  IInv'
<1>. USE DEF IInv, Answer, machine
<1>1. Rendered' = Rendered
  BY DEF Rendered, LocalNetworks, Wakeable, TargetsFor, FileBroadcast, PrimaryBroadcast, Broadcast
<1>2. TypeOK'
  BY <1>1 DEF TypeOK, Running, Real, Types
<1>3. PartialSuccess' /\ SentInside'
  BY DEF PartialSuccess, SentInside
<1>. QED
  BY <1>2, <1>3, SameFile DEF Running, Distinct, FileOK, OwnNetworksAdmitted, Admitted

\* Packets to targets with configured addresses, inside the networks.
LEMMA FanOutStep ==
  ASSUME IInv, Running, NEW targets \in Seq(Targets), NEW failing, FanOut(targets, failing),
         \A j \in DOMAIN targets : \E k \in DOMAIN config.targets :
            /\ targets[j].mac = config.targets[k].mac
            /\ targets[j].broadcast \in config.networks \cup {config.targets[k].broadcast}
  PROVE  IInv'
<1>. DEFINE wide == {k \in DOMAIN targets : ~Normalizes(targets[k].mac)}
            end  == IF wide = {} THEN Len(targets) + 1 ELSE Min(wide)
            good == {k \in DOMAIN targets \ failing : k < end}
            a    == IF wide # {} THEN "internal_error"
                    ELSE IF good = {} THEN "wake_failed" ELSE "ok"
            packets == {targets[k] : k \in good}
<1>1. Answer(a, packets)
  BY DEF FanOut
<1>2. good \subseteq DOMAIN targets /\ \A k \in DOMAIN targets : targets[k] \in Targets
  OBVIOUS
<1>3. packets \subseteq Targets
  <2>. HIDE DEF good
  <2>. QED
    BY <1>2
<1>4. wide = {} => (a = "ok" <=> packets # {})
  OBVIOUS
<1>5. (\A k \in DOMAIN config.targets : Normalizes(config.targets[k].mac)) => wide = {}
  OBVIOUS
<1>6. \A packet \in packets : \E k \in DOMAIN config.targets :
         /\ packet.mac = config.targets[k].mac
         /\ packet.broadcast \in config.networks \cup {config.targets[k].broadcast}
  <2>. HIDE DEF good
  <2>. QED
    BY <1>2
<1>. HIDE DEF wide, a, packets
<1>. QED
  BY <1>1, <1>3, <1>4, <1>5, <1>6, AnswerStep

\* A wake request is refused or sends its packets.
LEMMA WakeStep == ASSUME IInv, NEW peer \in Lans, Wake(peer) PROVE IInv'
<1>1. Running /\ config.targets \in Seq(Targets) /\ Distinct(config.targets)
  BY DEF Wake, Forbidden, IInv, TypeOK
<1>2. CASE Forbidden(peer)
  BY <1>1, <1>2, AnswerStep DEF Forbidden
<1>3. ASSUME NEW failing, WakeSelf(peer, failing)
      PROVE  IInv'
  <2>1. FanOut(config.targets, failing)
    BY <1>3 DEF WakeSelf
  <2>. QED
    BY <1>1, <2>1, FanOutStep
<1>4. ASSUME NEW mac, RelayRefused(peer, mac)
      PROVE  IInv'
  <2>. PICK a : a # "ok" /\ Answer(a, {})
    BY <1>4 DEF RelayRefused
  <2>. QED
    BY <1>1, AnswerStep
<1>5. ASSUME NEW mac, NEW to \in Lans \cup {Default}, NEW failing, Relay(peer, mac, to, failing)
      PROVE  IInv'
  <2>. DEFINE w == WakeTargetFor(mac)
              target == config.targets[w]
              sentTo == [target EXCEPT !.broadcast = to]
  <2>1. w \in DOMAIN config.targets /\ target \in Targets
    BY <1>1, <1>5, Found DEF Relay
  <2>2. CASE to = Default
    <3>1. FanOut(<<target>>, failing)
      BY <1>5, <2>2 DEF Relay
    <3>2. <<target>> \in Seq(Targets) /\ \A j \in DOMAIN <<target>> : <<target>>[j] = target
      BY <2>1
    <3>. HIDE DEF target
    <3>3. target = config.targets[w]
      BY DEF target
    <3>. QED
      BY <1>1, <2>1, <3>1, <3>2, <3>3, FanOutStep
  <2>3. CASE to # Default /\ to \notin config.networks
    <3>1. Answer("not_allowed", {})
      BY <1>5, <2>3 DEF Relay
    <3>. QED
      BY <1>1, <3>1, AnswerStep
  <2>4. CASE to # Default /\ to \in config.networks
    <3>1. FanOut(<<sentTo>>, failing)
      BY <1>5, <2>4 DEF Relay
    <3>2. sentTo \in Targets /\ sentTo.mac = target.mac /\ sentTo.broadcast = to
      BY <2>1, <2>4 DEF Targets
    <3>. HIDE DEF sentTo
    <3>3. <<sentTo>> \in Seq(Targets) /\ \A j \in DOMAIN <<sentTo>> : <<sentTo>>[j] = sentTo
      BY <3>2
    <3>. QED
      BY <1>1, <2>1, <2>4, <3>1, <3>2, <3>3, FanOutStep
  <2>. QED
    BY <2>2, <2>3, <2>4
<1>. QED
  BY <1>2, <1>3, <1>4, <1>5 DEF Wake

\* Every step preserves the invariant.
LEMMA Inductive == IInv /\ [Next]_vars => IInv'
<1>. SUFFICES ASSUME IInv, [Next]_vars PROVE IInv'
  OBVIOUS
<1>1. CASE Next
  BY <1>1, MoveStep, WriteStep, EditStep, StartStep, StopStep, WakeStep DEF Next
<1>2. CASE UNCHANGED vars
  <2>. USE <1>2 DEF vars, machine
  <2>1. Rendered' = Rendered
    BY DEF Rendered, LocalNetworks, Wakeable, TargetsFor, FileBroadcast, PrimaryBroadcast, Broadcast
  <2>2. TypeOK'
    BY <2>1 DEF IInv, TypeOK, Running, Real, Types
  <2>. QED
    BY <2>2, SameFile DEF IInv, Running, Distinct, FileOK, PartialSuccess, SentInside,
                          OwnNetworksAdmitted, Admitted
<1>. QED
  BY <1>1, <1>2

\* The invariant holds in every behaviour.
THEOREM Invariance == Spec => []IInv
<1>. QED
  BY InitInv, Inductive, PTL DEF Spec

\* Every variable keeps its type.
THEOREM TypesTheorem == Spec => []TypeOK
<1>1. IInv => TypeOK
  BY DEF IInv
<1>. QED
  BY <1>1, Invariance, PTL

\* The service starts with the file that was written for it, whenever it does, if the
\* host name is short and the interfaces have different addresses of six bytes.
THEOREM OwnTheorem == Spec => []OwnFileLoads
<1>1. IInv => OwnFileLoads
  BY ReadLater DEF IInv
<1>. QED
  BY <1>1, Invariance, PTL

\* Writing the defaults to a file changes nothing of what is loaded.
THEOREM DefaultTheorem == Spec => []WrittenAsDefault
<1>1. IInv => WrittenAsDefault
  BY ReadBack DEF IInv, TypeOK, WrittenAsDefault
<1>. QED
  BY <1>1, Invariance, PTL

\* A wake is answered ok exactly if a packet was sent.
THEOREM PartialTheorem == Spec => []PartialSuccess
<1>1. IInv => PartialSuccess
  BY DEF IInv
<1>. QED
  BY <1>1, Invariance, PTL

\* Packets go to configured addresses, and where they were configured or allowed to go.
THEOREM InsideTheorem == Spec => []SentInside
<1>1. IInv => SentInside
  BY DEF IInv
<1>. QED
  BY <1>1, Invariance, PTL

\* The hosts of the machine's own networks are admitted.
THEOREM AdmittedTheorem == Spec => []OwnNetworksAdmitted
<1>1. IInv => OwnNetworksAdmitted
  BY DEF IInv
<1>. QED
  BY <1>1, Invariance, PTL
=============================================================================
