--------------------------- MODULE StartupProofs ---------------------------
(***************************************************************************)
(* Proofs about Instances, for any number of instances, and about Startup, *)
(* for any number of keys as well.                                         *)
(***************************************************************************)
EXTENDS Startup, TLAPS

-----------------------------------------------------------------------------
(* Instances: each resource is held at the stages between taking it and    *)
(* giving it back.                                                         *)

HoldInv ==
  \A p \in Processes :
    /\ p \in listening => stage[p] \in {"bound", "serving", "failed", "stopping", "closing"}
    /\ port = p => stage[p] \in {"serving", "stopping"}
    /\ file = p => stage[p] \in {"bound", "serving", "failed", "stopping", "closing", "closed"}

IInv == TypeOK /\ HoldInv

\* Every step of every instance preserves the types and the holdings.
LEMMA Inductive == IInv /\ [Next]_vars => IInv'
<1> SUFFICES ASSUME IInv, [Next]_vars PROVE IInv'
  OBVIOUS
<1> USE InstancesAssumption DEF IInv, TypeOK, HoldInv, Goes, Stages
<1>1. ASSUME NEW p \in Processes, Open(p) PROVE IInv'
  BY <1>1 DEF Open
<1>2. ASSUME NEW p \in Processes, Probe(p) PROVE IInv'
  BY <1>2 DEF Probe, ProbeBy
<1>3. ASSUME NEW p \in Processes, UnlinkStale(p) PROVE IInv'
  BY <1>3 DEF UnlinkStale
<1>4. ASSUME NEW p \in Processes, Bind(p) PROVE IInv'
  BY <1>4 DEF Bind
<1>5. ASSUME NEW p \in Processes, BindPort(p) PROVE IInv'
  BY <1>5 DEF BindPort
<1>6. ASSUME NEW p \in Processes, Stop(p) PROVE IInv'
  BY <1>6 DEF Stop
<1>7. ASSUME NEW p \in Processes, ReleasePort(p) PROVE IInv'
  BY <1>7 DEF ReleasePort
<1>8. ASSUME NEW p \in Processes, CloseServer(p) PROVE IInv'
  BY <1>8 DEF CloseServer
<1>9. ASSUME NEW p \in Processes, UnlinkSocket(p) PROVE IInv'
  BY <1>9 DEF UnlinkSocket
<1>10. ASSUME NEW p \in Processes, Crash(p) PROVE IInv'
  BY <1>10 DEF Crash
<1>11. ASSUME PowerLoss PROVE IInv'
  BY <1>11 DEF PowerLoss
<1>12. CASE UNCHANGED vars
  BY <1>12 DEF vars
<1> QED
  BY <1>1, <1>2, <1>3, <1>4, <1>5, <1>6, <1>7, <1>8, <1>9, <1>10, <1>11, <1>12 DEF Next, Step

\* The invariant holds in every behaviour of the instances.
THEOREM Invariance == Spec => []IInv
<1>1. Init => IInv
  BY InstancesAssumption DEF Init, IInv, TypeOK, HoldInv, Stages
<1> QED
  BY <1>1, Inductive, PTL DEF Spec

\* An instance that has ended holds neither the port nor a server nor the path.
THEOREM StoppedTheorem == Spec => []StoppedHoldsNothing
<1>1. IInv => StoppedHoldsNothing
  BY DEF IInv, HoldInv, StoppedHoldsNothing
<1> QED
  BY <1>1, Invariance, PTL

-----------------------------------------------------------------------------
(* Startup implements Instances.                                           *)

\* What an instance does before it opens the database leaves the socket and the port alone.
LEMMA StepImplements == [StartupNext]_startupVars => [Next]_vars
<1> SUFFICES ASSUME [StartupNext]_startupVars PROVE [Next]_vars
  OBVIOUS
<1>1. CASE PowerFailure
  BY <1>1 DEF PowerFailure, Next
<1>2. ASSUME NEW p \in Processes, Serve(p) \/ End(p) \/ Kill(p) PROVE [Next]_vars
  BY <1>2 DEF Serve, End, Kill, Next, Step
<1>3. ASSUME NEW p \in Processes, StartupStep(p), ~(Serve(p) \/ End(p) \/ Kill(p))
      PROVE  UNCHANGED vars
  BY <1>3 DEF StartupStep, Load, Generate, CreateTmp, CreateFails, Write, WriteTo, WriteFails,
              WriteRaises, Rename, SyncDirectory, Synced, Moves
<1>4. CASE UNCHANGED startupVars
  BY <1>4 DEF startupVars
<1> QED
  BY <1>1, <1>2, <1>3, <1>4 DEF StartupNext

\* Starts that make or load a key first, and power failures, change nothing of what
\* Instances says about the socket and the port.
THEOREM StartupImplements == StartupSpec => Spec
<1>1. StartupInit => Init
  BY DEF StartupInit
<1> QED
  BY <1>1, StepImplements, PTL DEF StartupSpec, Spec

\* An instance that has ended, however its start went, holds nothing of the others'.
THEOREM StartupStopped == StartupSpec => []StoppedHoldsNothing
BY StartupImplements, StoppedTheorem, PTL

-----------------------------------------------------------------------------
(* The inductive invariant of the key.                                     *)

\* The temporary file belongs to the instance that is writing it, and what has been
\* written cannot be lost any more.
TmpInv ==
  /\ \A p \in Processes : step[p] \in {"created", "written"} => tmp # Absent
  /\ \A p, q \in Processes :
       step[p] \in {"created", "written"} /\ step[q] \in {"created", "written"} => p = q
  /\ \A p \in Processes :
       step[p] = "written" => tmp = mine[p] /\ \A d \in maybe : d.tmp # Empty

\* While nobody is between rename and fsync, the disk and the path agree; the key in use is
\* the one at the path; only one instance makes a key, and none while one is in use.
KeyInv ==
  clean =>
    /\ (\A p \in Processes : step[p] # "renamed") => \A d \in maybe : d.path = path
    /\ used # {} => used = {path} /\ \A p \in Processes : step[p] \notin Making
    /\ \A p, q \in Processes : step[p] \in Making /\ step[q] \in Making => p = q
    /\ \A p \in Processes : step[p] = "renamed" => path = mine[p]

\* An instance that has gone on has its key.
LoadedInv ==
  /\ stage \in [Processes -> Stages]
  /\ \A p \in Processes : stage[p] # "off" => step[p] = "loaded"

SInv == StartupTypeOK /\ WholeKey /\ TmpInv /\ KeyInv /\ LoadedInv

\* The histories of solitude and of what was cut off keep their types.
LEMMA HistoryTypes ==
  ASSUME alone \subseteq Processes, left \in BOOLEAN, [StartupNext]_startupVars
  PROVE  alone' \subseteq Processes /\ left' \in BOOLEAN
<1>1. ASSUME NEW p \in Processes, Load(p) \/ Generate(p) PROVE alone' \subseteq Processes /\ left' = left
  BY <1>1 DEF Load, Generate, Alone
<1>2. ASSUME NEW p \in Processes, CreateTmp(p) \/ CreateFails(p) \/ Write(p) \/ WriteFails(p)
                                    \/ Rename(p) \/ SyncDirectory(p) \/ Serve(p)
      PROVE  alone' = alone /\ left' = left
  BY <1>2 DEF CreateTmp, CreateFails, Write, WriteTo, WriteFails, WriteRaises, Rename,
              SyncDirectory, Synced, Serve
<1>3. ASSUME NEW p \in Processes, End(p) PROVE alone' = alone \ {p} /\ left' = left
  BY <1>3 DEF End
<1>4. ASSUME NEW p \in Processes, Kill(p) PROVE alone' = alone \ {p} /\ left' \in BOOLEAN
  BY <1>4 DEF Kill
<1>5. ASSUME PowerFailure PROVE alone' = {} /\ left' \in BOOLEAN
  BY <1>5 DEF PowerFailure
<1>6. CASE UNCHANGED startupVars
  BY <1>6 DEF startupVars
<1> QED
  BY <1>1, <1>2, <1>3, <1>4, <1>5, <1>6 DEF StartupNext, StartupStep

\* Every step keeps the types, the files and the key.
LEMMA StartupInductive == SInv /\ [StartupNext]_startupVars => SInv'
<1> SUFFICES ASSUME SInv, [StartupNext]_startupVars PROVE SInv'
  OBVIOUS
<1> USE StartupAssumption DEF SInv, StartupTypeOK, WholeKey, TmpInv, KeyInv, Steps, Making,
        Contents, Moves, LoadedInv, vars
<1>0. alone' \subseteq Processes /\ left' \in BOOLEAN
  BY HistoryTypes
<1>1. ASSUME NEW p \in Processes, Load(p) PROVE SInv'
  <2>1. /\ path \in Nat
        /\ stage[p] = "off" /\ step[p] = "idle"
        /\ step' = [step EXCEPT ![p] = "loaded"]
        /\ mine' = [mine EXCEPT ![p] = path]
        /\ used' = used \cup {path}
        /\ clean' = (clean /\ \A q \in Processes \ {p} : step[q] \notin Making)
        /\ UNCHANGED <<path, tmp, maybe, made>>
    BY <1>1 DEF Load, Undisturbed
  <2>2. StartupTypeOK' /\ WholeKey'
    BY <1>0, <2>1
  <2>3. TmpInv'
    BY <2>1
  <2>4. KeyInv'
    BY <2>1
  <2>5. LoadedInv'
    BY <1>1 DEF Load
  <2> QED BY <2>2, <2>3, <2>4, <2>5
<1>2. ASSUME NEW p \in Processes, Generate(p) PROVE SInv'
  <2>1. /\ path = Absent
        /\ stage[p] = "off" /\ step[p] = "idle"
        /\ step' = [step EXCEPT ![p] = "absent"]
        /\ made' = made + 1
        /\ mine' = [mine EXCEPT ![p] = made + 1]
        /\ clean' = (clean /\ \A q \in Processes \ {p} : step[q] \notin Making)
        /\ UNCHANGED <<stage, path, tmp, maybe, used>>
    BY <1>2 DEF Generate, Undisturbed
  <2>2. StartupTypeOK' /\ WholeKey' /\ LoadedInv'
    BY <1>0, <2>1
  <2>3. TmpInv'
    BY <2>1
  <2>4. KeyInv'
    <3>1. clean => used = {}
      BY <2>1
    <3> QED BY <2>1, <3>1
  <2> QED BY <2>2, <2>3, <2>4
<1>3. ASSUME NEW p \in Processes, CreateTmp(p) PROVE SInv'
  BY <1>3 DEF CreateTmp
<1>4. ASSUME NEW p \in Processes, CreateFails(p) PROVE SInv'
  BY <1>4 DEF CreateFails
<1>5. ASSUME NEW p \in Processes, Write(p) PROVE SInv'
  BY <1>5 DEF Write, WriteTo
<1>6. ASSUME NEW p \in Processes, WriteFails(p) PROVE SInv'
  BY <1>6 DEF WriteFails, WriteRaises
<1>7. ASSUME NEW p \in Processes, Rename(p) PROVE SInv'
  <2>1. /\ tmp = mine[p] /\ tmp \in Nat /\ path' = tmp /\ tmp' = Absent
        /\ step[p] = "written"
        /\ step' = [step EXCEPT ![p] = "renamed"]
        /\ UNCHANGED <<mine, made, used, clean>>
    BY <1>7 DEF Rename
  <2>2. \A d \in maybe' : \/ d \in maybe
                         \/ \E e \in maybe : e.tmp # Absent /\ e.tmp # Empty
                                          /\ d = [path |-> e.tmp, tmp |-> Absent]
    BY <1>7 DEF Rename
  <2>3. StartupTypeOK' /\ WholeKey'
    BY <1>0, <2>1, <2>2
  <2>4. TmpInv'
    BY <2>1
  <2>5. KeyInv'
    BY <2>1
  <2>6. LoadedInv'
    BY <1>7 DEF Rename
  <2> QED BY <2>3, <2>4, <2>5, <2>6
<1>8. ASSUME NEW p \in Processes, SyncDirectory(p) PROVE SInv'
  <2>1. /\ step[p] = "renamed"
        /\ step' = [step EXCEPT ![p] = "loaded"]
        /\ maybe' = {[path |-> path, tmp |-> tmp]}
        /\ used' = used \cup {mine[p]}
        /\ UNCHANGED <<mine, path, tmp, made, clean>>
    BY <1>8 DEF SyncDirectory, Synced
  <2>2. StartupTypeOK' /\ WholeKey'
    <3>1. maybe' \subseteq [path : Contents, tmp : Contents] /\ \A d \in maybe' : d.path # Empty
      BY <2>1
    <3>2. mine[p] \in Nat
      OBVIOUS
    <3> QED BY <1>0, <2>1, <3>1, <3>2
  <2>3. TmpInv'
    BY <2>1
  <2>4. KeyInv'
    <3>1. clean => used' = {path} /\ path = mine[p] /\ \A q \in Processes : step'[q] \notin Making
      BY <2>1
    <3>2. \A d \in maybe' : d.path = path'
      BY <2>1
    <3> QED BY <2>1, <3>1, <3>2
  <2>5. LoadedInv'
    BY <1>8 DEF SyncDirectory, Synced
  <2> QED BY <2>2, <2>3, <2>4, <2>5
<1>9. ASSUME NEW p \in Processes, Serve(p) PROVE SInv'
  <2>1. step[p] = "loaded" /\ UNCHANGED <<step, mine, path, tmp, maybe, made, used, clean>>
    BY <1>9 DEF Serve, Files
  <2>2. stage' \in [Processes -> Stages] /\ \A q \in Processes \ {p} : stage'[q] = stage[q]
    BY <1>9 DEF Serve, Open, Probe, ProbeBy, UnlinkStale, Bind, BindPort, Stop, ReleasePort,
                CloseServer, Goes, Stages
  <2> QED BY <1>0, <2>1, <2>2
<1>10. ASSUME NEW p \in Processes, End(p) \/ Kill(p) PROVE SInv'
  <2>1. /\ step' = [step EXCEPT ![p] = "idle"]
        /\ mine' = [mine EXCEPT ![p] = 0]
        /\ clean' => clean /\ step[p] # "renamed"
        /\ clean' \in BOOLEAN
        /\ UNCHANGED <<path, tmp, maybe, made, used>>
    <3>1. CASE End(p)
      <4>1. step[p] # "renamed"
        BY <3>1 DEF End, UnlinkSocket, Goes
      <4> QED BY <3>1, <4>1 DEF End, Ends, Files
    <3>2. CASE Kill(p)
      <4>1. /\ step' = [step EXCEPT ![p] = "idle"]
            /\ mine' = [mine EXCEPT ![p] = 0]
            /\ UNCHANGED <<path, tmp, maybe, made, used>>
        BY <3>2 DEF Kill, Ends, Files
      <4>2. clean' = (clean /\ step[p] # "renamed")
        BY <3>2 DEF Kill
      <4> QED BY <4>1, <4>2
    <3> QED BY <1>10, <3>1, <3>2
  <2>2. StartupTypeOK' /\ WholeKey'
    BY <1>0, <2>1
  <2>5. TmpInv'
    BY <2>1
  <2>3. KeyInv'
    BY <2>1
  <2>4. LoadedInv'
    <3>1. stage' \in [Processes -> Stages] /\ \A q \in Processes : stage'[q] # "off" => stage[q] # "off" /\ q # p
      BY <1>10 DEF End, UnlinkSocket, Goes, Kill, Crash, Stages
    <3> QED BY <2>1, <3>1
  <2> QED BY <2>2, <2>3, <2>4, <2>5
<1>11. CASE PowerFailure
  <2>1. /\ step' = [p \in Processes |-> "idle"] /\ mine' = [p \in Processes |-> 0]
        /\ stage' = [p \in Processes |-> "off"]
        /\ UNCHANGED <<made, used, clean>>
    BY <1>11 DEF PowerFailure, PowerLoss
  <2>2. PICK d \in maybe : path' = d.path /\ tmp' = d.tmp /\ maybe' = {d}
    BY <1>11 DEF PowerFailure
  <2>3. StartupTypeOK' /\ WholeKey'
    BY <1>0, <2>1, <2>2
  <2>4. TmpInv' /\ LoadedInv'
    BY <2>1, <2>2 DEF Stages
  <2>5. KeyInv'
    <3>1. SUFFICES ASSUME clean, used # {} PROVE used = {path'}
      BY <2>1, <2>2
    <3>2. path' = path
      BY <2>2, <3>1
    <3> QED BY <3>1, <3>2
  <2> QED BY <2>3, <2>4, <2>5
<1>12. CASE UNCHANGED startupVars
  BY <1>12 DEF startupVars
<1> QED
  BY <1>1, <1>2, <1>3, <1>4, <1>5, <1>6, <1>7, <1>8, <1>9, <1>10, <1>11, <1>12
     DEF StartupNext, StartupStep

\* The invariant holds in every behaviour.
THEOREM StartupInvariance == StartupSpec => []SInv
<1>1. StartupInit => SInv
  <2> SUFFICES ASSUME StartupInit PROVE SInv
    OBVIOUS
  <2>1. StartupTypeOK
    <3>1. clean \in BOOLEAN /\ left \in BOOLEAN /\ alone \subseteq Processes /\ used \subseteq Nat
      BY DEF StartupInit
    <3>2. maybe \subseteq [path : Contents, tmp : Contents]
      BY DEF StartupInit, Contents
    <3>3. step \in [Processes -> Steps] /\ mine \in [Processes -> Nat]
      BY DEF StartupInit, Steps
    <3> QED BY <3>1, <3>2, <3>3 DEF StartupInit, StartupTypeOK, Contents
  <2>2. WholeKey /\ TmpInv /\ KeyInv
    BY StartupAssumption DEF StartupInit, WholeKey, TmpInv, KeyInv, Making
  <2>3. LoadedInv
    BY DEF StartupInit, LoadedInv, Init, Stages
  <2> QED BY <2>1, <2>2, <2>3 DEF SInv
<1> QED
  BY <1>1, StartupInductive, PTL DEF StartupSpec

-----------------------------------------------------------------------------
(* A start that meets no other.                                            *)

\* The temporary file is there only while its instance writes it, or since one was cut off.
LeftInv == tmp # Absent => left \/ \E p \in Processes : step[p] \in {"created", "written"}

\* Nobody else runs beside one that has met no other.
AloneInv ==
  \A p \in alone :
    /\ \A q \in Processes \ {p} : step[q] = "idle"
    /\ stage[p] # "failed"
    /\ step[p] = "exists" => left

AInv == IInv /\ SInv /\ LeftInv /\ AloneInv

\* Every step keeps what a lone start rests on.
LEMMA AloneInductive == AInv /\ SInv' /\ [StartupNext]_startupVars => LeftInv' /\ AloneInv'
<1> SUFFICES ASSUME AInv, SInv', [StartupNext]_startupVars PROVE LeftInv' /\ AloneInv'
  OBVIOUS
<1>0. /\ step \in [Processes -> Steps] /\ alone \subseteq Processes
      /\ stage \in [Processes -> Stages]
      /\ \A q \in Processes : stage[q] # "off" => step[q] = "loaded"
  BY DEF AInv, SInv, StartupTypeOK, LoadedInv
<1>a. LeftInv /\ AloneInv
  BY DEF AInv
<1> USE DEF LeftInv, AloneInv, Moves, vars
<1>1. ASSUME NEW p \in Processes, Load(p) \/ Generate(p) PROVE LeftInv' /\ AloneInv'
  <2>1. /\ stage[p] = "off" /\ step[p] = "idle"
        /\ \E to \in {"loaded", "absent"} : step' = [step EXCEPT ![p] = to]
        /\ alone' = Alone(p)
        /\ UNCHANGED <<stage, tmp, left>>
    BY <1>1 DEF Load, Generate
  <2>2. LeftInv'
    BY <1>0, <1>a, <2>1
  <2>3. AloneInv'
    BY <1>0, <2>1 DEF Alone
  <2> QED BY <2>2, <2>3
<1>2. ASSUME NEW p \in Processes, CreateTmp(p) PROVE LeftInv' /\ AloneInv'
  BY <1>0, <1>a, <1>2 DEF CreateTmp
<1>3. ASSUME NEW p \in Processes, CreateFails(p) PROVE LeftInv' /\ AloneInv'
  <2>1. /\ step[p] = "absent" /\ tmp # Absent
        /\ step' = [step EXCEPT ![p] = "exists"]
        /\ UNCHANGED <<stage, tmp, left, alone>>
    BY <1>3 DEF CreateFails
  <2>2. LeftInv'
    BY <1>0, <1>a, <2>1
  <2>3. p \in alone => left
    <3>1. ASSUME p \in alone, NEW q \in Processes PROVE step[q] \notin {"created", "written"}
      BY <1>a, <2>1, <3>1
    <3> QED BY <1>a, <2>1, <3>1
  <2> QED BY <1>0, <1>a, <2>1, <2>2, <2>3
<1>4. ASSUME NEW p \in Processes, Write(p) PROVE LeftInv' /\ AloneInv'
  BY <1>0, <1>a, <1>4 DEF Write, WriteTo
<1>5. ASSUME NEW p \in Processes, WriteFails(p) \/ Rename(p) PROVE LeftInv' /\ AloneInv'
  <2>1. /\ tmp' = Absent
        /\ step[p] # "idle" /\ \E to \in {"unwritten", "renamed"} : step' = [step EXCEPT ![p] = to]
        /\ UNCHANGED <<stage, left, alone>>
    BY <1>5 DEF WriteFails, WriteRaises, Rename
  <2> QED BY <1>0, <1>a, <2>1
<1>6. ASSUME NEW p \in Processes, SyncDirectory(p) PROVE LeftInv' /\ AloneInv'
  BY <1>0, <1>a, <1>6 DEF SyncDirectory, Synced
<1>7. ASSUME NEW p \in Processes, Serve(p) PROVE LeftInv' /\ AloneInv'
  <2>1. step[p] = "loaded" /\ UNCHANGED <<step, tmp, left, alone>>
    BY <1>7 DEF Serve, Files
  <2>2. \A q \in alone : stage'[q] # "failed"
    <3>1. SUFFICES ASSUME p \in alone PROVE stage'[p] # "failed"
      <4>1. \A q \in alone : q # p => step[p] = "idle"
        BY <1>a
      <4> QED BY <1>a, <2>1, <4>1
    <3>2. \A q \in Processes \ {p} : stage[q] = "off"
      BY <1>0, <1>a, <3>1
    <3>3. \A q \in Processes : q # p => q \notin listening /\ port # q /\ file # q
      BY <3>2 DEF AInv, IInv, HoldInv
    <3>4. CASE Probe(p)
      <4>1. stage[p] = "opened"
        BY <3>4 DEF Probe, ProbeBy, Goes
      <4>2. file \notin listening
        BY <3>3, <4>1 DEF AInv, IInv, HoldInv, TypeOK
      <4> QED BY <1>0, <3>4, <4>2 DEF Probe, ProbeBy, Goes
    <3>5. CASE BindPort(p)
      <4>1. stage[p] = "bound"
        BY <3>5 DEF BindPort, Goes
      <4>2. port = NoProcess
        BY <3>3, <4>1 DEF AInv, IInv, HoldInv, TypeOK
      <4> QED BY <1>0, <3>5, <4>2 DEF BindPort, Goes
    <3>6. CASE Open(p) \/ UnlinkStale(p) \/ Bind(p) \/ Stop(p) \/ ReleasePort(p) \/ CloseServer(p)
      BY <1>0, <3>6 DEF Open, UnlinkStale, Bind, Stop, ReleasePort, CloseServer, Goes
    <3> QED BY <1>7, <3>4, <3>5, <3>6 DEF Serve
  <2> QED BY <1>a, <2>1, <2>2
<1>8. ASSUME NEW p \in Processes, End(p) PROVE LeftInv' /\ AloneInv'
  <2>1. /\ step' = [step EXCEPT ![p] = "idle"]
        /\ alone' = alone \ {p}
        /\ UNCHANGED <<tmp, left>>
    BY <1>8 DEF End, Ends, Files
  <2>2. step[p] \notin {"created", "written"}
    BY <1>0, <1>8 DEF End, UnlinkSocket, Goes
  <2>3. \A q \in Processes \ {p} : stage'[q] = stage[q]
    BY <1>0, <1>8 DEF End, UnlinkSocket, Goes
  <2> QED BY <1>0, <1>a, <2>1, <2>2, <2>3
<1>9. ASSUME NEW p \in Processes, Kill(p) PROVE LeftInv' /\ AloneInv'
  <2>1. /\ step' = [step EXCEPT ![p] = "idle"]
        /\ alone' = alone \ {p}
        /\ tmp' = tmp
    BY <1>9 DEF Kill, Ends, Files
  <2>2. left' = (left \/ step[p] \in {"created", "written"})
    BY <1>9 DEF Kill
  <2>3. \A q \in Processes \ {p} : stage'[q] = stage[q]
    BY <1>0, <1>9 DEF Kill, Crash, Goes
  <2>4. left => left'
    BY <2>2
  <2>5. LeftInv'
    <3>1. CASE step[p] \in {"created", "written"}
      BY <2>2, <3>1
    <3>2. CASE step[p] \notin {"created", "written"}
      BY <1>0, <1>a, <2>1, <2>4, <3>2
    <3> QED BY <3>1, <3>2
  <2> QED BY <1>0, <1>a, <2>1, <2>3, <2>4, <2>5
<1>10. CASE PowerFailure
  <2>1. PICK d \in maybe : tmp' = d.tmp /\ left' = (d.tmp # Absent)
    BY <1>10 DEF PowerFailure
  <2>2. alone' = {}
    BY <1>10 DEF PowerFailure
  <2> QED BY <2>1, <2>2
<1>11. CASE UNCHANGED startupVars
  BY <1>a, <1>11 DEF startupVars
<1> QED
  BY <1>1, <1>2, <1>3, <1>4, <1>5, <1>6, <1>7, <1>8, <1>9, <1>10, <1>11
     DEF StartupNext, StartupStep

\* A start that meets no other instance fails at the key only after another was cut off
\* while its temporary file was there, and never at the socket or the port.
THEOREM StartupAlone == StartupSpec => []AloneSucceeds
<1>1. StartupInit => LeftInv /\ AloneInv
  BY DEF StartupInit, LeftInv, AloneInv
<1>2. IInv /\ SInv /\ LeftInv /\ AloneInv /\ SInv' /\ [StartupNext]_startupVars
        => LeftInv' /\ AloneInv'
  BY AloneInductive DEF AInv
<1>3. AloneInv => AloneSucceeds
  BY DEF AloneInv, AloneSucceeds
<1>4. StartupSpec => []IInv
  BY StartupImplements, Invariance, PTL
<1> QED
  BY <1>1, <1>2, <1>3, <1>4, StartupInvariance, PTL DEF StartupSpec

\* The variables of the start keep their types.
THEOREM StartupTypes == StartupSpec => []StartupTypeOK
<1>1. SInv => StartupTypeOK
  BY DEF SInv
<1> QED
  BY <1>1, StartupInvariance, PTL

\* The key survives crashes and power failures.
THEOREM KeyTheorem == StartupSpec => []KeyKept
<1>1. SInv => KeyKept
  BY DEF SInv, KeyInv, KeyKept
<1> QED
  BY <1>1, StartupInvariance, PTL

\* Half a key is never at the path.
THEOREM WholeTheorem == StartupSpec => []WholeKey
<1>1. SInv => WholeKey
  BY DEF SInv
<1> QED
  BY <1>1, StartupInvariance, PTL

=============================================================================
