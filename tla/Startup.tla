------------------------------ MODULE Startup ------------------------------
(***************************************************************************)
(* Instances, with what Service.start does before anything else:           *)
(* identity.load_or_create loads the server's key or makes one.  The key   *)
(* is what phones pin when they pair, so it must outlive every crash.      *)
(*                                                                         *)
(* Startup follows a start that fails here to its end as well.             *)
(*                                                                         *)
(* Keys are numbers.  `path` and `tmp` are the key file and the temporary  *)
(* file as programs see them; `maybe` holds what a power failure may leave *)
(* of the directory: every state since it was last synchronised.  The mode *)
(* of the key file is left out.                                            *)
(***************************************************************************)
EXTENDS Instances

CONSTANTS
  Absent,  \* no such file
  Empty,   \* a file without a whole key
  MaxKeys  \* bound: how many keys are generated in a behaviour

ASSUME StartupAssumption ==
  Absent # Empty /\ Absent \notin Nat /\ Empty \notin Nat /\ MaxKeys \in Nat

VARIABLES
  step,   \* how far each instance has come in load_or_create
  mine,   \* the key it has generated or loaded, or 0
  path,   \* server_key.pem
  tmp,    \* server_key.pem.tmp
  maybe,  \* what the disk may hold
  made,   \* number of keys generated so far
  used,   \* history: the keys that load_or_create has returned
  clean,  \* history: no instance came to load_or_create while another was making a key,
          \*          and none died between renaming it and synchronising the directory
  alone,  \* history: the instances that have met no other since they were started
  left    \* history: an instance was killed, or lost power, while its temporary file was there

startupVars == <<vars, step, mine, path, tmp, maybe, made, used, clean, alone, left>>

Steps == {"idle",
          "absent",     \* the path did not exist, a key is generated: next, create tmp
          "created",    \* next, write and fsync
          "written",    \* next, os.replace
          "renamed",    \* next, fsync of the directory
          "loaded",     \* returned
          "exists",     \* raised: the temporary file was there already
          "unwritten"}  \* raised: the key could not be written

Making == {"absent", "created", "written", "renamed"}

Contents == Nat \cup {Absent, Empty}

StartupTypeOK ==
  /\ step \in [Processes -> Steps]
  /\ mine \in [Processes -> Nat]
  /\ path \in Contents
  /\ tmp \in Contents
  /\ maybe \subseteq [path : Contents, tmp : Contents]
  /\ made \in Nat
  /\ used \subseteq Nat
  /\ clean \in BOOLEAN
  /\ alone \subseteq Processes
  /\ left \in BOOLEAN

StartupInit ==
  /\ Init
  /\ step = [p \in Processes |-> "idle"]
  /\ mine = [p \in Processes |-> 0]
  /\ path = Absent
  /\ tmp = Absent
  /\ maybe = {[path |-> Absent, tmp |-> Absent]}
  /\ made = 0
  /\ used = {}
  /\ clean = TRUE
  /\ alone = {}
  /\ left = FALSE

Moves(p, from, to) ==
  /\ stage[p] = "off" /\ step[p] = from
  /\ step' = [step EXCEPT ![p] = to]
  /\ UNCHANGED vars

\* clean, after p has asked whether the key exists.
Undisturbed(p) == clean /\ \A q \in Processes \ {p} : step[q] \notin Making

\* alone, when p is started: does anybody else run?
Alone(p) == IF \A q \in Processes \ {p} : step[q] = "idle" THEN {p} ELSE {}

-----------------------------------------------------------------------------
(* load_or_create and _write_private.                                      *)

\* The path exists.  (If it did not hold a whole key, loading it would raise.)
Load(p) ==
  /\ Moves(p, "idle", "loaded")
  /\ path # Absent
  /\ mine' = [mine EXCEPT ![p] = path]
  /\ used' = used \cup {path}
  /\ clean' = Undisturbed(p)
  /\ alone' = Alone(p)
  /\ UNCHANGED <<path, tmp, maybe, made, left>>

Generate(p) ==
  /\ Moves(p, "idle", "absent")
  /\ path = Absent
  /\ made < MaxKeys
  /\ made' = made + 1
  /\ mine' = [mine EXCEPT ![p] = made + 1]
  /\ clean' = Undisturbed(p)
  /\ alone' = Alone(p)
  /\ UNCHANGED <<path, tmp, maybe, used, left>>

\* os.open with O_EXCL.
CreateTmp(p) ==
  /\ Moves(p, "absent", "created")
  /\ tmp = Absent
  /\ tmp' = Empty
  /\ maybe' = maybe \cup {[path |-> path, tmp |-> Empty]}
  /\ UNCHANGED <<mine, path, made, used, clean, alone, left>>

\* The temporary file is there, another instance's or a dead one's: FileExistsError.
CreateFails(p) ==
  /\ Moves(p, "absent", "exists")
  /\ tmp # Absent
  /\ UNCHANGED <<mine, path, tmp, maybe, made, used, clean, alone, left>>

WriteTo(p, kept) ==
  /\ Moves(p, "created", "written")
  /\ tmp' = mine[p]
  /\ maybe' = kept \cup {[path |-> path, tmp |-> mine[p]]}
  /\ UNCHANGED <<mine, path, made, used, clean, alone, left>>

\* Mutant: the file is not synchronised.
WriteUnsynced(p) == WriteTo(p, maybe)

\* write, flush, fsync: the file's name may still be lost, its contents cannot.
Write(p) == WriteTo(p, {d \in maybe : d.tmp # Empty})

WriteRaises(p, rest) ==
  /\ Moves(p, "created", "unwritten")
  /\ tmp' = rest
  /\ maybe' = maybe \cup {[path |-> path, tmp |-> rest]}
  /\ UNCHANGED <<mine, path, made, used, clean, alone, left>>

\* Mutant: the temporary file is left where it is.
WriteFailsInPlace(p) == WriteRaises(p, tmp)

\* A full disk, say: the temporary file is removed, the exception goes on.
WriteFails(p) == WriteRaises(p, Absent)

Rename(p) ==
  /\ Moves(p, "written", "renamed")
  /\ path' = tmp
  /\ tmp' = Absent
  /\ maybe' = maybe \cup {[path |-> d.tmp, tmp |-> Absent] : d \in {e \in maybe : e.tmp # Absent}}
  /\ UNCHANGED <<mine, made, used, clean, alone, left>>

Synced(p, kept) ==
  /\ Moves(p, "renamed", "loaded")
  /\ maybe' = kept
  /\ used' = used \cup {mine[p]}
  /\ UNCHANGED <<mine, path, tmp, made, clean, alone, left>>

\* Mutant: the directory is not synchronised.
SyncNothing(p) == Synced(p, maybe)

SyncDirectory(p) == Synced(p, {[path |-> path, tmp |-> tmp]})

-----------------------------------------------------------------------------
(* The rest of an instance's life.                                         *)

Files == <<path, tmp, maybe, made, used>>

Ends(p) ==
  /\ step' = [step EXCEPT ![p] = "idle"]
  /\ mine' = [mine EXCEPT ![p] = 0]

\* With the key, the instance goes on.
Serve(p) ==
  /\ step[p] = "loaded"
  /\ \/ Open(p)
     \/ stage[p] # "off" /\ (Probe(p) \/ UnlinkStale(p) \/ Bind(p) \/ BindPort(p) \/ Stop(p)
                               \/ ReleasePort(p) \/ CloseServer(p))
  /\ UNCHANGED <<step, mine, Files, clean, alone, left>>

\* It has come to its end, or it stops after load_or_create raised: nothing else was
\* started yet, so stop() finds nothing to stop.
End(p) ==
  /\ \/ UnlinkSocket(p)
     \/ step[p] \in {"exists", "unwritten"} /\ UNCHANGED vars
  /\ Ends(p)
  /\ alone' = alone \ {p}
  /\ UNCHANGED <<Files, clean, left>>

\* An error of os.replace, or of the directory's fsync, leaves the files as a kill does.
Kill(p) ==
  /\ step[p] # "idle"
  /\ \/ Crash(p)
     \/ stage[p] = "off" /\ UNCHANGED vars
  /\ Ends(p)
  /\ clean' = (clean /\ step[p] # "renamed")
  /\ alone' = alone \ {p}
  /\ left' = (left \/ step[p] \in {"created", "written"})
  /\ UNCHANGED Files

PowerFailure ==
  /\ PowerLoss
  /\ \E d \in maybe :
       /\ path' = d.path
       /\ tmp' = d.tmp
       /\ maybe' = {d}
       /\ left' = (d.tmp # Absent)
  /\ step' = [p \in Processes |-> "idle"]
  /\ mine' = [p \in Processes |-> 0]
  /\ alone' = {}
  /\ UNCHANGED <<made, used, clean>>

StartupStep(p) ==
  \/ Load(p)
  \/ Generate(p)
  \/ CreateTmp(p)
  \/ CreateFails(p)
  \/ Write(p)
  \/ WriteFails(p)
  \/ Rename(p)
  \/ SyncDirectory(p)
  \/ Serve(p)
  \/ End(p)
  \/ Kill(p)

StartupNext == PowerFailure \/ \E p \in Processes : StartupStep(p)

StartupSpec == StartupInit /\ [][StartupNext]_startupVars

-----------------------------------------------------------------------------
(* Properties.                                                             *)

\* identity.py: "Losing it means every paired device must be re-enrolled".  Whatever
\* processes are killed and whenever the power fails, every start returns the key that
\* the first one returned, unless two instances made it at once or one was killed
\* between its rename and the directory's fsync.
KeyKept == clean => \A j, k \in used : j = k

\* _write_private, "atomically": neither a program nor a power failure ever sees half a
\* key at the key's path.
WholeKey == path # Empty /\ \A d \in maybe : d.path # Empty

\* control/server.py, _unlink_stale, "Remove a socket left behind by a crashed process", and
\* _write_private's removal of what it could not write: whatever died or failed before, and
\* wherever, an instance that meets no other does not fail at the socket or the port, and
\* fails at the key's temporary file only if an earlier start was cut off while that file
\* was there.  That it does fail then is the counterexample to FirstRunSucceeds.
AloneSucceeds == \A p \in alone : stage[p] # "failed" /\ (step[p] = "exists" => left)

\* load_or_create, "generating it on first run": the temporary file is in the way only
\* while another instance writes it.
FirstRunSucceeds ==
  [][\A p \in Processes :
       CreateFails(p) => \E q \in Processes : step[q] \in {"created", "written"}]_startupVars

=============================================================================
