---------------------------- MODULE PhoneProofs ----------------------------
(***************************************************************************)
(* Proofs about Phone, for any number of pairings, of requests in flight   *)
(* and of starts of the app: the row that the user sees can be used, and a *)
(* key that was deleted stays deleted.                                     *)
(***************************************************************************)
EXTENDS Phone, TLAPS

-----------------------------------------------------------------------------
(* The inductive invariant.                                                *)

\* The row's enrolment ended well, and its key is there unless its deletion has begun.
Vouched(r) ==
  r # NoRow =>
    /\ pairing[r.pairing] = "paired"
    /\ Alias(r.pairing) \in shared \cup private \/ deletion[r.pairing] # "none"

\* So it is for every row, shown, stored or on its way to the disk: no row is ever older
\* than its pairing.
RowsVouched == Vouched(row) /\ Vouched(disk) /\ \A k \in DOMAIN saves : Vouched(saves[k])

\* A process that has not read the disk has done nothing yet, and a row that lost its key
\* in an earlier one is known to have.
NothingRuns ==
  app # "on" =>
    /\ row = NoRow /\ saves = <<>>
    /\ removal.at = "idle"
    /\ \A c \in Calls : call[c].at = "idle"
    /\ \A p \in Pairings : pairing[p] \in {"new", "failed", "paired", "lost"}
    /\ disk # NoRow /\ deletion[disk.pairing] # "none" => disk.pairing \in interrupted

\* The key of an enrolment is there from its creation to its first deletion, which takes
\* it from where the second does not, and neither before nor after them.
EnrolmentKeeps ==
  \A p \in Pairings :
    /\ pairing[p] \in {"new", "created", "signed", "failing"} => deletion[p] = "none"
    /\ pairing[p] \in {"created", "signed"} => Alias(p) \in shared \cup private
    /\ pairing[p] = "clearing" => Alias(p) \notin shared
    /\ pairing[p] \in {"new", "failed"} => Alias(p) \notin shared \cup private

\* Only what has been paired is removed or asked.
OnlyPaired ==
  /\ removal.at # "idle" => pairing[removal.pairing] = "paired"
  /\ \A c \in Calls : call[c].at # "idle" => pairing[call[c].pairing] = "paired"

\* Nothing gets into the group before a build has it.
GroupHeld ==
  /\ ~granted => shared = {}
  /\ \A c \in Calls : call[c].at \in {"promote", "copy"} => granted

\* Between the two deletions of a removal, the group has the key only if a request has
\* written it back.
HalfRemoved ==
  removal.at = "second" =>
    /\ deletion[removal.pairing] # "none"
    /\ Alias(removal.pairing) \in shared => removal.pairing \in carried

IInv ==
  /\ TypeOK /\ RowsVouched /\ NothingRuns /\ EnrolmentKeeps /\ OnlyPaired /\ GroupHeld
  /\ HalfRemoved /\ RowHasKey /\ DeletedIsGone

\* Before the app has been started.
LEMMA Initially == Init => IInv
<1> SUFFICES ASSUME Init PROVE IInv
  OBVIOUS
<1>0. 0 \in Pairings /\ 0 \in 0 .. MaxLaunches
  BY PhoneAssumption DEF Pairings
<1>1. TypeOK
  BY <1>0 DEF Init, TypeOK, Rows, Statuses, Stages, Places, Idle, Alias
<1>2. RowsVouched
  BY <1>0 DEF Init, RowsVouched, Vouched, Alias
<1>3. NothingRuns
  BY <1>0 DEF Init, NothingRuns, Idle
<1>4. EnrolmentKeeps /\ OnlyPaired /\ GroupHeld /\ HalfRemoved
  BY <1>0 DEF Init, EnrolmentKeeps, OnlyPaired, GroupHeld, HalfRemoved, Idle, Alias
<1>5. RowHasKey /\ DeletedIsGone
  BY DEF Init, RowHasKey, DeletedIsGone
<1> QED
  BY <1>1, <1>2, <1>3, <1>4, <1>5 DEF IInv

-----------------------------------------------------------------------------
(* The operators that several steps share.                                 *)

\* What set() does to the copy and to its timer.
LEMMA Published ==
  ASSUME NEW same \in BOOLEAN, NEW t \in {"none", "set", "due"},
         current \in BOOLEAN, reached \in BOOLEAN, recent \in BOOLEAN, Publish(same, t)
  PROVE  /\ current' \in BOOLEAN /\ reached' \in BOOLEAN
         /\ recent' \in BOOLEAN /\ timer' \in {"none", "set", "due"}
<1>1. current' \in BOOLEAN /\ reached' \in BOOLEAN /\ recent' \in BOOLEAN
  BY Zenon DEF Publish, Write
<1>2. timer' \in {"none", "set", "due"}
  BY DEF Publish
<1> QED
  BY <1>1, <1>2

\* And to the rows.
LEMMA Stored ==
  ASSUME TypeOK, NEW r \in Rows, NEW s \in Statuses, Set(r, s)
  PROVE  /\ row' = r /\ status' = s /\ disk' = disk
         /\ saves' \in Seq(Rows)
         /\ \A k \in DOMAIN saves' :
              saves'[k] = r \/ (k \in DOMAIN saves /\ saves'[k] = saves[k])
         /\ current' \in BOOLEAN /\ reached' \in BOOLEAN
         /\ recent' \in BOOLEAN /\ timer' \in {"none", "set", "due"}
<1>1. row' = r /\ status' = s /\ disk' = disk /\ (saves' = saves \/ saves' = Append(saves, r))
  BY DEF Set
<1>2. saves \in Seq(Rows)
  BY DEF TypeOK
<1>3. ASSUME saves' = Append(saves, r)
      PROVE  /\ saves' \in Seq(Rows)
             /\ \A k \in DOMAIN saves' :
                  saves'[k] = r \/ (k \in DOMAIN saves /\ saves'[k] = saves[k])
  BY <1>2, <1>3
<1>4. /\ current' \in BOOLEAN /\ reached' \in BOOLEAN
      /\ recent' \in BOOLEAN /\ timer' \in {"none", "set", "due"}
  <2>1. PICK same \in BOOLEAN : Publish(same, timer)
    BY Zenon DEF Set
  <2> QED BY <2>1, Published DEF TypeOK
<1> QED
  BY <1>1, <1>2, <1>3, <1>4

\* A row is vouched for as long as its key is only deleted by what says so.
LEMMA StillVouched ==
  ASSUME NEW r, Vouched(r),
         \A p : pairing[p] = "paired" => pairing'[p] = "paired",
         \A p : Alias(p) \in shared \cup private \/ deletion[p] # "none"
               => Alias(p) \in shared' \cup private' \/ deletion'[p] # "none"
  PROVE  Vouched(r)'
BY DEF Vouched

\* updatePC touches neither the pairing nor a PC that has gone.
LEMMA SamePairing ==
  ASSUME TypeOK, NEW m \in Modes \cup {"keep"}
  PROVE  /\ Patched(m) \in Rows
         /\ Patched(m) # NoRow => row # NoRow /\ Patched(m).pairing = row.pairing
BY DEF TypeOK, Patched, Rows, Modes

-----------------------------------------------------------------------------
(* Requests and timers.                                                    *)

\* A step of requests: they write back the keys of what was paired, which is remembered
\* of a key whose deletion had begun, and leave the row to its pairing.
LEMMA RequestStep ==
  ASSUME IInv, TypeOK', app = "on" \/ UNCHANGED <<row, saves, call>>,
         UNCHANGED <<process, disk, pairing, removal, deletion, interrupted>>,
         \A c \in Calls : call'[c].at # "idle" => pairing[call'[c].pairing] = "paired",
         \A c \in Calls : call'[c].at \in {"promote", "copy"} => granted,
         shared \subseteq shared', private \subseteq private', carried \subseteq carried',
         shared' # shared => granted,
         \A p \in (shared' \ shared) \cup (private' \ private) :
           pairing[p] = "paired" /\ (deletion[p] # "none" => p \in carried'),
         row' # NoRow => row # NoRow /\ row'.pairing = row.pairing,
         \A k \in DOMAIN saves' :
           saves'[k] = row' \/ (k \in DOMAIN saves /\ saves'[k] = saves[k])
  PROVE  IInv'
<1> USE DEF Alias, KeyOf
<1>1. RowsVouched'
  <2>1. \A r : Vouched(r) => Vouched(r)'
    BY StillVouched
  <2>2. Vouched(row) => Vouched(row)'
    BY DEF Vouched
  <2>3. Vouched(disk)' /\ Vouched(row)'
    BY <2>1, <2>2 DEF IInv, RowsVouched
  <2>4. ASSUME NEW k \in DOMAIN saves' PROVE Vouched(saves[k])'
    BY <2>1, <2>3 DEF IInv, RowsVouched, Vouched
  <2> QED BY <2>3, <2>4 DEF RowsVouched
<1>2. NothingRuns'
  BY DEF IInv, NothingRuns, process
<1>3. EnrolmentKeeps'
  BY DEF IInv, EnrolmentKeeps
<1>4. OnlyPaired'
  BY DEF IInv, OnlyPaired
<1>5. GroupHeld'
  BY DEF IInv, GroupHeld, process
<1>6. HalfRemoved'
  BY DEF IInv, HalfRemoved
<1>7. RowHasKey'
  BY DEF IInv, RowHasKey
<1>8. DeletedIsGone'
  BY DEF IInv, DeletedIsGone
<1> QED
  BY <1>1, <1>2, <1>3, <1>4, <1>5, <1>6, <1>7, <1>8 DEF IInv

\* The timers and the disk's own pace.
LEMMA TimerStep == ASSUME IInv, Elapse \/ TimerFires PROVE IInv'
<1>1. /\ current' \in BOOLEAN /\ reached' \in BOOLEAN
      /\ recent' \in BOOLEAN /\ timer' \in {"none", "set", "due"}
  <2>1. CASE Elapse
    BY <2>1 DEF Elapse, IInv, TypeOK
  <2>2. CASE TimerFires
    BY <2>2, Published DEF TimerFires, IInv, TypeOK
  <2> QED BY <2>1, <2>2
<1>2. /\ UNCHANGED <<process, row, status, disk, saves, pairing, removal, call>>
      /\ UNCHANGED <<shared, private, deletion, carried, interrupted>>
  BY DEF Elapse, TimerFires, keychain, store, history
<1>3. TypeOK'
  BY <1>1, <1>2 DEF IInv, TypeOK, process
<1>4. \A c \in Calls : /\ call[c].at # "idle" => pairing[call[c].pairing] = "paired"
                       /\ call[c].at \in {"promote", "copy"} => granted
  BY DEF IInv, OnlyPaired, GroupHeld
<1> QED
  BY <1>2, <1>3, <1>4, RequestStep

\* A call that is at some place: the app runs, and its pairing has been enrolled.
LEMMA AtPlace ==
  ASSUME IInv, NEW c \in Calls, call[c].at # "idle"
  PROVE  /\ app = "on" /\ call[c].pairing \in Pairings
         /\ pairing[call[c].pairing] = "paired"
         /\ call[c].at \in {"promote", "copy"} => granted
BY DEF IInv, NothingRuns, OnlyPaired, GroupHeld, TypeOK

\* And when it goes to another.
LEMMA Goes ==
  ASSUME IInv, NEW c \in Calls, call[c].at # "idle", NEW x \in Places, Go(c, x),
         x \in {"promote", "copy"} => granted
  PROVE  /\ call' \in [Calls -> [at : Places, pairing : Pairings]]
         /\ \A d \in Calls : call'[d].at # "idle" => pairing[call'[d].pairing] = "paired"
         /\ \A d \in Calls : call'[d].at \in {"promote", "copy"} => granted
<1>1. /\ call \in [Calls -> [at : Places, pairing : Pairings]]
      /\ \A d \in Calls : /\ call[d].at # "idle" => pairing[call[d].pairing] = "paired"
                          /\ call[d].at \in {"promote", "copy"} => granted
  BY DEF IInv, TypeOK, OnlyPaired, GroupHeld
<1>2. ASSUME NEW d \in Calls
      PROVE  call'[d].pairing = call[d].pairing /\ call'[d].at = IF d = c THEN x ELSE call[d].at
  BY <1>1 DEF Go
<1>3. call' \in [Calls -> [at : Places, pairing : Pairings]]
  BY <1>1 DEF Go
<1> QED
  BY <1>1, <1>2, <1>3

\* A call ends.
LEMMA Ends ==
  ASSUME IInv, NEW c \in Calls, call' = [call EXCEPT ![c] = Idle]
  PROVE  /\ call' \in [Calls -> [at : Places, pairing : Pairings]]
         /\ \A d \in Calls : call'[d].at # "idle" => pairing[call'[d].pairing] = "paired"
         /\ \A d \in Calls : call'[d].at \in {"promote", "copy"} => granted
<1>1. 0 \in Pairings
  BY PhoneAssumption DEF Pairings
<1> QED
  BY <1>1 DEF IInv, TypeOK, OnlyPaired, GroupHeld, Idle, Places

\* A call begins, or finds the seed, or cannot migrate it.
LEMMA CallMoves ==
  ASSUME IInv, NEW c \in Calls, BeginCall(c) \/ ReadSeed(c) \/ MigrationFails(c)
  PROVE  IInv'
<1>1. /\ UNCHANGED <<process, row, status, disk, saves, pairing, removal>>
      /\ UNCHANGED <<shared, private>>
      /\ UNCHANGED <<current, reached, recent, timer, deletion, carried, interrupted>>
  BY DEF BeginCall, ReadSeed, MigrationFails, keychain, store, widget, history
<1>2. /\ app = "on"
      /\ call' \in [Calls -> [at : Places, pairing : Pairings]]
      /\ \A d \in Calls : call'[d].at # "idle" => pairing[call'[d].pairing] = "paired"
      /\ \A d \in Calls : call'[d].at \in {"promote", "copy"} => granted
  <2>1. CASE BeginCall(c)
    <3>1. /\ app = "on" /\ row.pairing \in Pairings /\ pairing[row.pairing] = "paired"
          /\ call \in [Calls -> [at : Places, pairing : Pairings]]
          /\ \A d \in Calls : /\ call[d].at # "idle" => pairing[call[d].pairing] = "paired"
                              /\ call[d].at \in {"promote", "copy"} => granted
      BY <2>1 DEF BeginCall, IInv, TypeOK, RowsVouched, Vouched, OnlyPaired, GroupHeld, Rows
    <3>2. PICK x \in {"migrate", "resolve"} :
            call' = [call EXCEPT ![c] = [at |-> x, pairing |-> row.pairing]]
      BY <2>1 DEF BeginCall
    <3> QED BY <3>1, <3>2 DEF Places
  <2>2. CASE ReadSeed(c)
    BY <2>2, AtPlace, Goes DEF ReadSeed, Places
  <2>3. CASE MigrationFails(c)
    BY <2>3, AtPlace, Goes DEF MigrationFails, Places
  <2> QED BY <2>1, <2>2, <2>3
<1>3. TypeOK'
  BY <1>1, <1>2 DEF IInv, TypeOK, process
<1> QED
  BY <1>1, <1>2, <1>3, RequestStep

\* A promotion, of a key whose deletion may have begun.
LEMMA PromoteStep == ASSUME IInv, NEW c \in Calls, Promote(c) PROVE IInv'
<1> DEFINE p == call[c].pairing
<1> USE DEF Alias
<1>1. /\ UNCHANGED <<process, row, status, disk, saves, pairing, removal>>
      /\ UNCHANGED <<private, current, reached, recent, timer, deletion, interrupted>>
  BY DEF Promote, store, widget, history, Writing
<1>2. app = "on" /\ p \in Pairings /\ pairing[p] = "paired" /\ granted
  BY AtPlace DEF Promote
<1>3. /\ call' \in [Calls -> [at : Places, pairing : Pairings]]
      /\ \A d \in Calls : call'[d].at # "idle" => pairing[call'[d].pairing] = "paired"
      /\ \A d \in Calls : call'[d].at \in {"promote", "copy"} => granted
  BY Goes DEF Promote, Places
<1>4. \/ /\ shared' = shared \cup {p}
         /\ carried' = IF deletion[p] = "none" THEN carried ELSE carried \cup {p}
      \/ shared' = shared /\ carried' = carried
  BY DEF Promote, Writing, history
<1>5. TypeOK'
  BY <1>1, <1>2, <1>3, <1>4 DEF IInv, TypeOK, process
<1> QED
  BY <1>1, <1>2, <1>3, <1>4, <1>5, RequestStep

\* A migration, likewise, and the row's new mode.
LEMMA RewriteStep == ASSUME IInv, NEW c \in Calls, Rewrite(c) PROVE IInv'
<1> DEFINE p == call[c].pairing
<1> USE DEF Alias
<1>1. UNCHANGED <<process, pairing, removal, deletion, interrupted>>
  BY DEF Rewrite, Writing
<1>2. app = "on" /\ p \in Pairings /\ pairing[p] = "paired"
  BY AtPlace DEF Rewrite
<1>3. /\ call' \in [Calls -> [at : Places, pairing : Pairings]]
      /\ \A d \in Calls : call'[d].at # "idle" => pairing[call'[d].pairing] = "paired"
      /\ \A d \in Calls : call'[d].at \in {"promote", "copy"} => granted
  BY Goes DEF Rewrite, Places
<1>4. /\ \/ granted /\ shared' = shared \cup {p} /\ private' = private
         \/ shared' = shared /\ private' = private \cup {p}
      /\ carried' = IF deletion[p] = "none" THEN carried ELSE carried \cup {p}
  BY DEF Rewrite, Writing, WriteSeed
<1>5. /\ row' \in Rows /\ status' \in Statuses /\ disk' = disk /\ saves' \in Seq(Rows)
      /\ row' # NoRow => row # NoRow /\ row'.pairing = row.pairing
      /\ \A k \in DOMAIN saves' :
           saves'[k] = row' \/ (k \in DOMAIN saves /\ saves'[k] = saves[k])
      /\ current' \in BOOLEAN /\ reached' \in BOOLEAN
      /\ recent' \in BOOLEAN /\ timer' \in {"none", "set", "due"}
  <2>0. TypeOK /\ status \in Statuses
    BY DEF IInv, TypeOK
  <2>1. CASE UNCHANGED <<store, widget>>
    BY <2>0, <2>1 DEF TypeOK, store, widget
  <2>2. CASE Set(Patched("device-only"), status)
    BY <2>0, <2>2, Stored, SamePairing DEF Modes
  <2> QED BY <2>1, <2>2 DEF Rewrite, UpdateMode
<1>6. TypeOK'
  BY <1>1, <1>2, <1>3, <1>4, <1>5 DEF IInv, TypeOK, process
<1> QED
  BY <1>1, <1>2, <1>3, <1>4, <1>5, <1>6, RequestStep

\* The address is found, or the PC answers, or it does not.
LEMMA AnswerStep ==
  ASSUME IInv, NEW c \in Calls, Resolve(c) \/ Answer(c) \/ Fail(c)
  PROVE  IInv'
<1>1. UNCHANGED <<process, shared, private, pairing, removal, deletion, carried, interrupted>>
  BY DEF Resolve, Answer, Fail, keychain, history
<1>2. app = "on" /\ call[c].at # "idle"
  BY AtPlace DEF Resolve, Answer, Fail
<1>3. /\ call' \in [Calls -> [at : Places, pairing : Pairings]]
      /\ \A d \in Calls : call'[d].at # "idle" => pairing[call'[d].pairing] = "paired"
      /\ \A d \in Calls : call'[d].at \in {"promote", "copy"} => granted
  BY <1>2, Goes, Ends DEF Resolve, Answer, Fail, Places
<1>4. /\ row' \in Rows /\ status' \in Statuses /\ disk' = disk /\ saves' \in Seq(Rows)
      /\ row' # NoRow => row # NoRow /\ row'.pairing = row.pairing
      /\ \A k \in DOMAIN saves' :
           saves'[k] = row' \/ (k \in DOMAIN saves /\ saves'[k] = saves[k])
      /\ current' \in BOOLEAN /\ reached' \in BOOLEAN
      /\ recent' \in BOOLEAN /\ timer' \in {"none", "set", "due"}
  <2>0. TypeOK /\ row \in Rows /\ status \in Statuses
    BY DEF IInv, TypeOK
  <2>1. CASE UNCHANGED <<store, widget>>
    BY <2>0, <2>1 DEF TypeOK, store, widget
  <2>2. CASE \E s \in Statuses : Set(Patched("keep"), s) \/ Set(row, s)
    BY <2>0, <2>2, Stored, SamePairing
  <2> QED BY <2>0, <2>1, <2>2 DEF Resolve, Answer, Fail, Statuses
<1>5. TypeOK'
  BY <1>1, <1>3, <1>4 DEF IInv, TypeOK, process
<1> QED
  BY <1>1, <1>2, <1>3, <1>4, <1>5, RequestStep

-----------------------------------------------------------------------------
(* Enrolment and removal.                                                  *)

\* A step of an enrolment that has not ended: its own key comes into being, or is deleted.
LEMMA EnrolmentStep ==
  ASSUME IInv, NEW p \in Pairings, app = "on",
         UNCHANGED <<process, row, status, disk, saves, removal, call>>,
         UNCHANGED <<current, reached, recent, timer, carried, interrupted>>,
         pairing[p] # "paired", NEW x \in Stages \ {"paired"}, At(p, x),
         shared' \subseteq Pairings, private' \subseteq Pairings,
         \A q \in Pairings \ {p} : /\ (q \in shared' <=> q \in shared)
                                   /\ (q \in private' <=> q \in private)
                                   /\ deletion'[q] = deletion[q],
         ~granted => shared' = {},
         deletion' \in [Pairings -> {"none", "begun", "done"}],
         deletion[p] # "none" => deletion'[p] # "none",
         x \in {"new", "created", "signed", "failing"} => deletion'[p] = "none",
         x \in {"created", "signed"} => p \in shared' \cup private',
         x = "clearing" => p \notin shared',
         x \in {"new", "failed"} => p \notin shared' \cup private',
         deletion'[p] = "done" => p \notin shared' \cup private'
  PROVE  IInv'
<1> USE DEF Alias, KeyOf
<1>1. /\ pairing' \in [Pairings -> Stages] /\ pairing'[p] = x
      /\ \A q \in Pairings \ {p} : pairing'[q] = pairing[q]
  BY DEF IInv, TypeOK, At
<1>2. TypeOK'
  BY <1>1 DEF IInv, TypeOK, process
<1>3. RowsVouched'
  <2>1. ASSUME NEW r \in Rows, Vouched(r) PROVE Vouched(r)'
    <3> SUFFICES ASSUME r # NoRow PROVE Vouched(r)'
      BY DEF Vouched
    <3>1. r.pairing \in Pairings \ {p}
      BY <2>1 DEF Rows, Vouched
    <3> QED BY <1>1, <2>1, <3>1 DEF Vouched
  <2>2. row \in Rows /\ disk \in Rows /\ \A k \in DOMAIN saves : saves[k] \in Rows
    BY DEF IInv, TypeOK
  <2>3. Vouched(row)' /\ Vouched(disk)'
    BY <2>1, <2>2 DEF IInv, RowsVouched, Vouched
  <2>4. ASSUME NEW k \in DOMAIN saves PROVE Vouched(saves[k])'
    BY <2>1, <2>2 DEF IInv, RowsVouched, Vouched
  <2> QED BY <2>3, <2>4 DEF RowsVouched
<1>4. NothingRuns'
  BY DEF NothingRuns, process
<1>5. EnrolmentKeeps'
  BY <1>1 DEF IInv, EnrolmentKeeps
<1>6. OnlyPaired'
  BY <1>1 DEF IInv, OnlyPaired, TypeOK
<1>7. GroupHeld'
  BY DEF IInv, GroupHeld, process
<1>8. HalfRemoved'
  <2>1. removal.at = "second" => removal.pairing \in Pairings \ {p}
    BY DEF IInv, OnlyPaired, TypeOK
  <2> QED BY <2>1 DEF IInv, HalfRemoved
<1>9. RowHasKey'
  <2>1. row # NoRow => row.pairing \in Pairings \ {p}
    BY DEF IInv, TypeOK, Rows, RowsVouched, Vouched
  <2> QED BY <2>1 DEF IInv, RowHasKey
<1>10. DeletedIsGone'
  BY DEF IInv, DeletedIsGone
<1> QED
  BY <1>2, <1>3, <1>4, <1>5, <1>6, <1>7, <1>8, <1>9, <1>10 DEF IInv

\* Each of them, but for the last.
LEMMA EnrolmentMoves ==
  ASSUME IInv, NEW p \in Pairings,
         CreateDeviceKey(p) \/ SignProof(p) \/ PairingFails(p) \/ DropKey(p)
  PROVE  IInv'
<1> USE DEF Alias, Stages
<1>1. /\ UNCHANGED <<process, row, status, disk, saves, removal, call>>
      /\ UNCHANGED <<current, reached, recent, timer, carried, interrupted>>
  BY DEF CreateDeviceKey, SignProof, PairingFails, DropKey, Deleting, store, widget, history
<1>2. /\ shared \subseteq Pairings /\ private \subseteq Pairings
      /\ deletion \in [Pairings -> {"none", "begun", "done"}]
      /\ ~granted => shared = {}
      /\ app = "on"
  BY DEF CreateDeviceKey, SignProof, PairingFails, DropKey, IInv, TypeOK, GroupHeld, NothingRuns
<1>3. /\ pairing[p] \in {"new", "created", "signed", "failing"} => deletion[p] = "none"
      /\ pairing[p] \in {"created", "signed"} => p \in shared \cup private
      /\ pairing[p] = "clearing" => p \notin shared
      /\ pairing[p] = "new" => p \notin shared \cup private
      /\ deletion[p] = "done" /\ p \in shared \cup private => p \in carried
  BY DEF IInv, EnrolmentKeeps, DeletedIsGone
<1>4. CASE CreateDeviceKey(p) /\ WriteSeed(p) /\ At(p, "created")
  <2>1. UNCHANGED deletion /\ pairing[p] = "new"
    BY <1>4 DEF CreateDeviceKey, history
  <2> QED BY <1>1, <1>2, <1>3, <1>4, <2>1, EnrolmentStep DEF WriteSeed
<1>5. CASE CreateDeviceKey(p) /\ At(p, "failed") /\ UNCHANGED keychain
  <2>1. UNCHANGED <<shared, private, deletion>> /\ pairing[p] = "new"
    BY <1>5 DEF CreateDeviceKey, history, keychain
  <2> QED BY <1>1, <1>2, <1>3, <1>5, <2>1, EnrolmentStep
<1>6. CASE SignProof(p)
  <2>1. UNCHANGED <<private, deletion>> /\ pairing[p] = "created" /\ At(p, "signed")
    BY <1>6 DEF SignProof, history
  <2>2. (granted /\ shared' = shared \cup {p}) \/ UNCHANGED shared
    BY <1>6 DEF SignProof
  <2> QED BY <1>1, <1>2, <1>3, <2>1, <2>2, EnrolmentStep
<1>7. CASE PairingFails(p)
  <2>1. /\ UNCHANGED <<shared, private, deletion>> /\ At(p, "failing")
        /\ pairing[p] \in {"created", "signed"}
    BY <1>7 DEF PairingFails, history, keychain
  <2> QED BY <1>1, <1>2, <1>3, <2>1, EnrolmentStep
<1>8. CASE DropKey(p) /\ pairing[p] = "failing"
  <2>1. At(p, "clearing") /\ DeleteFirst(p) /\ Deleting(p, "begun")
    BY <1>8 DEF DropKey
  <2>2. /\ deletion' = [deletion EXCEPT ![p] = "begun"]
        /\ IF granted THEN shared' = shared \ {p} /\ private' = private
                      ELSE shared' = shared /\ private' = private \ {p}
    BY <2>1 DEF DeleteFirst, Deleting
  <2> QED BY <1>1, <1>2, <1>8, <2>1, <2>2, EnrolmentStep
<1>9. CASE DropKey(p) /\ pairing[p] = "clearing"
  <2>1. At(p, "failed") /\ DeleteSecond(p) /\ Deleting(p, "done")
    BY <1>9 DEF DropKey
  <2>2. /\ deletion' = [deletion EXCEPT ![p] = "done"]
        /\ shared' = shared /\ private' = private \ {p}
    BY <2>1 DEF DeleteSecond, Deleting
  <2> QED BY <1>1, <1>2, <1>3, <1>9, <2>1, <2>2, EnrolmentStep
<1> QED
  BY <1>4, <1>5, <1>6, <1>7, <1>8, <1>9 DEF CreateDeviceKey, DropKey

\* The last: the row is new, and so is its key.
LEMMA EnrolStep == ASSUME IInv, NEW p \in Pairings, Enrol(p) PROVE IInv'
<1> DEFINE r == [pairing |-> p, mode |-> "device-only"]
<1> USE DEF Alias, KeyOf
<1>1. /\ pairing[p] = "signed" /\ At(p, "paired") /\ Set(r, status)
      /\ UNCHANGED <<process, shared, private, removal, call, deletion, carried, interrupted>>
  BY DEF Enrol, keychain, history
<1>2. r \in Rows /\ TypeOK /\ status \in Statuses
  BY DEF Rows, Modes, IInv, TypeOK
<1>3. r.pairing = p /\ p \in shared \cup private /\ app = "on"
  BY <1>1 DEF IInv, EnrolmentKeeps, NothingRuns
<1>4. /\ pairing' \in [Pairings -> Stages] /\ pairing'[p] = "paired"
      /\ \A q : pairing[q] = "paired" => pairing'[q] = "paired"
      /\ \A q \in Pairings \ {p} : pairing'[q] = pairing[q]
  BY <1>1, <1>2 DEF TypeOK, At, Stages
<1> HIDE DEF r
<1>5. /\ row' = r /\ status' \in Statuses /\ disk' = disk
      /\ saves' \in Seq(Rows)
      /\ \A k \in DOMAIN saves' :
           saves'[k] = r \/ (k \in DOMAIN saves /\ saves'[k] = saves[k])
      /\ current' \in BOOLEAN /\ reached' \in BOOLEAN
      /\ recent' \in BOOLEAN /\ timer' \in {"none", "set", "due"}
  BY <1>1, <1>2, Stored
<1>6. TypeOK'
  BY <1>1, <1>2, <1>4, <1>5 DEF TypeOK, process
<1>7. RowsVouched'
  <2>1. \A s : Vouched(s) => Vouched(s)'
    BY <1>1, <1>4, StillVouched
  <2>2. pairing'[r.pairing] = "paired" /\ r.pairing \in shared \cup private
    BY <1>3, <1>4
  <2>3. Vouched(row)'
    BY <1>1, <1>5, <2>2 DEF Vouched
  <2>4. Vouched(disk)'
    BY <1>5, <2>1 DEF IInv, RowsVouched, Vouched
  <2>5. ASSUME NEW k \in DOMAIN saves' PROVE Vouched(saves[k])'
    BY <1>5, <2>1, <2>3 DEF IInv, RowsVouched, Vouched
  <2> QED BY <2>3, <2>4, <2>5 DEF RowsVouched
<1>8. NothingRuns'
  BY <1>1, <1>3 DEF NothingRuns, process
<1>9. EnrolmentKeeps'
  BY <1>1, <1>4 DEF IInv, EnrolmentKeeps
<1>10. OnlyPaired'
  BY <1>1, <1>4 DEF IInv, OnlyPaired
<1>11. GroupHeld' /\ HalfRemoved' /\ DeletedIsGone'
  BY <1>1 DEF IInv, GroupHeld, HalfRemoved, DeletedIsGone, process
<1>12. RowHasKey'
  BY <1>1, <1>3, <1>5 DEF RowHasKey
<1> QED
  BY <1>6, <1>7, <1>8, <1>9, <1>10, <1>11, <1>12 DEF IInv

\* The removal reads the row.
LEMMA RemoveBegins == ASSUME IInv, RemovePC PROVE IInv'
<1>1. /\ app = "on" /\ row # NoRow
      /\ removal' = [at |-> "first", pairing |-> row.pairing] /\ removal.at = "idle"
      /\ UNCHANGED <<process, shared, private, row, status, disk, saves, pairing, call>>
      /\ UNCHANGED <<current, reached, recent, timer, deletion, carried, interrupted>>
  BY DEF RemovePC, keychain, store, widget, history
<1>2. row.pairing \in Pairings /\ pairing[row.pairing] = "paired"
  BY <1>1 DEF IInv, TypeOK, Rows, RowsVouched, Vouched
<1>3. TypeOK'
  BY <1>1, <1>2 DEF IInv, TypeOK, process
<1>4. RowsVouched' /\ EnrolmentKeeps' /\ GroupHeld' /\ DeletedIsGone'
  BY <1>1 DEF IInv, RowsVouched, Vouched, EnrolmentKeeps, GroupHeld, DeletedIsGone, process
<1>5. NothingRuns' /\ OnlyPaired' /\ HalfRemoved'
  BY <1>1, <1>2 DEF IInv, NothingRuns, OnlyPaired, HalfRemoved, process
<1>6. RowHasKey'
  BY <1>1 DEF IInv, RowHasKey
<1> QED
  BY <1>3, <1>4, <1>5, <1>6 DEF IInv

\* It deletes the key where this build would have put it.
LEMMA RemoveFirstStep == ASSUME IInv, RemoveFirst PROVE IInv'
<1> DEFINE p == removal.pairing
<1> USE DEF Alias, KeyOf
<1>1. /\ removal.at = "first" /\ removal' = [removal EXCEPT !.at = "second"]
      /\ deletion' = [deletion EXCEPT ![p] = "begun"]
      /\ IF granted THEN shared' = shared \ {p} /\ private' = private
                    ELSE shared' = shared /\ private' = private \ {p}
      /\ UNCHANGED <<process, row, status, disk, saves, pairing, call>>
      /\ UNCHANGED <<current, reached, recent, timer, carried, interrupted>>
  BY DEF RemoveFirst, DeleteFirst, Deleting, store, widget
<1>2. /\ p \in Pairings /\ pairing[p] = "paired" /\ app = "on"
      /\ removal \in [at : {"idle", "first", "second"}, pairing : Pairings]
      /\ ~granted => shared = {}
  BY <1>1 DEF IInv, TypeOK, OnlyPaired, NothingRuns, GroupHeld
<1>3. removal'.at = "second" /\ removal'.pairing = p
  BY <1>1, <1>2
<1>4. /\ deletion' \in [Pairings -> {"none", "begun", "done"}] /\ deletion'[p] = "begun"
      /\ \A q \in Pairings \ {p} : deletion'[q] = deletion[q]
      /\ \A q : deletion[q] # "none" => deletion'[q] # "none"
  BY <1>1, <1>2 DEF IInv, TypeOK
<1>5. TypeOK'
  <2>1. removal' \in [at : {"idle", "first", "second"}, pairing : Pairings]
    BY <1>1, <1>2
  <2> QED BY <1>1, <1>4, <2>1 DEF IInv, TypeOK, process
<1> HIDE DEF p
<1>6. RowsVouched'
  <2>1. \A q : q \in shared \cup private \/ deletion[q] # "none"
              => q \in shared' \cup private' \/ deletion'[q] # "none"
    BY <1>1, <1>4
  <2>2. \A r : Vouched(r) => Vouched(r)'
    BY <1>1, <2>1, StillVouched
  <2> QED BY <1>1, <2>2 DEF IInv, RowsVouched, Vouched
<1>7. NothingRuns' /\ OnlyPaired' /\ GroupHeld'
  BY <1>1, <1>2, <1>3 DEF IInv, NothingRuns, OnlyPaired, GroupHeld, process
<1>8. EnrolmentKeeps'
  BY <1>1, <1>2, <1>4 DEF IInv, EnrolmentKeeps
<1>9. HalfRemoved'
  BY <1>1, <1>2, <1>3, <1>4 DEF HalfRemoved
<1>10. RowHasKey'
  BY <1>1, <1>2, <1>3 DEF IInv, RowHasKey, p
<1>11. DeletedIsGone'
  BY <1>1, <1>4 DEF IInv, DeletedIsGone
<1> QED
  BY <1>5, <1>6, <1>7, <1>8, <1>9, <1>10, <1>11 DEF IInv

\* And where an older one did, with the row of the PC.
LEMMA RemoveSecondStep == ASSUME IInv, RemoveSecond PROVE IInv'
<1> DEFINE p == removal.pairing
<1> USE DEF Alias, KeyOf
<1>1. /\ removal.at = "second" /\ removal' = [removal EXCEPT !.at = "idle"]
      /\ deletion' = [deletion EXCEPT ![p] = "done"]
      /\ shared' = shared /\ private' = private \ {p}
      /\ Set(NoRow, NoStatus)
      /\ UNCHANGED <<process, pairing, call, carried, interrupted>>
  BY DEF RemoveSecond, DeleteSecond, Deleting
<1>2. /\ p \in Pairings /\ pairing[p] = "paired" /\ app = "on"
      /\ removal \in [at : {"idle", "first", "second"}, pairing : Pairings]
      /\ p \in shared => p \in carried
  BY <1>1 DEF IInv, TypeOK, OnlyPaired, NothingRuns, HalfRemoved
<1>3. removal'.at = "idle"
  BY <1>1, <1>2
<1>4. /\ deletion' \in [Pairings -> {"none", "begun", "done"}] /\ deletion'[p] = "done"
      /\ \A q \in Pairings \ {p} : deletion'[q] = deletion[q]
      /\ \A q : deletion[q] # "none" => deletion'[q] # "none"
  BY <1>1, <1>2 DEF IInv, TypeOK
<1>5. /\ row' = NoRow /\ status' \in Statuses /\ disk' = disk
      /\ saves' \in Seq(Rows)
      /\ \A k \in DOMAIN saves' :
           saves'[k] = NoRow \/ (k \in DOMAIN saves /\ saves'[k] = saves[k])
      /\ current' \in BOOLEAN /\ reached' \in BOOLEAN
      /\ recent' \in BOOLEAN /\ timer' \in {"none", "set", "due"}
  BY <1>1, Stored DEF IInv, Rows, Statuses
<1>6. TypeOK'
  <2>1. removal' \in [at : {"idle", "first", "second"}, pairing : Pairings]
    BY <1>1, <1>2
  <2>2. row' \in Rows
    BY <1>5 DEF Rows
  <2> QED BY <1>1, <1>4, <1>5, <2>1, <2>2 DEF IInv, TypeOK, process
<1> HIDE DEF p
<1>7. RowsVouched'
  <2>1. \A q : q \in shared \cup private \/ deletion[q] # "none"
              => q \in shared' \cup private' \/ deletion'[q] # "none"
    BY <1>1, <1>4
  <2>2. \A r : Vouched(r) => Vouched(r)'
    BY <1>1, <2>1, StillVouched
  <2>3. Vouched(row)' /\ Vouched(disk)'
    BY <1>5, <2>2 DEF IInv, RowsVouched, Vouched
  <2>4. ASSUME NEW k \in DOMAIN saves' PROVE Vouched(saves[k])'
    BY <1>5, <2>2 DEF IInv, RowsVouched, Vouched
  <2> QED BY <2>3, <2>4 DEF RowsVouched
<1>8. NothingRuns' /\ OnlyPaired' /\ GroupHeld' /\ HalfRemoved' /\ RowHasKey'
  BY <1>1, <1>2, <1>3, <1>5
     DEF IInv, NothingRuns, OnlyPaired, GroupHeld, HalfRemoved, RowHasKey, process
<1>9. EnrolmentKeeps'
  BY <1>1, <1>2, <1>4 DEF IInv, EnrolmentKeeps
<1>10. DeletedIsGone'
  BY <1>1, <1>2, <1>4 DEF IInv, DeletedIsGone
<1> QED
  BY <1>6, <1>7, <1>8, <1>9, <1>10 DEF IInv

-----------------------------------------------------------------------------
(* The app's life.                                                         *)

\* The disk takes the oldest of the rows that wait for it.
LEMMA SaveStep == ASSUME IInv, Save PROVE IInv'
<1>1. /\ saves # <<>> /\ disk' = Head(saves) /\ saves' = Tail(saves)
      /\ UNCHANGED <<process, shared, private, row, status, pairing, removal, call>>
      /\ UNCHANGED <<current, reached, recent, timer, deletion, carried, interrupted>>
  BY DEF Save, keychain, widget, history
<1>2. saves \in Seq(Rows) /\ app = "on"
  BY <1>1 DEF IInv, TypeOK, NothingRuns
<1>3. /\ Head(saves) \in Rows /\ Tail(saves) \in Seq(Rows)
      /\ 1 \in DOMAIN saves /\ Head(saves) = saves[1]
      /\ \A k \in DOMAIN Tail(saves) : k + 1 \in DOMAIN saves /\ Tail(saves)[k] = saves[k + 1]
  <2> HIDE DEF Rows
  <2>1. /\ Len(saves) \in Nat \ {0} /\ DOMAIN saves = 1 .. Len(saves)
        /\ Tail(saves) \in Seq(Rows) /\ DOMAIN Tail(saves) = 1 .. (Len(saves) - 1)
        /\ \A k \in 1 .. (Len(saves) - 1) : Tail(saves)[k] = saves[k + 1]
        /\ Head(saves) = saves[1]
    BY <1>1, <1>2
  <2> QED BY <1>2, <2>1
<1>4. TypeOK'
  BY <1>1, <1>3 DEF IInv, TypeOK, process
<1>5. RowsVouched'
  <2>1. \A r : Vouched(r) => Vouched(r)'
    BY <1>1, StillVouched
  <2>2. Vouched(row)' /\ Vouched(disk)'
    BY <1>1, <1>3, <2>1 DEF IInv, RowsVouched, Vouched
  <2>3. ASSUME NEW k \in DOMAIN saves' PROVE Vouched(saves[k])'
    BY <1>1, <1>3, <2>1 DEF IInv, RowsVouched, Vouched
  <2> QED BY <2>2, <2>3 DEF RowsVouched
<1>6. NothingRuns' /\ EnrolmentKeeps' /\ OnlyPaired' /\ GroupHeld'
  BY <1>1, <1>2 DEF IInv, NothingRuns, EnrolmentKeeps, OnlyPaired, GroupHeld, process
<1>7. HalfRemoved' /\ RowHasKey' /\ DeletedIsGone'
  BY <1>1 DEF IInv, HalfRemoved, RowHasKey, DeletedIsGone
<1> QED
  BY <1>4, <1>5, <1>6, <1>7 DEF IInv

\* The row on the disk, when nothing runs, has its key or is known to have lost it.
LEMMA OnDisk ==
  ASSUME IInv, app # "on", disk # NoRow
  PROVE  KeyOf(disk) \in shared \cup private \/ disk.pairing \in interrupted
BY DEF IInv, RowsVouched, Vouched, NothingRuns, KeyOf, Alias

\* The app starts, in a build that may have gained the group.
LEMMA LaunchStep == ASSUME IInv, Launch PROVE IInv'
<1>1. /\ app = "off" /\ launches < MaxLaunches /\ launches' = launches + 1
      /\ granted' \in {TRUE, granted}
      /\ (app' = "loading" /\ row' = row) \/ (app' = "on" /\ row' = disk)
      /\ Publish(FALSE, "none")
      /\ UNCHANGED <<shared, private, status, disk, saves, pairing, removal, call>>
      /\ UNCHANGED <<deletion, carried, interrupted>>
  BY DEF Launch, keychain, history
<1>2. /\ row = NoRow /\ saves = <<>> /\ removal.at = "idle"
      /\ \A c \in Calls : call[c].at = "idle"
  BY <1>1 DEF IInv, NothingRuns
<1>3. TypeOK'
  <2>1. /\ current' \in BOOLEAN /\ reached' \in BOOLEAN
        /\ recent' \in BOOLEAN /\ timer' \in {"none", "set", "due"}
    BY <1>1, Published DEF IInv, TypeOK
  <2>2. granted' \in BOOLEAN
    BY <1>1 DEF IInv, TypeOK
  <2>3. launches' \in 0 .. MaxLaunches
    BY <1>1, PhoneAssumption DEF IInv, TypeOK
  <2> QED BY <1>1, <2>1, <2>2, <2>3 DEF IInv, TypeOK
<1>4. RowsVouched'
  BY <1>1 DEF IInv, RowsVouched, Vouched
<1>5. NothingRuns' /\ EnrolmentKeeps' /\ OnlyPaired'
  BY <1>1, <1>2 DEF IInv, NothingRuns, EnrolmentKeeps, OnlyPaired
<1>6. GroupHeld'
  <2>1. granted => granted'
    BY <1>1, Zenon
  <2>2. (~granted => shared = {}) /\ shared' = shared
    BY <1>1 DEF IInv, GroupHeld
  <2>3. ~granted' => shared' = {}
    BY <2>1, <2>2, Zenon
  <2>4. \A c \in Calls : call'[c].at = "idle"
    BY <1>1, <1>2
  <2> QED BY <2>3, <2>4 DEF GroupHeld
<1>7. HalfRemoved' /\ DeletedIsGone'
  BY <1>1, <1>2 DEF IInv, HalfRemoved, DeletedIsGone
<1>8. RowHasKey'
  BY <1>1, <1>2, OnDisk DEF RowHasKey, KeyOf, Alias
<1> QED
  BY <1>3, <1>4, <1>5, <1>6, <1>7, <1>8 DEF IInv

\* The list is what the disk held.
LEMMA HydrateStep == ASSUME IInv, Hydrate PROVE IInv'
<1>1. /\ app = "loading" /\ app' = "on" /\ Set(disk, status)
      /\ UNCHANGED <<launches, granted, shared, private, pairing, removal, call>>
      /\ UNCHANGED <<deletion, carried, interrupted>>
  BY DEF Hydrate, keychain, history
<1>2. /\ row' = disk /\ status' = status /\ disk' = disk
      /\ saves' \in Seq(Rows)
      /\ \A k \in DOMAIN saves' :
           saves'[k] = disk \/ (k \in DOMAIN saves /\ saves'[k] = saves[k])
      /\ current' \in BOOLEAN /\ reached' \in BOOLEAN
      /\ recent' \in BOOLEAN /\ timer' \in {"none", "set", "due"}
  <2>1. TypeOK /\ disk \in Rows /\ status \in Statuses
    BY DEF IInv, TypeOK
  <2> QED BY <1>1, <2>1, Stored
<1>3. TypeOK'
  BY <1>1, <1>2 DEF IInv, TypeOK
<1>4. RowsVouched'
  BY <1>1, <1>2 DEF IInv, RowsVouched, Vouched
<1>5. NothingRuns' /\ EnrolmentKeeps' /\ OnlyPaired' /\ GroupHeld'
  BY <1>1 DEF IInv, NothingRuns, EnrolmentKeeps, OnlyPaired, GroupHeld
<1>6. HalfRemoved' /\ DeletedIsGone'
  BY <1>1 DEF IInv, HalfRemoved, DeletedIsGone
<1>7. RowHasKey'
  BY <1>1, <1>2, OnDisk DEF RowHasKey, KeyOf, Alias
<1> QED
  BY <1>3, <1>4, <1>5, <1>6, <1>7 DEF IInv

\* The app is killed, wherever it is.
LEMMA KillStep == ASSUME IInv, Kill PROVE IInv'
<1>1. /\ app' = "off" /\ row' = NoRow /\ status' = NoStatus /\ saves' = <<>>
      /\ pairing' = [p \in Pairings |->
           IF pairing[p] \in {"new", "failed", "paired"} THEN pairing[p] ELSE "lost"]
      /\ removal' = [at |-> "idle", pairing |-> 0]
      /\ call' = [c \in Calls |-> Idle]
      /\ current' = FALSE /\ reached' = FALSE /\ recent' = FALSE /\ timer' = "none"
      /\ interrupted' = interrupted \cup
           {p \in Pairings : deletion[p] # "none" /\ disk # NoRow /\ disk.pairing = p}
      /\ UNCHANGED <<launches, granted, shared, private, disk, deletion, carried>>
  BY DEF Kill, keychain
<1>2. 0 \in Pairings /\ disk \in Rows
  BY PhoneAssumption DEF Pairings, IInv, TypeOK
<1>3. ASSUME NEW p \in Pairings
      PROVE  /\ pairing'[p] \in {"new", "failed", "paired", "lost"}
             /\ pairing'[p] \in {"new", "failed", "paired"} => pairing[p] = pairing'[p]
             /\ pairing[p] = "paired" => pairing'[p] = "paired"
  BY <1>1
<1>4. /\ removal'.at = "idle" /\ \A c \in Calls : call'[c].at = "idle"
      /\ disk # NoRow => disk.pairing \in Pairings
  BY <1>1, <1>2 DEF Idle, Rows
<1>5. TypeOK'
  <2>1. /\ pairing' \in [Pairings -> Stages]
        /\ removal' \in [at : {"idle", "first", "second"}, pairing : Pairings]
        /\ call' \in [Calls -> [at : Places, pairing : Pairings]]
        /\ saves' \in Seq(Rows) /\ row' \in Rows /\ status' \in Statuses
        /\ interrupted' \subseteq Pairings
    <3>1. Idle \in [at : Places, pairing : Pairings]
      BY <1>2 DEF Idle, Places
    <3>2. NoRow \in Rows /\ <<>> \in Seq(Rows)
      BY DEF Rows
    <3> QED BY <1>1, <1>2, <3>1, <3>2 DEF IInv, TypeOK, Stages, Statuses
  <2> QED BY <1>1, <2>1 DEF IInv, TypeOK
<1>6. RowsVouched'
  BY <1>1, <1>3, <1>4 DEF IInv, RowsVouched, Vouched
<1>7. NothingRuns'
  BY <1>1, <1>3, <1>4 DEF IInv, NothingRuns
<1>8. EnrolmentKeeps'
  BY <1>1, <1>3 DEF IInv, EnrolmentKeeps
<1>9. OnlyPaired' /\ GroupHeld' /\ HalfRemoved' /\ RowHasKey' /\ DeletedIsGone'
  BY <1>1, <1>4 DEF IInv, OnlyPaired, GroupHeld, HalfRemoved, RowHasKey, DeletedIsGone
<1> QED
  BY <1>5, <1>6, <1>7, <1>8, <1>9 DEF IInv

-----------------------------------------------------------------------------
(* The theorems.                                                           *)

\* Every step of the app preserves the invariant.
LEMMA Preserved == IInv /\ [Next]_vars => IInv'
<1> SUFFICES ASSUME IInv, [Next]_vars PROVE IInv'
  OBVIOUS
<1>1. CASE Elapse \/ TimerFires
  BY <1>1, TimerStep
<1>2. CASE Save \/ Launch \/ Hydrate \/ Kill
  BY <1>2, SaveStep, LaunchStep, HydrateStep, KillStep
<1>3. ASSUME NEW p \in Pairings,
             CreateDeviceKey(p) \/ SignProof(p) \/ Enrol(p) \/ PairingFails(p) \/ DropKey(p)
      PROVE  IInv'
  BY <1>3, EnrolmentMoves, EnrolStep
<1>4. CASE RemovePC \/ RemoveFirst \/ RemoveSecond
  BY <1>4, RemoveBegins, RemoveFirstStep, RemoveSecondStep
<1>5. ASSUME NEW c \in Calls,
             \/ BeginCall(c) \/ ReadSeed(c) \/ MigrationFails(c)
             \/ Promote(c) \/ Rewrite(c)
             \/ Resolve(c) \/ Answer(c) \/ Fail(c)
      PROVE  IInv'
  BY <1>5, CallMoves, PromoteStep, RewriteStep, AnswerStep
<1>6. CASE UNCHANGED vars
  <2>1. /\ UNCHANGED <<process, row, status, disk, saves, pairing, removal, call, shared, private>>
        /\ UNCHANGED <<current, reached, recent, timer, deletion, carried, interrupted>>
    BY <1>6 DEF vars, keychain, store, widget, history
  <2>2. TypeOK' /\ \A c \in Calls : /\ call[c].at # "idle" => pairing[call[c].pairing] = "paired"
                                    /\ call[c].at \in {"promote", "copy"} => granted
    BY <2>1 DEF IInv, TypeOK, OnlyPaired, GroupHeld, process
  <2> QED BY <2>1, <2>2, RequestStep
<1> QED
  BY <1>1, <1>2, <1>3, <1>4, <1>5, <1>6 DEF Next

\* The invariant of Phone.
THEOREM Invariance == Spec => []IInv
BY Initially, Preserved, PTL DEF Spec

\* The state of the app, of its keychain and of its disk.
THEOREM TypesTheorem == Spec => []TypeOK
<1>1. IInv => TypeOK
  BY DEF IInv
<1> QED
  BY <1>1, Invariance, PTL

\* The row that the user sees has its key, whatever enrolments, removals, requests, saves
\* and kills there are, unless its own removal took it.
THEOREM KeyTheorem == Spec => []RowHasKey
<1>1. IInv => RowHasKey
  BY DEF IInv
<1> QED
  BY <1>1, Invariance, PTL

\* A key whose deletion has ended is in neither group, unless a request that had read it
\* wrote it back (deleteDeviceKey).
THEOREM GoneTheorem == Spec => []DeletedIsGone
<1>1. IInv => DeletedIsGone
  BY DEF IInv
<1> QED
  BY <1>1, Invariance, PTL

\* Of a failed enrolment no key is left (pairWithPC's catch clause).
THEOREM FailedTheorem == Spec => []FailedLeavesNoKey
<1>1. IInv => FailedLeavesNoKey
  BY DEF IInv, EnrolmentKeeps, FailedLeavesNoKey
<1> QED
  BY <1>1, Invariance, PTL

=============================================================================
