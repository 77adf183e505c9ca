------------------------------- MODULE Phone -------------------------------
(***************************************************************************)
(* The phone's side of one PC: the stored row (state/store.ts), the key    *)
(* of its pairing in the keychain (crypto/keys.ts), enrolment              *)
(* (actions/pair.ts), status requests and unlocks                          *)
(* (actions/usePCActions.ts), and the copy that Shortcuts and the widget   *)
(* read (state/widgetBridge.ts).                                           *)
(*                                                                         *)
(* The app is one JavaScript thread.  It is suspended at each await, so a  *)
(* step is the code from one await to the next: one keychain call, one     *)
(* request, or an update of the store, which notifies its subscribers      *)
(* before it returns.  The app can be killed between any two steps.        *)
(* Source paths are relative to src/mobile/src/.                           *)
(***************************************************************************)
EXTENDS Naturals, Sequences

CONSTANTS
  Calls,        \* slots for status requests and unlocks in flight
  MaxPairings,  \* bound: enrolments begun
  MaxLaunches,  \* bound: starts of the app
  NoRow,        \* the PC is not in the list
  NoStatus      \* nothing is known of the PC

ASSUME PhoneAssumption ==
  /\ MaxPairings \in Nat /\ MaxLaunches \in Nat

VARIABLES
  app,        \* "off", "loading" (nothing read from the disk yet) or "on"
  launches,   \* bookkeeping for MaxLaunches
  granted,    \* this build holds the App Group
  shared,     \* keychain: keys in the group's access group
  private,    \*           keys in the app's own
  row,        \* the PC in the list: its pairing and the mode of its key
  status,     \* what is shown of the PC
  disk,       \* the row in AsyncStorage
  saves,      \* rows on their way there
  pairing,    \* where each enrolment is
  removal,    \* where removePC is, and the pairing it has read
  call,       \* status requests and unlocks in flight
  current,    \* what was last published shows what the store holds
  reached,    \* and has been written to the copy
  recent,     \* less than MIN_PUBLISH_INTERVAL_MS since it was published
  timer,      \* `pending`: "none", "set" or "due"
  deletion,   \* history: how far the deletion of each pairing's key has come
  carried,    \* history: pairings whose key a call wrote back after that began
  interrupted \* history: pairings still on the disk when the app was killed
              \*   after their removal had begun

keychain == <<shared, private>>
store    == <<row, status, disk, saves>>
widget   == <<current, reached, recent, timer>>
process  == <<app, launches, granted>>
history  == <<deletion, carried, interrupted>>
vars     == <<process, keychain, store, pairing, removal, call, widget, history>>

\* Pairing 0 was made before the behaviour begins.
Pairings == 0 .. MaxPairings

\* Mutant: an alias derived from the PC.
DerivedAlias(p) == 0

\* newKeyAlias: random, so that no two pairings share a key.
Alias(p) == p

Modes == {"biometric", "device-only"}
Rows  == [pairing : Pairings, mode : Modes] \cup {NoRow}

KeyOf(r) == Alias(r.pairing)

\* Whether the PC answered; what it answered is left out.
Statuses == {NoStatus, "seen", "away"}

\* buildWidgetPayload, but for the time it is stamped with.
View(r, s) == IF r = NoRow THEN NoRow ELSE <<r.pairing, s>>

Stages == {"new",
           "created",  \* createDeviceKey has returned
           "signed",   \* the proof is signed: awaiting the PC
           "failing",  \* caught an error: awaiting the first deletion
           "clearing", \* the second
           "failed", "paired",
           "lost"}     \* the app was killed

Places == {"idle",
           "migrate",  \* migrateToDeviceOnly: awaiting the seed
           "promote",  \*   readSeed has found it in the private group only
           "rewrite",  \*   awaiting writeSeed
           "resolve",  \* looking for the PC's address, or awaiting Face ID
           "sign",     \* signWithDeviceKey: awaiting the seed
           "copy",     \*   readSeed has found it in the private group only
           "sent"}     \* awaiting the PC

Idle == [at |-> "idle", pairing |-> 0]

TypeOK ==
  /\ app \in {"off", "loading", "on"}
  /\ launches \in 0 .. MaxLaunches
  /\ granted \in BOOLEAN
  /\ shared \subseteq Pairings
  /\ private \subseteq Pairings
  /\ row \in Rows
  /\ status \in Statuses
  /\ disk \in Rows
  /\ saves \in Seq(Rows)
  /\ pairing \in [Pairings -> Stages]
  /\ removal \in [at : {"idle", "first", "second"}, pairing : Pairings]
  /\ call \in [Calls -> [at : Places, pairing : Pairings]]
  /\ current \in BOOLEAN
  /\ reached \in BOOLEAN
  /\ recent \in BOOLEAN
  /\ timer \in {"none", "set", "due"}
  /\ deletion \in [Pairings -> {"none", "begun", "done"}]
  /\ carried \subseteq Pairings
  /\ interrupted \subseteq Pairings

\* A phone without the PC, or one paired by this version or an older one.
Init ==
  /\ app = "off" /\ launches = 0
  /\ granted \in BOOLEAN
  /\ row = NoRow /\ status = NoStatus
  /\ disk \in {NoRow} \cup [pairing : {0}, mode : Modes]
  /\ \/ disk = NoRow /\ shared = {} /\ private = {}
     \/ disk # NoRow /\ shared = {} /\ private = {Alias(0)}
     \/ disk # NoRow /\ shared = {Alias(0)} /\ private = {} /\ granted
  /\ saves = <<>>
  /\ pairing = [p \in Pairings |-> IF p = 0 THEN "paired" ELSE "new"]
  /\ removal = [at |-> "idle", pairing |-> 0]
  /\ call = [c \in Calls |-> Idle]
  /\ current = FALSE /\ reached = FALSE
  /\ recent = FALSE /\ timer = "none"
  /\ deletion = [p \in Pairings |-> "none"]
  /\ carried = {} /\ interrupted = {}

-----------------------------------------------------------------------------
(* The copy for Shortcuts and the widget.                                  *)

\* write(), to one of its two copies, the state file that Shortcuts actions read or the
\* App Group that the widget does: a failure, for whatever reason, is swallowed.
Write == reached' \in BOOLEAN

\* Mutant: the interval is kept by dropping what comes too early.
PublishUnlessRecent(same, t) ==
  \/ recent /\ current' = (current /\ same) /\ timer' = t /\ UNCHANGED <<reached, recent>>
  \/ ~recent /\ current' = TRUE /\ recent' = TRUE /\ timer' = t /\ Write

\* publishWidgetState(), when `pending` is t; `same`: the store shows what it did.  What
\* was just published is skipped only if its stamp, in seconds, is still the same.
\* `lastPublished` is set before the write, so that one that failed is not tried again
\* until the next publication.
Publish(same, t) ==
  \/ /\ recent
     /\ \/ current = same /\ current' = TRUE /\ timer' = t
        \/ current' = (current /\ same) /\ timer' = IF t = "none" THEN "set" ELSE t
     /\ UNCHANGED <<reached, recent>>
  \/ /\ ~recent
     /\ current' = TRUE /\ recent' = TRUE /\ timer' = t
     /\ Write

\* MIN_PUBLISH_INTERVAL_MS have passed, which is also what the timer waits for.  What was
\* published before cannot be skipped any more, so how it was written is forgotten.
Elapse ==
  /\ app # "off" /\ recent
  /\ recent' = FALSE /\ reached' = (current /\ reached)
  /\ timer' = IF timer = "set" THEN "due" ELSE timer
  /\ UNCHANGED <<process, keychain, store, pairing, removal, call, current, history>>

TimerFires ==
  /\ app # "off" /\ timer = "due"
  /\ Publish(TRUE, "none")
  /\ UNCHANGED <<process, keychain, store, pairing, removal, call, history>>

-----------------------------------------------------------------------------
(* The store.                                                              *)

\* One set(): persist sends the row to the disk, subscribers publish it.
Set(r, s) ==
  /\ row' = r /\ status' = s
  /\ saves' = IF r = (IF saves = <<>> THEN disk ELSE saves[Len(saves)])
                THEN saves ELSE Append(saves, r)
  /\ UNCHANGED disk
  /\ Publish(View(r, s) = View(row, status), timer)

\* The row after updatePC, which ignores a PC that has gone; a patch of `mode`, or of
\* what the model leaves out ("keep").
Patched(mode) ==
  IF row = NoRow THEN NoRow
  ELSE [row EXCEPT !.mode = IF mode = "keep" THEN @ ELSE mode]

\* updatePC of the mode: nobody is notified if it changes nothing.
UpdateMode ==
  LET r == Patched("device-only") IN
  IF r = row THEN UNCHANGED <<store, widget>> ELSE Set(r, status)

\* AsyncStorage has written the next row; it keeps their order.
Save ==
  /\ saves # <<>>
  /\ disk' = Head(saves) /\ saves' = Tail(saves)
  /\ UNCHANGED <<process, keychain, row, status, pairing, removal, call, widget, history>>

-----------------------------------------------------------------------------
(* The keychain.                                                           *)

\* writeSeed: to the group, or to the app's own if that is refused or not held.
WriteSeed(k) ==
  \/ granted /\ shared' = shared \cup {k} /\ UNCHANGED private
  \/ private' = private \cup {k} /\ UNCHANGED shared

\* deleteDeviceKey: the first deletion of its loop.
DeleteFirst(k) ==
  IF granted THEN shared' = shared \ {k} /\ UNCHANGED private
             ELSE private' = private \ {k} /\ UNCHANGED shared

\* Mutant: deletes only where a promoted key is.
DeleteNoSecond(k) == UNCHANGED <<private, shared>>

\* And the second.
DeleteSecond(k) == private' = private \ {k} /\ UNCHANGED shared

Deleting(p, stage) ==
  /\ deletion' = [deletion EXCEPT ![p] = stage]
  /\ UNCHANGED <<carried, interrupted>>

\* A call writes the key of p.
Writing(p) ==
  /\ carried' = IF deletion[p] = "none" THEN carried ELSE carried \cup {p}
  /\ UNCHANGED <<deletion, interrupted>>

-----------------------------------------------------------------------------
(* Enrolment: pairWithPC.                                                  *)

At(p, stage) == pairing' = [pairing EXCEPT ![p] = stage]

\* createDeviceKey; if the keychain refuses both groups nothing has been stored.
CreateDeviceKey(p) ==
  /\ app = "on" /\ pairing[p] = "new"
  /\ \A q \in Pairings : q < p => pairing[q] # "new"
  /\ \/ WriteSeed(Alias(p)) /\ At(p, "created")
     \/ At(p, "failed") /\ UNCHANGED keychain
  /\ UNCHANGED <<process, store, removal, call, widget, history>>

\* signProof: readSeed, with its promotion, of a key nobody else knows yet.
SignProof(p) ==
  /\ pairing[p] = "created" /\ Alias(p) \in shared \cup private
  /\ \/ granted /\ shared' = shared \cup {Alias(p)}
     \/ UNCHANGED shared
  /\ At(p, "signed")
  /\ UNCHANGED <<process, private, store, removal, call, widget, history>>

\* The operator has approved: addOrReplacePC.
Enrol(p) ==
  /\ pairing[p] = "signed"
  /\ At(p, "paired")
  /\ Set([pairing |-> p, mode |-> "device-only"], status)
  /\ UNCHANGED <<process, keychain, removal, call, history>>

\* No route, another PC, a refusal, a timeout, or the seed cannot be read.
PairingFails(p) ==
  /\ pairing[p] \in {"created", "signed"}
  /\ At(p, "failing")
  /\ UNCHANGED <<process, keychain, store, removal, call, widget, history>>

DropKey(p) ==
  \/ /\ pairing[p] = "failing" /\ At(p, "clearing")
     /\ DeleteFirst(Alias(p)) /\ Deleting(p, "begun")
     /\ UNCHANGED <<process, store, removal, call, widget>>
  \/ /\ pairing[p] = "clearing" /\ At(p, "failed")
     /\ DeleteSecond(Alias(p)) /\ Deleting(p, "done")
     /\ UNCHANGED <<process, store, removal, call, widget>>

-----------------------------------------------------------------------------
(* Removal: removePC, from the PC's screen.                                *)

RemovePC ==
  /\ app = "on" /\ row # NoRow /\ removal.at = "idle"
  /\ removal' = [at |-> "first", pairing |-> row.pairing]
  /\ UNCHANGED <<process, keychain, store, pairing, call, widget, history>>

RemoveFirst ==
  /\ removal.at = "first"
  /\ removal' = [removal EXCEPT !.at = "second"]
  /\ DeleteFirst(Alias(removal.pairing)) /\ Deleting(removal.pairing, "begun")
  /\ UNCHANGED <<process, store, pairing, call, widget>>

\* Nothing else of the app runs between the end of the second deletion and the update of
\* the store.  The rows are filtered by the PC, whichever pairing it has by now.
RemoveSecond ==
  /\ removal.at = "second"
  /\ removal' = [removal EXCEPT !.at = "idle"]
  /\ DeleteSecond(Alias(removal.pairing)) /\ Deleting(removal.pairing, "done")
  /\ Set(NoRow, NoStatus)
  /\ UNCHANGED <<process, pairing, call>>

-----------------------------------------------------------------------------
(* refresh and unlock.                                                     *)

Go(c, place) == call' = [call EXCEPT ![c].at = place]

\* A screen that shows the row; ensureMigrated is part of both calls.
BeginCall(c) ==
  /\ app = "on" /\ row # NoRow /\ call[c].at = "idle"
  /\ call' = [call EXCEPT ![c] =
       [at |-> IF row.mode = "biometric" THEN "migrate" ELSE "resolve",
        pairing |-> row.pairing]]
  /\ UNCHANGED <<process, keychain, store, pairing, removal, widget, history>>

\* readSeed, up to its promotion.
ReadSeed(c) ==
  LET k == Alias(call[c].pairing)
      migrating == call[c].at = "migrate"
  IN /\ call[c].at \in {"migrate", "sign"}
     /\ \/ /\ k \in (IF granted THEN shared ELSE private)
           /\ Go(c, IF migrating THEN "rewrite" ELSE "sent")
        \/ /\ granted /\ k \in private \ shared
           /\ Go(c, IF migrating THEN "promote" ELSE "copy")
     /\ UNCHANGED <<process, keychain, store, pairing, removal, widget, history>>

\* The promotion; its failure is ignored.
Promote(c) ==
  /\ call[c].at \in {"promote", "copy"}
  /\ Go(c, IF call[c].at = "promote" THEN "rewrite" ELSE "sent")
  /\ \/ /\ shared' = shared \cup {Alias(call[c].pairing)}
        /\ Writing(call[c].pairing)
     \/ UNCHANGED <<shared, history>>
  /\ UNCHANGED <<process, private, store, pairing, removal, widget>>

\* migrateToDeviceOnly has stored the seed anew.
Rewrite(c) ==
  /\ call[c].at = "rewrite"
  /\ Go(c, "resolve")
  /\ WriteSeed(Alias(call[c].pairing)) /\ Writing(call[c].pairing)
  /\ UpdateMode
  /\ UNCHANGED <<process, pairing, removal>>

\* Face ID declined, the seed missing, or a keychain error: the mode is left alone.
MigrationFails(c) ==
  /\ call[c].at \in {"migrate", "rewrite"}
  /\ Go(c, "resolve")
  /\ UNCHANGED <<process, keychain, store, pairing, removal, widget, history>>

\* resolveAndRemember, which may patch the address.
Resolve(c) ==
  /\ call[c].at = "resolve"
  /\ Go(c, "sign")
  /\ \/ UNCHANGED <<store, widget>>
     \/ /\ Patched("keep") # NoRow
        /\ Set(Patched("keep"), status)
  /\ UNCHANGED <<process, keychain, pairing, removal, history>>

\* The PC has answered: setStatus, then touchLastSeen.
Answer(c) ==
  /\ call[c].at = "sent"
  /\ call' = [call EXCEPT ![c] = Idle]
  /\ Set(Patched("keep"), "seen")
  /\ UNCHANGED <<process, keychain, pairing, removal, history>>

\* No route, no answer, an error, a missing key: recorded by a status request, only
\* reported by an unlock.  So is a declined Face ID prompt.
Fail(c) ==
  /\ call[c].at \in {"resolve", "sign", "sent"}
  /\ call' = [call EXCEPT ![c] = Idle]
  /\ \/ Set(row, "away")
     \/ UNCHANGED <<store, widget>>
  /\ UNCHANGED <<process, keychain, pairing, removal, history>>

-----------------------------------------------------------------------------
(* The app's life.                                                         *)

\* The root layout starts to publish when it is mounted, before or after persist has
\* read the disk.  An installed update may bring the App Group.
Launch ==
  /\ app = "off" /\ launches < MaxLaunches
  /\ launches' = launches + 1
  /\ granted' \in {TRUE, granted}
  /\ \/ app' = "loading" /\ UNCHANGED row
     \/ app' = "on" /\ row' = disk
  /\ Publish(FALSE, "none")
  /\ UNCHANGED <<keychain, status, disk, saves, pairing, removal, call, history>>

\* The persisted row replaces the list.
Hydrate ==
  /\ app = "loading"
  /\ app' = "on"
  /\ Set(disk, status)
  /\ UNCHANGED <<launches, granted, keychain, pairing, removal, call, history>>

Kill ==
  /\ app # "off"
  /\ app' = "off"
  /\ row' = NoRow /\ status' = NoStatus /\ saves' = <<>>
  /\ pairing' = [p \in Pairings |->
       IF pairing[p] \in {"new", "failed", "paired"} THEN pairing[p] ELSE "lost"]
  /\ removal' = [at |-> "idle", pairing |-> 0]
  /\ call' = [c \in Calls |-> Idle]
  /\ current' = FALSE /\ reached' = FALSE /\ recent' = FALSE /\ timer' = "none"
  /\ interrupted' = interrupted \cup
       {p \in Pairings : deletion[p] # "none" /\ disk # NoRow /\ disk.pairing = p}
  /\ UNCHANGED <<launches, granted, keychain, disk, deletion, carried>>

Next ==
  \/ Elapse \/ TimerFires \/ Save
  \/ \E p \in Pairings : CreateDeviceKey(p) \/ SignProof(p) \/ Enrol(p)
                           \/ PairingFails(p) \/ DropKey(p)
  \/ RemovePC \/ RemoveFirst \/ RemoveSecond
  \/ \E c \in Calls : BeginCall(c) \/ ReadSeed(c) \/ Promote(c) \/ Rewrite(c)
                        \/ MigrationFails(c) \/ Resolve(c) \/ Answer(c)
                        \/ Fail(c)
  \/ Launch \/ Hydrate \/ Kill

Spec == Init /\ [][Next]_vars

\* While the app runs its timers fire.  Nothing else need ever happen.
FairSpec == Spec /\ WF_vars(Elapse) /\ WF_vars(TimerFires)

-----------------------------------------------------------------------------
(* Properties.                                                             *)

\* The PC in the list can be talked to: its key is in the keychain.  Neither a failed or
\* abandoned enrolment, nor the removal of an earlier pairing of the same PC, nor an
\* older row read back from the disk, nor a late answer to a removed PC leaves a row
\* without its key.  Only a removal does: while it is under way, and when the app is
\* killed before the disk has it.
RowHasKey ==
  row # NoRow =>
    \/ KeyOf(row) \in shared \cup private
    \/ removal.at # "idle" /\ removal.pairing = row.pairing
    \/ row.pairing \in interrupted

\* After deleteDeviceKey nothing is left of a key in either group, for a failed enrolment
\* as for a removal, except what a request that had already read the seed writes back:
\* a promotion or a migration, which both take place only for keys stored by an older
\* version or without the App Group.
DeletedIsGone ==
  \A p \in Pairings :
    deletion[p] = "done" /\ Alias(p) \in shared \cup private => p \in carried

\* An enrolment that failed leaves no key at all: pairWithPC deletes it in both groups, and
\* nobody else has read it.
FailedLeavesNoKey ==
  \A p \in Pairings : pairing[p] = "failed" => Alias(p) \notin shared \cup private

\* The copy shows what the store holds, or the write that would have made it so failed.
CopyShows   == current /\ reached
WriteFailed == current /\ ~reached

\* Whatever the store shows reaches the copy, in the end and without another change: no
\* update is lost to the interval between publications.  Only a write that failed loses
\* one, until the next publication: write() of widgetBridge.ts swallows the failure after
\* the update has been recorded as published.
WidgetCatchesUp ==
  (app # "off" /\ ~CopyShows) ~> (app = "off" \/ CopyShows \/ WriteFailed)

-----------------------------------------------------------------------------
(* What the repository says and the code does not do.                      *)

\* "unpairing must not leave a usable key anywhere" (crypto/keys.ts:250): a request in
\* flight puts back the key it has read.
UnpairedLeavesNoKey ==
  \A p \in Pairings : deletion[p] = "done" => Alias(p) \notin shared \cup private

\* "or the private key outlives the pairing" (state/store.ts:76): pairing the same PC
\* again replaces the row and leaves the key of the old one in the keychain.
KeyDiesWithPairing ==
  app = "on" /\ row # NoRow =>
    \A p \in Pairings \ {row.pairing} :
      pairing[p] = "paired" => Alias(p) \notin shared \cup private

\* "re-pairing the same PC never collides with a key that is still being deleted"
\* (crypto/keys.ts:265): the keys do not, but the row of the new pairing is filtered out
\* when the removal of the old one ends.
RemovesWhatItRead ==
  [][RemoveSecond => row = NoRow \/ row.pairing = removal.pairing]_vars

\* widgetBridge.ts:71: what is published is the store's contents.  A start publishes the
\* empty list of a store that has not read the disk.
NeverBlank == app = "loading" /\ current => disk = NoRow

=============================================================================
