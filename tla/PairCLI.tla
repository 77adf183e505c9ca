------------------------------ MODULE PairCLI ------------------------------
(***************************************************************************)
(* Terminals running `wol-unlockctl pair` (cmd_pair of cli/__main__.py and *)
(* control/client.py) against the pairing manager, through the control     *)
(* socket (control/server.py).                                             *)
(*                                                                         *)
(* A terminal is one run of the command: it connects, calls pair.begin,    *)
(* then watches the manager's events and asks the operator to approve each *)
(* pair.request.  Commands are executed in the order they arrive, since    *)
(* the manager's lock is handed on in order; the events reach every        *)
(* connection in order; commands and events are not ordered with each      *)
(* other.  pair.approve names no device: it answers the enrollment that is *)
(* parked when it is executed.                                             *)
(***************************************************************************)
EXTENDS Pairing

CONSTANTS
  Terminals,  \* runs of `wol-unlockctl pair`
  Shared      \* whether a run may start while another one is under way

ASSUME TerminalAssumption == Shared \in BOOLEAN

VARIABLES
  place,     \* where each terminal is in cmd_pair
  commands,  \* the commands the service has not executed yet, oldest first
  events,    \* the events it has not read yet
  shown,     \* the enrollment its prompt shows
  began,     \* the window its pair.begin opened, 0 if none
  said       \* history: enrollments for which an operator typed "yes"

terminal == <<place, commands, events, shown, began, said>>
cliVars == <<vars, terminal>>

Places == {"shell",       \* not started
           "beginning",   \* in call(pair.begin)
           "watching",    \* in next_event
           "prompting",   \* in input()
           "approving",   \* in call(pair.approve)
           "denying",     \* in call(pair.deny)
           "cancelling",  \* interrupted, in call(pair.cancel)
           "gone"}        \* exited

Command == [from : Terminals, name : {"begin", "approve", "deny", "cancel"}]

CLITypeOK ==
  /\ TypeOK
  /\ place \in [Terminals -> Places]
  /\ commands \in Seq(Command)
  /\ events \in [Terminals -> Seq(Event)]
  /\ shown \in [Terminals -> Submissions \cup {NoSub}]
  /\ began \in [Terminals -> 0 .. MaxWindows]
  /\ said \subseteq Submissions

CLIInit ==
  /\ Init
  /\ place = [t \in Terminals |-> "shell"]
  /\ commands = << >>
  /\ events = [t \in Terminals |-> << >>]
  /\ shown = [t \in Terminals |-> NoSub]
  /\ began = [t \in Terminals |-> 0]
  /\ said = {}

-----------------------------------------------------------------------------
(* The control server.                                                     *)

Connected(t) == place[t] \notin {"shell", "gone"}

\* _on_pairing_event: what the manager emits goes to every connection.
Broadcast ==
  events' = [t \in Terminals |-> IF Connected(t) THEN events[t] \o emitted' ELSE << >>]

\* Mutant: the commands that wait for the lock get it in any order.
ExecutesInAnyOrder(t, name) ==
  /\ \E i \in DOMAIN commands :
       /\ commands[i] = [from |-> t, name |-> name]
       /\ commands' = SubSeq(commands, 1, i - 1) \o SubSeq(commands, i + 1, Len(commands))
  /\ UNCHANGED <<place, shown, said>>

Executes(t, name) ==
  /\ commands # << >>
  /\ Head(commands) = [from |-> t, name |-> name]
  /\ commands' = Tail(commands)
  /\ UNCHANGED <<place, shown, said>>

\* Commands wait for the manager's lock and for nothing else.
Served == commands # << >> => ~LockFree

\* Nor does a submission that has been answered or has timed out.
Settled ==
  LockFree => /\ commands = << >>
              /\ \A s \in Submissions :
                   \/ pc[s] \in {"ready", "done"}
                   \/ pc[s] = "parked" /\ decision[s] = "undecided"

Refused == UNCHANGED <<vars, events, began>>

\* pair.begin: opens a window, or is refused since one is open.
RunBegin(t) ==
  /\ Executes(t, "begin")
  /\ \/ /\ Begin
        /\ Broadcast
        /\ began' = [began EXCEPT ![t] = opened']
     \/ LockFree /\ state # "idle" /\ Refused

Answerable == state = "awaiting" /\ pending # NoSub /\ decision[pending] = "undecided"

\* pair.approve and pair.deny: {"resolved": false} if there is nothing to answer.
RunResolve(t, name, answer) ==
  /\ Executes(t, name)
  /\ \/ Resolve(answer) /\ Broadcast /\ UNCHANGED began
     \/ LockFree /\ ~Answerable /\ Refused

RunCancel(t) ==
  /\ Executes(t, "cancel")
  /\ Cancel
  /\ Broadcast
  /\ UNCHANGED began

\* A command is executed when its turn comes, also when its sender has exited.
RunCommand(t) ==
  \/ RunBegin(t)
  \/ RunResolve(t, "approve", "approved")
  \/ RunResolve(t, "deny", "denied")
  \/ RunCancel(t)

-----------------------------------------------------------------------------
(* The terminal.                                                           *)

Moves(t, from, to) ==
  /\ place[t] \in from
  /\ place' = [place EXCEPT ![t] = to]

Sends(t, name) == commands' = Append(commands, [from |-> t, name |-> name])

Replied(t) == \A i \in DOMAIN commands : commands[i].from # t

\* ControlClient.connect and call(pair.begin), by a process just started: what was
\* ready before that has run, or waits for the lock.
Start(t) ==
  /\ Settled
  /\ Shared \/ \A u \in Terminals : ~Connected(u)
  /\ Moves(t, {"shell"}, "beginning")
  /\ Sends(t, "begin")
  /\ UNCHANGED <<vars, events, shown, began, said>>

\* The reply to pair.begin: the panel with the code, or an error and exit.
BeginReplied(t) ==
  /\ Replied(t)
  /\ Moves(t, {"beginning"}, IF began[t] # 0 THEN "watching" ELSE "gone")
  /\ UNCHANGED <<vars, commands, events, shown, began, said>>

\* A request is shown in a prompt, a success or a window's end ends the run,
\* pair.opened is ignored.
After(name) ==
  IF name = "pair.request" THEN "prompting"
  ELSE IF name = "pair.opened" THEN "watching" ELSE "gone"

\* next_event returns the oldest event.
ReadEvent(t) ==
  /\ events[t] # << >>
  /\ Moves(t, {"watching"}, After(Head(events[t]).name))
  /\ shown' = [shown EXCEPT ![t] = Head(events[t]).sub]
  /\ events' = [events EXCEPT ![t] = Tail(@)]
  /\ UNCHANGED <<vars, commands, began, said>>

\* The operator compares the fingerprint shown and types "yes".
SayYes(t) ==
  /\ Moves(t, {"prompting"}, "approving")
  /\ Sends(t, "approve")
  /\ said' = said \cup {shown[t]}
  /\ UNCHANGED <<vars, events, shown, began>>

\* Anything else, end of file included, is a refusal.
SayNo(t) ==
  /\ Moves(t, {"prompting"}, "denying")
  /\ Sends(t, "deny")
  /\ UNCHANGED <<vars, events, shown, began, said>>

\* The reply to the last call: after an approval the run goes on watching.
CallReplied(t) ==
  /\ Replied(t)
  /\ \/ Moves(t, {"approving"}, "watching")
     \/ Moves(t, {"denying", "cancelling"}, "gone")
  /\ UNCHANGED <<vars, commands, events, shown, began, said>>

\* Ctrl-C once the code is on the screen: pair.cancel, then exit.
Interrupt(t) ==
  /\ Moves(t, {"watching", "prompting", "approving", "denying"}, "cancelling")
  /\ Sends(t, "cancel")
  /\ UNCHANGED <<vars, events, shown, began, said>>

\* The run ends without pair.cancel: Ctrl-C during pair.begin, a call without an
\* answer for 15 s, the deadline of cmd_pair, a closed terminal.
Leave(t) ==
  /\ Connected(t)
  /\ place' = [place EXCEPT ![t] = "gone"]
  /\ UNCHANGED <<vars, commands, events, shown, began, said>>

-----------------------------------------------------------------------------
(* The service.                                                            *)

\* The manager's other steps: phones and timers.  The approval timer is at least
\* 10 s long: when it fires, the commands sent before the phone was parked have
\* been executed.
Manager ==
  /\ \/ Lapse
     \/ Expire
     \/ \E s \in Submissions : Submit(s) \/ (Served /\ ApprovalTimeout(s)) \/ Progress(s)
  /\ Broadcast
  /\ UNCHANGED <<place, commands, shown, began, said>>

\* The service stops or dies, which closes every connection, and starts again.
ServiceRestart ==
  /\ Restart
  /\ place' = [t \in Terminals |-> IF Connected(t) THEN "gone" ELSE place[t]]
  /\ commands' = << >>
  /\ events' = [t \in Terminals |-> << >>]
  /\ UNCHANGED <<shown, began, said>>

CLINext ==
  \/ Manager
  \/ ServiceRestart
  \/ \E t \in Terminals :
       \/ RunCommand(t)
       \/ Start(t)
       \/ BeginReplied(t)
       \/ ReadEvent(t)
       \/ SayYes(t)
       \/ SayNo(t)
       \/ CallReplied(t)
       \/ Interrupt(t)
       \/ Leave(t)

CLISpec == CLIInit /\ [][CLINext]_cliVars

-----------------------------------------------------------------------------
(* Properties.                                                             *)

\* cli/__main__.py, _prompt_approval: comparing the fingerprint "is what defeats a
\* race in which someone else on the LAN raced to submit the code first".  So a
\* phone is approved only if an operator saw it in a prompt and said yes to it.
ApprovedWasShown == granted \subseteq said

\* cli/__main__.py, cmd_pair: "Open a window, show the code, and drive the approval
\* prompt": the events of other windows do not end a run whose own window is open.
WatchesItsWindow ==
  [][\A t \in Terminals :
       ReadEvent(t) /\ place'[t] = "gone" => window # began[t]]_cliVars

\* cmd_pair sends pair.cancel when it is interrupted, whatever call is under way, and
\* exits: what it has sent is executed later, when the next run may have begun.  As long
\* as runs do not overlap, an answer or a pair.cancel finds the window of the run that
\* sent it, or none, and never tears down or answers in the next one.
CommandsMeetTheirWindow ==
  [][\A t \in Terminals :
       RunResolve(t, "approve", "approved") \/ RunResolve(t, "deny", "denied") \/ RunCancel(t)
         => window \in {0, began[t]}]_cliVars

=============================================================================
