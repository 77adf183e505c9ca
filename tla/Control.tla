------------------------------ MODULE Control ------------------------------
(***************************************************************************)
(* Connections of the control socket: _handle, _pump_events and            *)
(* _read_commands of control/server.py at one end, control/client.py at    *)
(* the other, and ControlServer.stop.  What commands do to the manager and *)
(* to the tables is in Pairing, PairCLI and Auth; here a command has an    *)
(* id, its line may be over the limit of the service's reader, and it may  *)
(* make the manager emit an event.                                         *)
(*                                                                         *)
(* Messages of the service are <<"event", number>> and <<"reply", id>>,    *)
(* with 0 for an id that is None.                                          *)
(* The end of the process closes all its connections.                      *)
(***************************************************************************)
EXTENDS Naturals, Sequences, SequencesExt

CONSTANTS
  Conns,       \* connections
  QueueLimit,  \* maxsize of a connection's event queue
  WireLimit,   \* how many messages a connection buffers before drain() waits
  WaitsForAll, \* from Python 3.12 on, Server.wait_closed waits until all connections are
               \* closed, and a handler task that ends by being cancelled closes its own
  MaxCalls,    \* bound: calls, on all connections together
  MaxEvents,   \* bound: events of the manager
  Wordy        \* bound: the connections whose client may send a line that is too long

ASSUME ControlAssumption ==
  /\ QueueLimit \in Nat \ {0}
  /\ WireLimit \in Nat
  /\ WaitsForAll \in BOOLEAN
  /\ MaxCalls \in Nat /\ MaxEvents \in Nat
  /\ Wordy \subseteq Conns

VARIABLES
  service,     \* "up", "closing" (awaiting wait_closed) or "down"
  events,      \* number of events so far
  handler,     \* where _handle is
  registered,  \* _connections
  open,        \* connections that are open at the service
  queue,       \* _Connection.events
  pump,        \* the task of _pump_events
  wire,        \* messages the client has not read
  lines,       \* commands the service has not executed; one that is too long stays
  client,      \* the client: "none", "up" or "closed"
  result,      \* of each call: the call's id is its position, `of` the id of the command
               \* that its reply answers
  heard,       \* the last event that the client has read, or that was before it
  calls,       \* bookkeeping for MaxCalls
  dropped      \* history: later events that did not fit in the queue of a client

server    == <<service, events>>
serverEnd == <<handler, registered, open, queue, pump>>
clientEnd == <<client, result, heard, calls, dropped>>
vars      == <<server, serverEnd, wire, lines, clientEnd>>

Handlers == {"none",
             "read",    \* awaits a line
             "run",     \* in _dispatch, with a command that emits nothing
             "emit",    \* in _dispatch, with one that makes the manager emit
             "drain",   \* awaits drain, after a reply
             "refuse",  \* the same, after the error for a line that is too long
             "unwind",  \* in the finally clause
             "gone"}

Results == [how : {"waiting", "reply", "gone"}, of : 0 .. MaxCalls]

TypeOK ==
  /\ service \in {"up", "closing", "down"}
  /\ events \in 0 .. MaxEvents
  /\ handler \in [Conns -> Handlers]
  /\ registered \subseteq Conns
  /\ open \subseteq Conns
  /\ queue \in [Conns -> Seq(1 .. events)]
  /\ \A c \in Conns : Len(queue[c]) <= QueueLimit
  /\ pump \in [Conns -> {"none", "get", "drain", "ended"}]
  /\ wire \in [Conns -> Seq(({"event"} \X (1 .. events)) \cup ({"reply"} \X (0 .. MaxCalls)))]
  /\ lines \in [Conns -> Seq([id : 1 .. MaxCalls, long : BOOLEAN])]
  /\ client \in [Conns -> {"none", "up", "closed"}]
  /\ result \in [Conns -> Seq(Results)]
  /\ \A c \in Conns : Len(result[c]) <= MaxCalls
  /\ heard \in [Conns -> 0 .. events]
  /\ calls \in 0 .. MaxCalls
  /\ dropped \in [Conns -> SUBSET (1 .. events)]

Init ==
  /\ service = "up"
  /\ events = 0
  /\ handler = [c \in Conns |-> "none"]
  /\ registered = {}
  /\ open = {}
  /\ queue = [c \in Conns |-> <<>>]
  /\ pump = [c \in Conns |-> "none"]
  /\ wire = [c \in Conns |-> <<>>]
  /\ lines = [c \in Conns |-> <<>>]
  /\ client = [c \in Conns |-> "none"]
  /\ result = [c \in Conns |-> <<>>]
  /\ heard = [c \in Conns |-> 0]
  /\ calls = 0
  /\ dropped = [c \in Conns |-> {}]

-----------------------------------------------------------------------------
(* The service: events.                                                    *)

Up(c) == client[c] = "up"

\* Neither end waits for a client that has gone: drain raises.
Drains(c) == Up(c) => Len(wire[c]) <= WireLimit

\* writer.write; with no client left the transport breaks.
Write(c, message) ==
  /\ wire' = IF Up(c) THEN [wire EXCEPT ![c] = Append(@, message)] ELSE wire
  /\ open' = IF Up(c) THEN open ELSE open \ {c}

\* Mutant: put instead of put_nowait; the manager waits for a place.
BroadcastWaits ==
  /\ \A c \in registered : Len(queue[c]) < QueueLimit
  /\ events' = events + 1
  /\ queue' = [c \in Conns |-> IF c \in registered THEN Append(queue[c], events') ELSE queue[c]]
  /\ UNCHANGED clientEnd

\* _on_pairing_event; push drops what does not fit.
Broadcast ==
  /\ events' = events + 1
  /\ LET fits(c) == Len(queue[c]) < QueueLimit
     IN  /\ queue' = [c \in Conns |-> IF c \in registered /\ fits(c) THEN Append(queue[c], events')
                                      ELSE queue[c]]
         /\ dropped' = [c \in Conns |-> IF c \in registered /\ Up(c) /\ ~fits(c)
                                          THEN dropped[c] \cup {events'} ELSE dropped[c]]
  /\ UNCHANGED <<client, result, heard, calls>>

Quiet == UNCHANGED <<events, queue, clientEnd>>

\* An event of which no command is the cause: a phone, or a timer.
Emit ==
  /\ service = "up" /\ events < MaxEvents
  /\ Broadcast
  /\ UNCHANGED <<service, handler, registered, open, pump, wire, lines>>

\* Mutant: the event stays in the queue.
PumpPeeks(c) ==
  /\ pump[c] = "get" /\ queue[c] # <<>>
  /\ pump' = [pump EXCEPT ![c] = "drain"]
  /\ Write(c, <<"event", Head(queue[c])>>)
  /\ UNCHANGED <<server, handler, registered, queue, lines, clientEnd>>

\* _pump_events: get and write.
Pump(c) ==
  /\ pump[c] = "get" /\ queue[c] # <<>>
  /\ pump' = [pump EXCEPT ![c] = "drain"]
  /\ queue' = [queue EXCEPT ![c] = Tail(@)]
  /\ Write(c, <<"event", Head(queue[c])>>)
  /\ UNCHANGED <<server, handler, registered, lines, clientEnd>>

\* drain returns, or raises and ends the pump.
PumpDrained(c) ==
  /\ pump[c] = "drain" /\ Drains(c)
  /\ pump' = [pump EXCEPT ![c] = IF Up(c) THEN "get" ELSE "ended"]
  /\ UNCHANGED <<server, handler, registered, open, queue, wire, lines, clientEnd>>

-----------------------------------------------------------------------------
(* The service: commands.                                                  *)

Goes(c, from, to) ==
  /\ handler[c] = from
  /\ handler' = [handler EXCEPT ![c] = to]

ReadCommand(c) ==
  /\ lines[c] # <<>> /\ ~Head(lines[c]).long
  /\ c \in open
  /\ \/ Goes(c, "read", "run")
     \/ Goes(c, "read", "emit")
  /\ UNCHANGED <<server, registered, open, queue, pump, wire, lines, clientEnd>>

\* LimitOverrunError, or a line of more than MAX_LINE_BYTES: an error without an id, after
\* which nothing more is read from this connection.
RefuseLine(c) ==
  /\ lines[c] # <<>> /\ Head(lines[c]).long
  /\ c \in open
  /\ Goes(c, "read", "refuse")
  /\ Write(c, <<"reply", 0>>)
  /\ UNCHANGED <<server, registered, queue, pump, lines, clientEnd>>

\* _read_commands returns, however long the client stays.
Refused(c) ==
  /\ Drains(c)
  /\ Goes(c, "refuse", "unwind")
  /\ UNCHANGED <<server, registered, open, queue, pump, wire, lines, clientEnd>>

\* _dispatch returns or raises: either way, one reply with the id of the command.
Run(c) ==
  /\ \/ Goes(c, "run", "drain")
     \/ Goes(c, "emit", "drain")
  /\ IF handler[c] = "emit" /\ events < MaxEvents /\ service = "up" THEN Broadcast ELSE Quiet
  /\ Write(c, <<"reply", Head(lines[c]).id>>)
  /\ lines' = [lines EXCEPT ![c] = Tail(@)]
  /\ UNCHANGED <<service, registered, pump>>

Replied(c) ==
  /\ Drains(c)
  /\ Goes(c, "drain", "read")
  /\ UNCHANGED <<server, registered, open, queue, pump, wire, lines, clientEnd>>

\* The end of the stream after the last whole line, or the error of a transport that
\* broke; in that case the commands not read are lost.
EndOfStream(c) ==
  /\ ~Up(c)
  /\ lines[c] = <<>> \/ c \notin open
  /\ Goes(c, "read", "unwind")
  /\ UNCHANGED <<server, registered, open, queue, pump, wire, lines, clientEnd>>

\* Mutant: the connection is closed only if awaiting the pump did not raise, whatever
\* Python does with a cancelled task.
UnwindLeaving(c) ==
  /\ Goes(c, "unwind", "gone")
  /\ registered' = IF pump[c] = "ended" THEN registered \ {c} ELSE registered
  /\ open' = IF pump[c] = "ended" THEN open \ {c} ELSE open
  /\ pump' = [pump EXCEPT ![c] = "ended"]
  /\ UNCHANGED <<server, queue, wire, lines, clientEnd>>

\* The pump is cancelled and awaited.  The CancelledError of a pump that had not ended
\* is not an Exception: _handle ends there, before discard and close.
Unwind(c) ==
  /\ Goes(c, "unwind", "gone")
  /\ registered' = IF pump[c] = "ended" THEN registered \ {c} ELSE registered
  /\ open' = IF pump[c] = "ended" \/ WaitsForAll THEN open \ {c} ELSE open
  /\ pump' = [pump EXCEPT ![c] = "ended"]
  /\ UNCHANGED <<server, queue, wire, lines, clientEnd>>

-----------------------------------------------------------------------------
(* The service: its end.                                                   *)

\* Listener removed, server closed.
Stop ==
  /\ service = "up"
  /\ service' = "closing"
  /\ UNCHANGED <<events, serverEnd, wire, lines, clientEnd>>

\* The end of the process closes its connections and takes its tasks with it.
Die ==
  /\ service' = "down"
  /\ open' = {}
  /\ registered' = {}
  /\ handler' = [c \in Conns |-> IF handler[c] = "none" THEN "none" ELSE "gone"]
  /\ pump' = [c \in Conns |-> IF pump[c] = "none" THEN "none" ELSE "ended"]
  /\ queue' = [c \in Conns |-> <<>>]
  /\ lines' = [c \in Conns |-> <<>>]
  /\ UNCHANGED <<events, clientEnd>>

\* wait_closed returns, the connections left are closed, and the process ends.
Stopped ==
  /\ service = "closing"
  /\ WaitsForAll => open = {}
  /\ Die
  /\ UNCHANGED wire

\* The process is killed; of what it has written, the last may not have left it.
Killed ==
  /\ service # "down"
  /\ Die
  /\ \E lost \in SUBSET Conns :
       wire' = [c \in Conns |-> IF c \in lost /\ wire[c] # <<>> THEN Front(wire[c]) ELSE wire[c]]

-----------------------------------------------------------------------------
(* ControlClient.                                                          *)

Connect(c) ==
  /\ service = "up" /\ client[c] = "none"
  /\ client' = [client EXCEPT ![c] = "up"]
  /\ Goes(c, "none", "read")
  /\ registered' = registered \cup {c}
  /\ open' = open \cup {c}
  /\ pump' = [pump EXCEPT ![c] = "get"]
  /\ heard' = [heard EXCEPT ![c] = events]
  /\ UNCHANGED <<server, queue, wire, lines, result, calls, dropped>>

InCall(c) == Up(c) /\ result[c] # <<>> /\ Last(result[c]).how = "waiting"

Ends(c, how, of) ==
  result' = [result EXCEPT ![c] = Append(Front(@), [how |-> how, of |-> of])]

\* The client forgets everything.
Leaves(c) ==
  /\ Up(c)
  /\ client' = [client EXCEPT ![c] = "closed"]
  /\ result' = [result EXCEPT ![c] = <<>>]
  /\ heard' = [heard EXCEPT ![c] = 0]
  /\ dropped' = [dropped EXCEPT ![c] = {}]
  /\ UNCHANGED calls

Local == UNCHANGED <<server, serverEnd>>

\* A CLI makes its calls one after the other.
Call(c) ==
  /\ Up(c) /\ ~InCall(c)
  /\ calls < MaxCalls /\ calls' = calls + 1
  /\ result' = [result EXCEPT ![c] = Append(@, [how |-> "waiting", of |-> 0])]
  /\ \E long \in BOOLEAN :
       /\ long => c \in Wordy
       /\ lines' = IF c \notin open THEN lines
                   ELSE [lines EXCEPT ![c] = Append(@, [id |-> Len(result[c]) + 1, long |-> long])]
  /\ Local
  /\ UNCHANGED <<wire, client, heard, dropped>>

\* Mutant: a reply is given to the call in progress.
AnsweredInTurn(c, id) ==
  IF InCall(c) THEN Ends(c, "reply", id) ELSE UNCHANGED result

\* _read_loop: the future of this id, if there is one and it still waits.
Answered(c, id) ==
  IF id # 0 /\ result[c][id].how = "waiting"
    THEN result' = [result EXCEPT ![c][id] = [how |-> "reply", of |-> id]]
    ELSE UNCHANGED result

Read(c) ==
  /\ Up(c) /\ wire[c] # <<>>
  /\ wire' = [wire EXCEPT ![c] = Tail(@)]
  /\ LET message == Head(wire[c])
     IN  \/ /\ message[1] = "event"
            /\ heard' = [heard EXCEPT ![c] = message[2]]
            /\ dropped' = [dropped EXCEPT ![c] = @ \ (1 .. message[2])]
            /\ UNCHANGED result
         \/ /\ message[1] = "reply"
            /\ Answered(c, message[2])
            /\ UNCHANGED <<heard, dropped>>
  /\ Local
  /\ UNCHANGED <<lines, client, calls>>

\* 15 s are over, or Ctrl-C cancels the call; the reply may still come.
GiveUp(c) ==
  /\ InCall(c)
  /\ Ends(c, "gone", 0)
  /\ Local
  /\ UNCHANGED <<wire, lines, client, heard, calls, dropped>>

\* The service has closed the connection: every call that waits is told so.
Lost(c) ==
  /\ wire[c] = <<>> /\ c \notin open
  /\ Leaves(c)
  /\ Local
  /\ UNCHANGED <<wire, lines>>

\* The CLI exits or is killed, or a message is over the limit of its reader.  If it leaves
\* messages unread, the service's next read is an error, and the commands still in the
\* socket are lost.
Close(c) ==
  /\ Leaves(c)
  /\ wire' = [wire EXCEPT ![c] = <<>>]
  /\ \E n \in 0 .. Len(lines[c]) :
       /\ wire[c] = <<>> => n = Len(lines[c])
       /\ handler[c] \in {"run", "emit"} => n > 0
       /\ lines' = [lines EXCEPT ![c] = SubSeq(@, 1, n)]
  /\ Local

-----------------------------------------------------------------------------

Serve(c) ==
  \/ Pump(c)
  \/ PumpDrained(c)
  \/ ReadCommand(c)
  \/ RefuseLine(c)
  \/ Refused(c)
  \/ Run(c)
  \/ Replied(c)
  \/ EndOfStream(c)
  \/ Unwind(c)

Use(c) ==
  \/ Connect(c)
  \/ Call(c)
  \/ Read(c)
  \/ GiveUp(c)
  \/ Lost(c)
  \/ Close(c)

Next == Emit \/ Stop \/ Stopped \/ Killed \/ \E c \in Conns : Serve(c) \/ Use(c)

Spec == Init /\ [][Next]_vars

\* The loop of the service runs its ready tasks and every command ends.  Clients owe
\* nothing: one may stall, or stay.
FairSpec ==
  /\ Spec
  /\ WF_vars(Stopped)
  /\ \A c \in Conns :
       /\ WF_vars(Pump(c) \/ PumpDrained(c))
       /\ WF_vars(\/ ReadCommand(c) \/ RefuseLine(c) \/ Refused(c) \/ Run(c) \/ Replied(c)
                  \/ EndOfStream(c) \/ Unwind(c))

-----------------------------------------------------------------------------
(* Properties.                                                             *)

\* _read_loop "demultiplexes replies (by id) from events (by name)": no call returns the
\* late reply of an earlier one that timed out or was interrupted.
ReplyIsItsOwn ==
  \A c \in Conns : \A i \in DOMAIN result[c] :
    result[c][i].how = "reply" => result[c][i].of = i

\* The events on wire w.
Told(w) == {k \in DOMAIN w : w[k][1] = "event"}

\* On wire w and in queue q, once each and in their order, are the events from h on up
\* to e, but for those in d.
Unbroken(w, q, h, e, d) ==
  /\ {w[k][2] : k \in Told(w)} \cup {q[k] : k \in DOMAIN q} = (h + 1 .. e) \ d
  /\ \A j, k \in Told(w) : j < k => w[j][2] < w[k][2]
  /\ \A j \in Told(w), k \in DOMAIN q : w[j][2] < q[k]
  /\ \A j, k \in DOMAIN q : j < k => q[j] < q[k]

\* What is on its way to a client and what is queued are the manager's events since the
\* last that it has read, in their order, but for those that found the queue full.
EventsUnbroken ==
  \A c \in registered :
    Up(c) => Unbroken(wire[c], queue[c], heard[c], events, dropped[c])

\* Of command `id`: it is among the commands l to be executed, or its reply is on wire w.
Coming(l, w, id) ==
  \/ \E k \in DOMAIN l : l[k].id = id
  \/ \E k \in DOMAIN w : w[k] = <<"reply", id>>

\* A line that is too long is among the commands l; what follows it is not executed.
Overlong(l) == \E k \in DOMAIN l : l[k].long

\* _read_commands answers each command, whether _dispatch returns or raises: as long as
\* the connection is open, a call that waits has its command or its reply on the way,
\* unless its client has sent a line that is too long.  (The error that answers that one
\* has no id, and no call is waiting for it.)
NoneForgotten ==
  \A c \in open : InCall(c) => Coming(lines[c], wire[c], Len(result[c])) \/ Overlong(lines[c])

\* push: "A stalled CLI must never apply backpressure to the pairing flow".  Whatever the
\* other clients do or fail to do, and whatever connections were left behind, a command
\* is executed, unless its own sender does not read or has sent a line before it that is
\* too long, or its connection ends.
NobodyHeldUp ==
  \A c \in Conns :
    lines[c] # <<>> ~>
      (lines[c] = <<>> \/ Len(wire[c]) > WireLimit \/ Head(lines[c]).long \/ c \notin open)

\* ControlServer.stop ends once no client is connected, whatever the clients before it
\* left behind.
StopEnds == service = "closing" ~> (service = "down" \/ \E c \in Conns : Up(c))

\* _handle: the finally clause is to release the connection.
EndedIsReleased == \A c \in Conns : handler[c] = "gone" => c \notin registered

\* Service.stop: an orderly stop needs no help from the terminals.
StopEndsAlone == service = "closing" ~> service = "down"

=============================================================================
