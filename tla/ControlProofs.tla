--------------------------- MODULE ControlProofs ---------------------------
(***************************************************************************)
(* Proofs about Control, for any number of connections, calls and events   *)
(* and any limits of queues and buffers: replies keep to their calls and   *)
(* events to their order.                                                  *)
(***************************************************************************)
EXTENDS Control, TLAPS

Message == {"event", "reply"} \X Nat

-----------------------------------------------------------------------------
(* Sequences.                                                              *)

\* The elements of a sequence, and what they say of it.
LEMMA Element ==
  ASSUME NEW S, NEW s \in Seq(S), NEW k \in DOMAIN s
  PROVE  s[k] \in S
OBVIOUS

LEMMA Narrowed ==
  ASSUME NEW S, NEW T, NEW s \in Seq(S), \A k \in DOMAIN s : s[k] \in T
  PROVE  s \in Seq(T)
<1>1. Len(s) \in Nat /\ DOMAIN s = 1 .. Len(s) /\ s = [k \in 1 .. Len(s) |-> s[k]]
  OBVIOUS
<1> QED
  BY <1>1

\* What is left of a sequence without its first element.
LEMMA Shifted ==
  ASSUME NEW S, NEW s \in Seq(S), s # <<>>
  PROVE  /\ Tail(s) \in Seq(S)
         /\ Len(Tail(s)) < Len(s)
         /\ DOMAIN s \subseteq Nat \ {0} /\ DOMAIN Tail(s) \subseteq Nat
         /\ 1 \in DOMAIN s /\ Head(s) = s[1]
         /\ \A k \in DOMAIN Tail(s) :
              k + 1 \in DOMAIN s /\ 1 < k + 1 /\ Tail(s)[k] = s[k + 1]
         /\ \A k \in DOMAIN s :
              k = 1 \/ (k - 1 \in DOMAIN Tail(s) /\ Tail(s)[k - 1] = s[k])
<1>1. /\ Len(s) \in Nat \ {0} /\ DOMAIN s = 1 .. Len(s)
      /\ Tail(s) \in Seq(S)
      /\ Len(Tail(s)) = Len(s) - 1
      /\ DOMAIN Tail(s) = 1 .. (Len(s) - 1)
      /\ \A k \in 1 .. (Len(s) - 1) : Tail(s)[k] = s[k + 1]
      /\ Head(s) = s[1]
  OBVIOUS
<1> QED
  BY <1>1

\* A sequence with one more element at its end.
LEMMA Extended ==
  ASSUME NEW S, NEW s \in Seq(S), NEW x \in S
  PROVE  /\ Append(s, x) \in Seq(S)
         /\ Len(s) \in Nat /\ Len(Append(s, x)) = Len(s) + 1
         /\ DOMAIN s \subseteq Nat
         /\ DOMAIN Append(s, x) = DOMAIN s \cup {Len(s) + 1}
         /\ \A k \in DOMAIN s : k < Len(s) + 1 /\ Append(s, x)[k] = s[k]
         /\ Append(s, x)[Len(s) + 1] = x
<1>1. /\ Len(s) \in Nat /\ DOMAIN s = 1 .. Len(s)
      /\ Append(s, x) \in Seq(S)
      /\ Len(Append(s, x)) = Len(s) + 1
      /\ DOMAIN Append(s, x) = 1 .. (Len(s) + 1)
      /\ \A k \in 1 .. Len(s) : Append(s, x)[k] = s[k]
      /\ Append(s, x)[Len(s) + 1] = x
  OBVIOUS
<1> QED
  BY <1>1

\* The beginning of a sequence.
LEMMA Cut ==
  ASSUME NEW S, NEW s \in Seq(S), NEW n \in Int, n <= Len(s)
  PROVE  /\ SubSeq(s, 1, n) \in Seq(S)
         /\ \A k \in DOMAIN SubSeq(s, 1, n) : k \in DOMAIN s /\ SubSeq(s, 1, n)[k] = s[k]
         /\ n > 0 => 1 \in DOMAIN SubSeq(s, 1, n)
<1>1. Len(s) \in Nat /\ DOMAIN s = 1 .. Len(s)
  OBVIOUS
<1> QED
  BY <1>1

-----------------------------------------------------------------------------
(* What a step does to the events on one connection.                       *)

\* The pump moves the oldest event from the queue to the wire.
LEMMA Delivered ==
  ASSUME NEW w \in Seq(Message), NEW q \in Seq(Nat), q # <<>>, NEW h, NEW e, NEW d,
         Unbroken(w, q, h, e, d)
  PROVE  Unbroken(Append(w, <<"event", Head(q)>>), Tail(q), h, e, d)
<1> DEFINE m == <<"event", Head(q)>>
           v == Append(w, m)
           r == Tail(q)
           n == Len(w) + 1
<1>1. /\ DOMAIN q \subseteq Nat \ {0} /\ DOMAIN r \subseteq Nat
      /\ 1 \in DOMAIN q /\ Head(q) = q[1]
      /\ \A k \in DOMAIN r : k + 1 \in DOMAIN q /\ 1 < k + 1 /\ r[k] = q[k + 1]
      /\ \A k \in DOMAIN q : k = 1 \/ (k - 1 \in DOMAIN r /\ r[k - 1] = q[k])
  BY Shifted
<1>2. m \in Message /\ m[1] = "event" /\ m[2] = q[1]
  BY <1>1 DEF Message
<1> HIDE DEF m
<1>3. /\ n \in Nat /\ DOMAIN w \subseteq Nat
      /\ DOMAIN v = DOMAIN w \cup {n}
      /\ \A k \in DOMAIN w : k < n /\ v[k] = w[k]
      /\ v[n] = m
  BY <1>2, Extended
<1> HIDE DEF v, r, n
<1>4. Told(v) = Told(w) \cup {n} /\ \A k \in Told(w) : k \in Nat /\ k < n /\ v[k] = w[k]
  BY <1>2, <1>3 DEF Told
<1>5. {v[k][2] : k \in Told(v)} = {w[k][2] : k \in Told(w)} \cup {q[1]}
  BY <1>2, <1>3, <1>4
<1>6. {q[k] : k \in DOMAIN q} = {r[k] : k \in DOMAIN r} \cup {q[1]}
  <2>1. ASSUME NEW k \in DOMAIN q PROVE q[k] \in {r[i] : i \in DOMAIN r} \cup {q[1]}
    BY <1>1
  <2>2. ASSUME NEW k \in DOMAIN r PROVE r[k] \in {q[i] : i \in DOMAIN q}
    BY <1>1
  <2> QED BY <1>1, <2>1, <2>2
<1>7. ASSUME NEW j \in Told(v), NEW k \in Told(v), j < k PROVE v[j][2] < v[k][2]
  BY <1>1, <1>2, <1>3, <1>4, <1>7 DEF Unbroken
<1>8. ASSUME NEW k \in DOMAIN r PROVE q[1] < r[k]
  <2>1. 1 \in DOMAIN q /\ k + 1 \in DOMAIN q /\ 1 < k + 1 /\ r[k] = q[k + 1]
    BY <1>1
  <2> QED BY <2>1 DEF Unbroken
<1>9. ASSUME NEW j \in Told(v), NEW k \in DOMAIN r PROVE v[j][2] < r[k]
  BY <1>1, <1>2, <1>3, <1>4, <1>8 DEF Unbroken
<1>10. ASSUME NEW j \in DOMAIN r, NEW k \in DOMAIN r, j < k PROVE r[j] < r[k]
  <2>1. j + 1 \in DOMAIN q /\ k + 1 \in DOMAIN q /\ j + 1 < k + 1
    BY <1>1, <1>10
  <2> QED BY <1>1, <2>1 DEF Unbroken
<1>11. {v[k][2] : k \in Told(v)} \cup {r[k] : k \in DOMAIN r} = (h + 1 .. e) \ d
  BY <1>5, <1>6 DEF Unbroken
<1>12. Unbroken(v, r, h, e, d)
  BY <1>7, <1>9, <1>10, <1>11 DEF Unbroken
<1> QED
  BY <1>12 DEF v, r, m

\* A reply on the wire is no event.
LEMMA Replies ==
  ASSUME NEW w \in Seq(Message), NEW q, NEW h, NEW e, NEW d, NEW n \in Nat,
         Unbroken(w, q, h, e, d)
  PROVE  Unbroken(Append(w, <<"reply", n>>), q, h, e, d)
<1> DEFINE m == <<"reply", n>>
           v == Append(w, m)
<1>1. m \in Message /\ m[1] # "event"
  BY DEF Message
<1> HIDE DEF m
<1>2. Told(v) = Told(w) /\ \A k \in Told(w) : v[k] = w[k]
  BY <1>1, Extended DEF Told
<1> HIDE DEF v
<1>3. {v[k][2] : k \in Told(v)} = {w[k][2] : k \in Told(w)}
  BY <1>2
<1>4. Unbroken(v, q, h, e, d)
  BY <1>2, <1>3 DEF Unbroken
<1> QED
  BY <1>4 DEF v, m

\* An event is emitted and queued.
LEMMA Queued ==
  ASSUME NEW w, NEW q \in Seq(Nat), NEW h \in Nat, NEW e \in Nat, NEW d,
         h <= e, d \subseteq 1 .. e, Unbroken(w, q, h, e, d)
  PROVE  Unbroken(w, Append(q, e + 1), h, e + 1, d)
<1> DEFINE r == Append(q, e + 1)
           n == Len(q) + 1
<1>1. /\ n \in Nat /\ DOMAIN q \subseteq Nat
      /\ DOMAIN r = DOMAIN q \cup {n}
      /\ \A k \in DOMAIN q : k < n /\ r[k] = q[k]
      /\ r[n] = e + 1
  BY Extended
<1> HIDE DEF r, n
<1>2. \A k \in DOMAIN q : q[k] \in h + 1 .. e
  BY DEF Unbroken
<1>3. \A k \in Told(w) : w[k][2] \in h + 1 .. e
  BY DEF Unbroken
<1>4. (h + 1 .. e + 1) \ d = ((h + 1 .. e) \ d) \cup {e + 1}
  OBVIOUS
<1>5. {r[k] : k \in DOMAIN r} = {q[k] : k \in DOMAIN q} \cup {e + 1}
  BY <1>1
<1>6. {w[k][2] : k \in Told(w)} \cup {r[k] : k \in DOMAIN r} = (h + 1 .. e + 1) \ d
  BY <1>4, <1>5 DEF Unbroken
<1>7. ASSUME NEW j \in Told(w), NEW k \in DOMAIN r PROVE w[j][2] < r[k]
  BY <1>1, <1>3 DEF Unbroken
<1>8. ASSUME NEW j \in DOMAIN r, NEW k \in DOMAIN r, j < k PROVE r[j] < r[k]
  BY <1>1, <1>2, <1>8 DEF Unbroken
<1>9. Unbroken(w, r, h, e + 1, d)
  BY <1>6, <1>7, <1>8 DEF Unbroken
<1> QED
  BY <1>9 DEF r

\* An event is emitted and finds the queue full.
LEMMA Missed ==
  ASSUME NEW w, NEW q, NEW h \in Nat, NEW e \in Nat, NEW d, h <= e, d \subseteq 1 .. e, Unbroken(w, q, h, e, d)
  PROVE  Unbroken(w, q, h, e + 1, d \cup {e + 1})
<1>1. (h + 1 .. e + 1) \ (d \cup {e + 1}) = (h + 1 .. e) \ d
  OBVIOUS
<1>2. {w[k][2] : k \in Told(w)} \cup {q[k] : k \in DOMAIN q} = (h + 1 .. e + 1) \ (d \cup {e + 1})
  BY <1>1 DEF Unbroken
<1> QED
  BY <1>2 DEF Unbroken

\* The client reads an event, which is then the last it has heard.
LEMMA Heard ==
  ASSUME NEW w \in Seq(Message), w # <<>>, NEW q, NEW h \in Nat, NEW e \in Nat,
         NEW d, Unbroken(w, q, h, e, d), Head(w)[1] = "event"
  PROVE  /\ Head(w)[2] \in h + 1 .. e
         /\ Unbroken(Tail(w), q, Head(w)[2], e, d \ (1 .. Head(w)[2]))
<1> DEFINE v == Tail(w)
           n == Head(w)[2]
<1>1. /\ DOMAIN w \subseteq Nat \ {0} /\ DOMAIN v \subseteq Nat
      /\ 1 \in DOMAIN w /\ Head(w) = w[1]
      /\ \A k \in DOMAIN v : k + 1 \in DOMAIN w /\ 1 < k + 1 /\ v[k] = w[k + 1]
      /\ \A k \in DOMAIN w : k = 1 \/ (k - 1 \in DOMAIN v /\ v[k - 1] = w[k])
  BY Shifted
<1>2. n = w[1][2] /\ 1 \in Told(w)
  BY <1>1 DEF Told
<1> HIDE DEF v, n
<1>3. ASSUME NEW k \in Told(v) PROVE k \in Nat /\ k + 1 \in Told(w) /\ v[k] = w[k + 1] /\ 1 < k + 1
  <2>1. k \in DOMAIN v /\ v[k][1] = "event"
    BY DEF Told
  <2>2. k + 1 \in DOMAIN w /\ w[k + 1][1] = "event"
    BY <1>1, <2>1
  <2> QED BY <1>1, <2>1, <2>2 DEF Told
<1>4. ASSUME NEW k \in Told(w), k # 1 PROVE k - 1 \in Told(v) /\ v[k - 1] = w[k]
  <2>1. k \in DOMAIN w /\ w[k][1] = "event"
    BY DEF Told
  <2> QED BY <1>1, <1>4, <2>1 DEF Told
<1> DEFINE T == {w[k][2] : k \in Told(w)}
           U == {v[k][2] : k \in Told(v)}
           Q == {q[k] : k \in DOMAIN q}
<1>5. n \in T
  BY <1>2
<1>6. T \cup Q = (h + 1 .. e) \ d
  BY DEF Unbroken
<1>7. T = U \cup {n}
  <2>1. ASSUME NEW k \in Told(v) PROVE v[k][2] \in T
    BY <1>3
  <2>2. ASSUME NEW k \in Told(w) PROVE w[k][2] \in U \cup {n}
    BY <1>2, <1>4
  <2> QED BY <1>5, <2>1, <2>2
<1>8. \A x \in U \cup Q : n < x
  <2>1. ASSUME NEW k \in Told(v) PROVE n < v[k][2]
    BY <1>2, <1>3 DEF Unbroken
  <2>2. ASSUME NEW k \in DOMAIN q PROVE n < q[k]
    BY <1>2 DEF Unbroken
  <2> QED BY <2>1, <2>2
<1>9. n \in h + 1 .. e /\ U \cup Q = (n + 1 .. e) \ (d \ (1 .. n))
  <2> HIDE DEF T, U, Q
  <2>1. n \in (h + 1 .. e) \ d
    BY <1>5, <1>6
  <2>2. ASSUME NEW x \in U \cup Q PROVE x \in (n + 1 .. e) \ (d \ (1 .. n))
    BY <1>6, <1>7, <1>8, <2>1, <2>2
  <2>3. ASSUME NEW x \in (n + 1 .. e) \ (d \ (1 .. n)) PROVE x \in U \cup Q
    BY <1>6, <1>7, <2>1, <2>3
  <2> QED BY <2>1, <2>2, <2>3
<1>10. ASSUME NEW j \in Told(v), NEW k \in Told(v), j < k PROVE v[j][2] < v[k][2]
  <2>1. j + 1 < k + 1
    BY <1>3, <1>10
  <2> QED BY <1>3, <2>1 DEF Unbroken
<1>11. ASSUME NEW j \in Told(v), NEW k \in DOMAIN q PROVE v[j][2] < q[k]
  BY <1>3 DEF Unbroken
<1>12. Unbroken(v, q, n, e, d \ (1 .. n))
  BY <1>9, <1>10, <1>11 DEF Unbroken
<1> QED
  BY <1>9, <1>12 DEF v, n

\* The client reads a reply: the events are left alone.
LEMMA ReplyRead ==
  ASSUME NEW w \in Seq(Message), w # <<>>, NEW q, NEW h, NEW e, NEW d,
         Unbroken(w, q, h, e, d), Head(w)[1] # "event"
  PROVE  Unbroken(Tail(w), q, h, e, d)
<1> DEFINE v == Tail(w)
<1>1. /\ DOMAIN w \subseteq Nat \ {0} /\ DOMAIN v \subseteq Nat
      /\ 1 \in DOMAIN w /\ Head(w) = w[1]
      /\ \A k \in DOMAIN v : k + 1 \in DOMAIN w /\ 1 < k + 1 /\ v[k] = w[k + 1]
      /\ \A k \in DOMAIN w : k = 1 \/ (k - 1 \in DOMAIN v /\ v[k - 1] = w[k])
  BY Shifted
<1> HIDE DEF v
<1>3. ASSUME NEW k \in Told(v) PROVE k \in Nat /\ k + 1 \in Told(w) /\ v[k] = w[k + 1]
  <2>1. k \in DOMAIN v /\ v[k][1] = "event"
    BY DEF Told
  <2> QED BY <1>1, <2>1 DEF Told
<1>4. ASSUME NEW k \in Told(w) PROVE k - 1 \in Told(v) /\ v[k - 1] = w[k]
  <2>1. k \in DOMAIN w /\ w[k][1] = "event" /\ k # 1
    BY <1>1 DEF Told
  <2> QED BY <1>1, <2>1 DEF Told
<1>5. {v[k][2] : k \in Told(v)} = {w[k][2] : k \in Told(w)}
  <2>1. ASSUME NEW k \in Told(v) PROVE v[k][2] \in {w[i][2] : i \in Told(w)}
    BY <1>3
  <2>2. ASSUME NEW k \in Told(w) PROVE w[k][2] \in {v[i][2] : i \in Told(v)}
    BY <1>4
  <2> QED BY <2>1, <2>2
<1>6. ASSUME NEW j \in Told(v), NEW k \in Told(v), j < k PROVE v[j][2] < v[k][2]
  <2>1. j + 1 < k + 1
    BY <1>3, <1>6
  <2> QED BY <1>3, <2>1 DEF Unbroken
<1>7. ASSUME NEW j \in Told(v), NEW k \in DOMAIN q PROVE v[j][2] < q[k]
  BY <1>3 DEF Unbroken
<1>8. Unbroken(v, q, h, e, d)
  BY <1>5, <1>6, <1>7 DEF Unbroken
<1> QED
  BY <1>8 DEF v

-----------------------------------------------------------------------------
(* The inductive invariant.                                                *)

\* The values that each variable takes.
Types ==
  /\ service \in {"up", "closing", "down"}
  /\ events \in 0 .. MaxEvents
  /\ handler \in [Conns -> Handlers]
  /\ registered \subseteq Conns
  /\ open \subseteq Conns
  /\ queue \in [Conns -> Seq(Nat)]
  /\ pump \in [Conns -> {"none", "get", "drain", "ended"}]
  /\ wire \in [Conns -> Seq(Message)]
  /\ lines \in [Conns -> Seq([id : Nat, long : BOOLEAN])]
  /\ client \in [Conns -> {"none", "up", "closed"}]
  /\ result \in [Conns -> Seq([how : {"waiting", "reply", "gone"}, of : Nat])]
  /\ heard \in [Conns -> Nat]
  /\ calls \in 0 .. MaxCalls
  /\ dropped \in [Conns -> SUBSET Nat]

\* Events that are queued, written, heard or dropped have been emitted.
EventInv ==
  \A c \in Conns :
    /\ Len(queue[c]) <= QueueLimit
    /\ \A k \in DOMAIN queue[c] : queue[c][k] \in 1 .. events
    /\ \A k \in Told(wire[c]) : wire[c][k][2] \in 1 .. events
    /\ heard[c] <= events
    /\ dropped[c] \subseteq 1 .. events

\* A handler at h, with the commands l before it, executes the first only if it may.
Runs(h, l) == h \in {"run", "emit"} => 1 \in DOMAIN l /\ ~l[1].long

\* A command that waits, or whose reply is on its way, is one of the client's calls.
CallInv ==
  \A c \in Conns :
    /\ Runs(handler[c], lines[c])
    /\ \A k \in DOMAIN lines[c] :
         /\ lines[c][k].id \in 1 .. MaxCalls
         /\ Up(c) => lines[c][k].id <= Len(result[c])
    /\ \A k \in DOMAIN wire[c] \ Told(wire[c]) :
         /\ wire[c][k][2] \in 0 .. MaxCalls
         /\ Up(c) => wire[c][k][2] <= Len(result[c])
    /\ Len(result[c]) <= calls
    /\ \A i \in DOMAIN result[c] :
         /\ result[c][i].of \in 0 .. MaxCalls
         /\ result[c][i].how = "reply" => result[c][i].of = i

\* Nothing is known of a connection that has not been made.
NewInv ==
  \A c \in Conns :
    client[c] = "none" =>
      /\ handler[c] = "none" /\ pump[c] = "none"
      /\ c \notin registered /\ c \notin open
      /\ queue[c] = <<>> /\ wire[c] = <<>> /\ lines[c] = <<>>
      /\ dropped[c] = {}

IInv == Types /\ EventInv /\ CallInv /\ NewInv /\ EventsUnbroken

\* It says at least what TypeOK and ReplyIsItsOwn say.
LEMMA Implied == IInv => TypeOK /\ ReplyIsItsOwn
<1> SUFFICES ASSUME IInv PROVE TypeOK /\ ReplyIsItsOwn
  OBVIOUS
<1>1. Types /\ EventInv /\ CallInv
  BY DEF IInv
<1>2. ASSUME NEW c \in Conns
      PROVE  /\ queue[c] \in Seq(Nat) /\ wire[c] \in Seq(Message)
             /\ lines[c] \in Seq([id : Nat, long : BOOLEAN])
             /\ result[c] \in Seq([how : {"waiting", "reply", "gone"}, of : Nat])
             /\ heard[c] \in Nat
  BY <1>1 DEF Types
<1>3. ASSUME NEW c \in Conns PROVE queue[c] \in Seq(1 .. events)
  BY <1>1, <1>2, Narrowed DEF EventInv
<1>4. ASSUME NEW c \in Conns
      PROVE  wire[c] \in Seq(({"event"} \X (1 .. events)) \cup ({"reply"} \X (0 .. MaxCalls)))
  <2>1. ASSUME NEW k \in DOMAIN wire[c]
        PROVE  wire[c][k] \in ({"event"} \X (1 .. events)) \cup ({"reply"} \X (0 .. MaxCalls))
    <3>1. wire[c][k] \in Message
      BY <1>2, Element
    <3>2. \/ k \in Told(wire[c]) /\ wire[c][k][1] = "event"
          \/ k \in DOMAIN wire[c] \ Told(wire[c]) /\ wire[c][k][1] = "reply"
      BY <3>1 DEF Told, Message
    <3> QED BY <1>1, <3>1, <3>2 DEF EventInv, CallInv, Message
  <2> QED BY <1>2, <2>1, Narrowed
<1>5. ASSUME NEW c \in Conns PROVE lines[c] \in Seq([id : 1 .. MaxCalls, long : BOOLEAN])
  <2>1. ASSUME NEW k \in DOMAIN lines[c] PROVE lines[c][k] \in [id : 1 .. MaxCalls, long : BOOLEAN]
    <3>1. lines[c][k] \in [id : Nat, long : BOOLEAN]
      BY <1>2, Element
    <3> QED BY <1>1, <3>1 DEF CallInv
  <2> DEFINE S == [id : Nat, long : BOOLEAN]
             T == [id : 1 .. MaxCalls, long : BOOLEAN]
  <2>2. lines[c] \in Seq(S) /\ \A k \in DOMAIN lines[c] : lines[c][k] \in T
    BY <1>2, <2>1
  <2> HIDE DEF S, T
  <2>3. lines[c] \in Seq(T)
    BY <2>2, Narrowed
  <2> QED BY <2>3 DEF T
<1>6. ASSUME NEW c \in Conns PROVE result[c] \in Seq(Results)
  <2>1. ASSUME NEW i \in DOMAIN result[c] PROVE result[c][i] \in Results
    <3>1. result[c][i] \in [how : {"waiting", "reply", "gone"}, of : Nat]
      BY <1>2, Element
    <3> QED BY <1>1, <3>1 DEF CallInv, Results
  <2> QED BY <1>2, <2>1, Narrowed
<1>7. ASSUME NEW c \in Conns PROVE Len(result[c]) <= MaxCalls
  <2>1. Len(result[c]) \in Nat
    BY <1>2
  <2> QED BY <1>1, <2>1, ControlAssumption DEF Types, CallInv
<1>8. ASSUME NEW c \in Conns PROVE heard[c] \in 0 .. events
  BY <1>1, <1>2, ControlAssumption DEF Types, EventInv
<1>9. /\ queue \in [Conns -> Seq(1 .. events)]
      /\ wire \in [Conns -> Seq(({"event"} \X (1 .. events)) \cup ({"reply"} \X (0 .. MaxCalls)))]
      /\ lines \in [Conns -> Seq([id : 1 .. MaxCalls, long : BOOLEAN])]
      /\ result \in [Conns -> Seq(Results)]
      /\ heard \in [Conns -> 0 .. events]
      /\ dropped \in [Conns -> SUBSET (1 .. events)]
  <2>1. /\ queue = [c \in Conns |-> queue[c]] /\ wire = [c \in Conns |-> wire[c]]
        /\ lines = [c \in Conns |-> lines[c]] /\ result = [c \in Conns |-> result[c]]
        /\ heard = [c \in Conns |-> heard[c]] /\ dropped = [c \in Conns |-> dropped[c]]
    BY <1>1 DEF Types
  <2>2. \A c \in Conns : dropped[c] \subseteq 1 .. events
    BY <1>1 DEF EventInv
  <2> QED BY <1>3, <1>4, <1>5, <1>6, <1>8, <2>1, <2>2
<1>10. TypeOK
  BY <1>1, <1>7, <1>9 DEF Types, EventInv, TypeOK
<1>11. ReplyIsItsOwn
  BY <1>1 DEF CallInv, ReplyIsItsOwn
<1> QED
  BY <1>10, <1>11

\* Before anybody has connected.
LEMMA Initially == Init => IInv
BY ControlAssumption DEF Init, IInv, Types, EventInv, CallInv, NewInv, EventsUnbroken, Handlers, Told, Runs

-----------------------------------------------------------------------------
(* Its steps: the service.                                                 *)

\* Tasks move on, connections are unregistered or closed, a stop begins.
LEMMA Rests ==
  ASSUME IInv,
         service' \in {"up", "closing", "down"},
         handler' \in [Conns -> Handlers],
         pump' \in [Conns -> {"none", "get", "drain", "ended"}],
         registered' \subseteq registered, open' \subseteq open,
         \A c \in Conns : /\ client[c] = "none" => handler'[c] = "none" /\ pump'[c] = "none"
                          /\ Runs(handler'[c], lines[c]),
         UNCHANGED <<events, queue, wire, lines, clientEnd>>
  PROVE  IInv'
<1>1. Types'
  BY DEF IInv, Types, clientEnd
<1>2. EventInv'
  BY DEF IInv, EventInv, clientEnd
<1>3. CallInv'
  BY DEF IInv, CallInv, clientEnd, Up
<1>4. NewInv'
  BY DEF IInv, NewInv, clientEnd
<1>5. EventsUnbroken'
  BY DEF IInv, EventsUnbroken, clientEnd, Up
<1> QED
  BY <1>1, <1>2, <1>3, <1>4, <1>5 DEF IInv

\* The tasks of a connection, between its messages.
LEMMA TasksMove ==
  ASSUME IInv, NEW c \in Conns,
         \/ PumpDrained(c) \/ ReadCommand(c) \/ Refused(c) \/ Replied(c) \/ EndOfStream(c)
         \/ Unwind(c)
  PROVE  IInv'
<1> USE DEF Goes, server, Handlers
<1>0. /\ handler \in [Conns -> Handlers]
      /\ pump \in [Conns -> {"none", "get", "drain", "ended"}]
      /\ service \in {"up", "closing", "down"}
      /\ \A d \in Conns : Runs(handler[d], lines[d])
      /\ \A d \in Conns : client[d] = "none" => handler[d] = "none" /\ pump[d] = "none"
  BY DEF IInv, Types, CallInv, NewInv
<1>a. \A h \in {"read", "drain", "unwind", "gone"} : \A d \in Conns : Runs(h, lines[d])
  BY DEF Runs
<1>1. CASE PumpDrained(c)
  BY <1>0, <1>1, Rests DEF PumpDrained
<1>2. CASE ReadCommand(c)
  <2>1. /\ lines[c] \in Seq([id : Nat, long : BOOLEAN]) /\ lines[c] # <<>>
        /\ ~Head(lines[c]).long
    BY <1>2 DEF ReadCommand, IInv, Types
  <2>2. 1 \in DOMAIN lines[c] /\ Head(lines[c]) = lines[c][1]
    <3> DEFINE S == [id : Nat, long : BOOLEAN]
    <3>1. lines[c] \in Seq(S) /\ lines[c] # <<>>
      BY <2>1
    <3> HIDE DEF S
    <3> QED BY <3>1, Shifted
  <2>3. Runs("run", lines[c]) /\ Runs("emit", lines[c])
    BY <2>1, <2>2 DEF Runs
  <2>4. \/ handler' = [handler EXCEPT ![c] = "run"]
        \/ handler' = [handler EXCEPT ![c] = "emit"]
    BY <1>2 DEF ReadCommand
  <2>5. handler[c] = "read" /\ UNCHANGED <<service, pump, registered, open, events, queue, wire, lines, clientEnd>>
    BY <1>2 DEF ReadCommand, server
  <2> QED BY <1>0, <2>3, <2>4, <2>5, Rests
<1>3. CASE Replied(c)
  BY <1>0, <1>a, <1>3, Rests DEF Replied
<1>4. CASE EndOfStream(c)
  BY <1>0, <1>a, <1>4, Rests DEF EndOfStream
<1>5. CASE Unwind(c)
  BY <1>0, <1>a, <1>5, Rests DEF Unwind
<1>6. CASE Refused(c)
  BY <1>0, <1>a, <1>6, Rests DEF Refused
<1> QED
  BY <1>1, <1>2, <1>3, <1>4, <1>5, <1>6

\* An orderly stop begins.
LEMMA StopBegins == IInv /\ Stop => IInv'
BY Rests DEF Stop, serverEnd, IInv, Types, CallInv, NewInv

\* An event is emitted: in every queue that has a place it is the last, and in the
\* others it is missed.
LEMMA Broadcasts ==
  ASSUME IInv, events < MaxEvents, Broadcast
  PROVE  /\ events' \in 0 .. MaxEvents /\ events' = events + 1
         /\ queue' \in [Conns -> Seq(Nat)]
         /\ dropped' \in [Conns -> SUBSET Nat]
         /\ \A c \in Conns :
              /\ Len(queue'[c]) <= QueueLimit
              /\ \A k \in DOMAIN queue'[c] : queue'[c][k] \in 1 .. events'
              /\ dropped'[c] \subseteq 1 .. events'
              /\ c \notin registered => queue'[c] = queue[c] /\ dropped'[c] = dropped[c]
         /\ \A c \in registered :
              Up(c) => Unbroken(wire[c], queue'[c], heard[c], events', dropped'[c])
<1>1. events \in Nat /\ events' = events + 1 /\ events' \in 0 .. MaxEvents
  BY ControlAssumption DEF IInv, Types, Broadcast
<1>2. ASSUME NEW c \in Conns
      PROVE  /\ queue[c] \in Seq(Nat) /\ dropped[c] \subseteq Nat /\ heard[c] \in Nat
             /\ Len(queue[c]) <= QueueLimit
             /\ \A k \in DOMAIN queue[c] : queue[c][k] \in 1 .. events
             /\ heard[c] <= events /\ dropped[c] \subseteq 1 .. events
  BY DEF IInv, Types, EventInv
<1>3. ASSUME NEW c \in Conns
      PROVE  \/ /\ queue'[c] = Append(queue[c], events + 1) /\ dropped'[c] = dropped[c]
                /\ Len(queue[c]) < QueueLimit /\ c \in registered
             \/ /\ queue'[c] = queue[c] /\ dropped'[c] = dropped[c] \cup {events + 1}
                /\ c \in registered
             \/ /\ queue'[c] = queue[c] /\ dropped'[c] = dropped[c]
                /\ ~(c \in registered /\ Up(c))
  BY <1>1 DEF Broadcast
<1>4. ASSUME NEW c \in Conns
      PROVE  /\ queue'[c] \in Seq(Nat) /\ dropped'[c] \subseteq 1 .. events'
             /\ Len(queue'[c]) <= QueueLimit
             /\ \A k \in DOMAIN queue'[c] : queue'[c][k] \in 1 .. events'
             /\ c \notin registered => queue'[c] = queue[c] /\ dropped'[c] = dropped[c]
  <2>1. CASE queue'[c] = Append(queue[c], events + 1) /\ dropped'[c] = dropped[c]
             /\ Len(queue[c]) < QueueLimit /\ c \in registered
    BY <1>1, <1>2, <2>1, Extended, ControlAssumption
  <2>2. CASE queue'[c] = queue[c]
    BY <1>1, <1>2, <1>3, <2>2
  <2> QED BY <1>3, <2>1, <2>2
<1>5. ASSUME NEW c \in registered, Up(c)
      PROVE  Unbroken(wire[c], queue'[c], heard[c], events', dropped'[c])
  <2>0. c \in Conns
    BY DEF IInv, Types
  <2>1. Unbroken(wire[c], queue[c], heard[c], events, dropped[c])
    BY <1>5 DEF IInv, EventsUnbroken
  <2>2. Unbroken(wire[c], Append(queue[c], events + 1), heard[c], events + 1, dropped[c])
    BY <1>1, <1>2, <2>0, <2>1, Queued
  <2>3. Unbroken(wire[c], queue[c], heard[c], events + 1, dropped[c] \cup {events + 1})
    BY <1>1, <1>2, <2>0, <2>1, Missed
  <2> QED BY <1>1, <1>3, <1>5, <2>0, <2>2, <2>3
<1>6. queue' = [c \in Conns |-> queue'[c]] /\ dropped' = [c \in Conns |-> dropped'[c]]
  BY DEF Broadcast
<1> QED
  BY <1>1, <1>4, <1>5, <1>6

\* A phone or a timer causes an event.
LEMMA EmitStep == IInv /\ Emit => IInv'
<1> SUFFICES ASSUME IInv, Emit PROVE IInv'
  OBVIOUS
<1>1. /\ events < MaxEvents /\ Broadcast
      /\ UNCHANGED <<service, handler, registered, open, pump, wire, lines, client, result,
                     heard, calls>>
  BY DEF Emit, Broadcast
<1>2. Types'
  BY <1>1, Broadcasts DEF IInv, Types
<1>3. EventInv'
  <2>1. events \in Nat /\ events' = events + 1
    BY <1>1, Broadcasts DEF IInv, Types
  <2>2. ASSUME NEW c \in Conns PROVE heard[c] <= events'
    BY <2>1 DEF IInv, Types, EventInv
  <2>3. ASSUME NEW c \in Conns, NEW k \in Told(wire[c]) PROVE wire[c][k][2] \in 1 .. events'
    BY <2>1 DEF IInv, EventInv
  <2>4. ASSUME NEW c \in Conns
        PROVE  /\ Len(queue'[c]) <= QueueLimit
               /\ \A k \in DOMAIN queue'[c] : queue'[c][k] \in 1 .. events'
               /\ dropped'[c] \subseteq 1 .. events'
    BY <1>1, Broadcasts
  <2> QED BY <1>1, <2>2, <2>3, <2>4 DEF EventInv
<1>4. CallInv'
  BY <1>1 DEF IInv, CallInv, Up
<1>5. NewInv'
  BY <1>1, Broadcasts DEF IInv, NewInv
<1>6. EventsUnbroken'
  BY <1>1, Broadcasts DEF EventsUnbroken, Up
<1> QED
  BY <1>2, <1>3, <1>4, <1>5, <1>6 DEF IInv

\* What is on a wire after a message has been written.
LEMMA OnWire ==
  ASSUME NEW w \in Seq(Message), NEW m \in Message, NEW k \in DOMAIN Append(w, m)
  PROVE  \/ /\ k \in DOMAIN w /\ Append(w, m)[k] = w[k]
            /\ (k \in Told(Append(w, m)) <=> k \in Told(w))
         \/ /\ Append(w, m)[k] = m
            /\ (k \in Told(Append(w, m)) <=> m[1] = "event")
<1>1. \/ k \in DOMAIN w /\ Append(w, m)[k] = w[k]
      \/ Append(w, m)[k] = m
  BY Extended
<1> QED
  BY <1>1 DEF Told

\* A message is written: to the wire of this connection, if its client is there.
LEMMA Written ==
  ASSUME Types, NEW c \in Conns, NEW m \in Message, Write(c, m)
  PROVE  /\ wire' \in [Conns -> Seq(Message)]
         /\ \A d \in Conns \ {c} : wire'[d] = wire[d]
         /\ wire'[c] = IF Up(c) THEN Append(wire[c], m) ELSE wire[c]
         /\ open' \subseteq open
BY Extended DEF Types, Write

\* The pump writes the oldest event of its queue.
LEMMA PumpStep == ASSUME IInv, NEW c \in Conns, Pump(c) PROVE IInv'
<1> DEFINE m == <<"event", Head(queue[c])>>
<1>1. /\ pump[c] = "get" /\ queue[c] # <<>>
      /\ queue' = [queue EXCEPT ![c] = Tail(@)]
      /\ pump' = [pump EXCEPT ![c] = "drain"]
      /\ Write(c, m)
      /\ UNCHANGED <<service, events, handler, registered, lines, clientEnd>>
  BY DEF Pump, server
<1>2. queue[c] \in Seq(Nat) /\ wire[c] \in Seq(Message) /\ Types
  BY DEF IInv, Types
<1>3. /\ Tail(queue[c]) \in Seq(Nat) /\ Len(Tail(queue[c])) < Len(queue[c])
      /\ Len(queue[c]) \in Nat /\ Len(Tail(queue[c])) \in Nat
      /\ \A k \in DOMAIN Tail(queue[c]) : Tail(queue[c])[k] \in 1 .. events
      /\ Head(queue[c]) \in 1 .. events
  BY <1>1, <1>2, Shifted DEF IInv, EventInv
<1>4. m \in Message /\ m[1] = "event" /\ m[2] = Head(queue[c])
  BY <1>3 DEF Message
<1> HIDE DEF m
<1>5. /\ wire' \in [Conns -> Seq(Message)]
      /\ \A d \in Conns \ {c} : wire'[d] = wire[d]
      /\ wire'[c] = (IF Up(c) THEN Append(wire[c], m) ELSE wire[c])
      /\ open' \subseteq open
  BY <1>1, <1>2, <1>4, Written
<1>6. /\ \A k \in Told(wire'[c]) : wire'[c][k][2] \in 1 .. events
      /\ \A k \in DOMAIN wire'[c] \ Told(wire'[c]) :
           k \in DOMAIN wire[c] \ Told(wire[c]) /\ wire'[c][k] = wire[c][k]
  <2>1. \A k \in Told(wire[c]) : wire[c][k][2] \in 1 .. events
    BY DEF IInv, EventInv
  <2>2. CASE Up(c)
    <3>1. wire'[c] = Append(wire[c], m)
      BY <1>5, <2>2
    <3>2. ASSUME NEW k \in Told(wire'[c]) PROVE wire'[c][k][2] \in 1 .. events
      <4>1. k \in DOMAIN wire'[c]
        BY DEF Told
      <4> QED BY <1>2, <1>3, <1>4, <2>1, <3>1, <4>1, OnWire
    <3>3. ASSUME NEW k \in DOMAIN wire'[c] \ Told(wire'[c])
          PROVE  k \in DOMAIN wire[c] \ Told(wire[c]) /\ wire'[c][k] = wire[c][k]
      BY <1>2, <1>4, <3>1, OnWire
    <3> QED BY <3>2, <3>3
  <2>3. CASE ~Up(c)
    BY <1>5, <2>1, <2>3
  <2> QED BY <2>2, <2>3
<1>7. Types'
  BY <1>1, <1>2, <1>3, <1>5 DEF Types, clientEnd
<1>8. EventInv'
  <2>1. ASSUME NEW d \in Conns, d # c
        PROVE  queue'[d] = queue[d] /\ wire'[d] = wire[d]
    BY <1>1, <1>2, <1>5, <2>1 DEF Types
  <2>2. queue'[c] = Tail(queue[c])
    BY <1>1, <1>2 DEF Types
  <2>3. Len(queue'[c]) <= QueueLimit
    BY <1>3, <2>2, ControlAssumption DEF IInv, EventInv
  <2> QED BY <1>1, <1>3, <1>6, <2>1, <2>2, <2>3 DEF IInv, EventInv, clientEnd
<1>9. CallInv'
  <2>1. UNCHANGED <<handler, lines, client, result, calls>>
    BY <1>1 DEF clientEnd
  <2>2. ASSUME NEW d \in Conns, NEW k \in DOMAIN wire'[d] \ Told(wire'[d])
        PROVE  k \in DOMAIN wire[d] \ Told(wire[d]) /\ wire'[d][k] = wire[d][k]
    BY <1>5, <1>6
  <2> QED BY <2>1, <2>2 DEF IInv, CallInv, Up
<1>10. NewInv'
  BY <1>1, <1>2, <1>5 DEF IInv, NewInv, Types, clientEnd
<1>11. EventsUnbroken'
  <2> SUFFICES ASSUME NEW d \in registered, Up(d)
               PROVE  Unbroken(wire'[d], queue'[d], heard[d], events, dropped[d])
    BY <1>1 DEF EventsUnbroken, clientEnd, Up
  <2>1. d \in Conns /\ Unbroken(wire[d], queue[d], heard[d], events, dropped[d])
    BY <1>2 DEF IInv, Types, EventsUnbroken
  <2>2. CASE d = c
    <3>1. wire'[c] = Append(wire[c], <<"event", Head(queue[c])>>) /\ queue'[c] = Tail(queue[c])
      BY <1>1, <1>2, <1>5, <2>2 DEF m, Types
    <3> QED BY <1>1, <1>2, <2>1, <2>2, <3>1, Delivered
  <2>3. CASE d # c
    BY <1>1, <1>2, <1>5, <2>1, <2>3 DEF Types
  <2> QED BY <2>2, <2>3
<1> QED
  BY <1>7, <1>8, <1>9, <1>10, <1>11 DEF IInv

\* A line that is too long is answered, without an id.
LEMMA RefuseStep == ASSUME IInv, NEW c \in Conns, RefuseLine(c) PROVE IInv'
<1> DEFINE m == <<"reply", 0>>
<1>1. /\ handler' = [handler EXCEPT ![c] = "refuse"] /\ handler[c] = "read"
      /\ Write(c, m)
      /\ UNCHANGED <<service, events, registered, queue, pump, lines, clientEnd>>
  BY DEF RefuseLine, Goes, server
<1>2. Types /\ wire[c] \in Seq(Message)
  BY DEF IInv, Types
<1>3. m \in Message /\ m[1] # "event" /\ m[2] = 0
  BY DEF Message
<1> HIDE DEF m
<1>4. /\ wire' \in [Conns -> Seq(Message)]
      /\ \A d \in Conns \ {c} : wire'[d] = wire[d]
      /\ wire'[c] = (IF Up(c) THEN Append(wire[c], m) ELSE wire[c])
      /\ open' \subseteq open
  BY <1>1, <1>2, <1>3, Written
<1>5. ASSUME NEW k \in DOMAIN wire'[c]
      PROVE  \/ /\ k \in DOMAIN wire[c] /\ wire'[c][k] = wire[c][k]
                /\ (k \in Told(wire'[c]) <=> k \in Told(wire[c]))
             \/ Up(c) /\ wire'[c][k] = m /\ k \notin Told(wire'[c])
  <2>1. CASE Up(c)
    BY <1>2, <1>3, <1>4, <2>1, OnWire
  <2>2. CASE ~Up(c)
    BY <1>4, <2>2
  <2> QED BY <2>1, <2>2
<1>6. Types'
  BY <1>1, <1>2, <1>4 DEF Types, Handlers, clientEnd
<1>7. EventInv'
  <2>1. ASSUME NEW d \in Conns, NEW k \in Told(wire'[d]) PROVE wire'[d][k][2] \in 1 .. events
    <3>1. k \in DOMAIN wire'[d]
      BY DEF Told
    <3>2. k \in Told(wire[d]) /\ wire'[d][k] = wire[d][k]
      BY <1>4, <1>5, <3>1
    <3> QED BY <3>2 DEF IInv, EventInv
  <2> QED BY <1>1, <2>1 DEF IInv, EventInv, clientEnd
<1>8. CallInv'
  <2>1. ASSUME NEW d \in Conns PROVE Len(result[d]) \in Nat
    BY <1>2 DEF Types
  <2>2. ASSUME NEW d \in Conns, NEW k \in DOMAIN wire'[d] \ Told(wire'[d])
        PROVE  wire'[d][k][2] \in 0 .. MaxCalls /\ (Up(d) => wire'[d][k][2] <= Len(result[d]))
    <3>1. CASE d = c /\ wire'[d][k] = m
      <4>1. wire'[d][k][2] = 0
        BY <1>3, <3>1
      <4> QED BY <2>1, <4>1, ControlAssumption
    <3>2. CASE k \in DOMAIN wire[d] \ Told(wire[d]) /\ wire'[d][k] = wire[d][k]
      BY <3>2 DEF IInv, CallInv
    <3>3. CASE d # c
      <4>1. wire'[d] = wire[d]
        BY <1>4, <3>3
      <4> QED BY <3>2, <4>1
    <3>4. CASE d = c
      BY <1>5, <3>1, <3>2, <3>4
    <3> QED BY <3>3, <3>4
  <2>3. ASSUME NEW d \in Conns PROVE Runs(handler'[d], lines[d])
    <3>1. handler'[d] = handler[d] \/ handler'[d] = "refuse"
      BY <1>1, <1>2 DEF Types
    <3>2. Runs(handler[d], lines[d])
      BY DEF IInv, CallInv
    <3> QED BY <3>1, <3>2 DEF Runs
  <2> QED BY <1>1, <2>2, <2>3 DEF IInv, CallInv, Up, clientEnd
<1>9. NewInv'
  BY <1>1, <1>2, <1>4 DEF IInv, NewInv, Types, clientEnd
<1>10. EventsUnbroken'
  <2> SUFFICES ASSUME NEW d \in registered, Up(d)
               PROVE  Unbroken(wire'[d], queue[d], heard[d], events, dropped[d])
    BY <1>1 DEF EventsUnbroken, Up, clientEnd
  <2>1. d \in Conns /\ Unbroken(wire[d], queue[d], heard[d], events, dropped[d])
    BY <1>2 DEF IInv, Types, EventsUnbroken
  <2>2. CASE d = c
    <3>1. wire'[c] = Append(wire[c], <<"reply", 0>>)
      BY <1>4, <2>2 DEF m
    <3> QED BY <1>2, <2>1, <2>2, <3>1, Replies
  <2>3. CASE d # c
    BY <1>4, <2>1, <2>3
  <2> QED BY <2>2, <2>3
<1> QED
  BY <1>6, <1>7, <1>8, <1>9, <1>10 DEF IInv

\* A command is executed, answered and, perhaps, announced.
LEMMA RunStep == ASSUME IInv, NEW c \in Conns, Run(c) PROVE IInv'
<1> DEFINE id == Head(lines[c]).id
           m == <<"reply", id>>
<1>1. /\ handler[c] \in {"run", "emit"} /\ handler' = [handler EXCEPT ![c] = "drain"]
      /\ Write(c, m)
      /\ lines' = [lines EXCEPT ![c] = Tail(@)]
      /\ UNCHANGED <<service, registered, pump, client, result, heard, calls>>
  BY DEF Run, Goes, Broadcast, Quiet, clientEnd
<1>2. /\ Types /\ wire[c] \in Seq(Message)
      /\ lines[c] \in Seq([id : Nat, long : BOOLEAN]) /\ lines[c] # <<>>
  <2>1. Types /\ wire[c] \in Seq(Message) /\ lines[c] \in Seq([id : Nat, long : BOOLEAN])
    BY DEF IInv, Types
  <2>2. Runs(handler[c], lines[c])
    BY DEF IInv, CallInv
  <2>3. 1 \in DOMAIN lines[c]
    BY <1>1, <2>2 DEF Runs
  <2>4. lines[c] # <<>>
    BY <2>3
  <2> QED BY <2>1, <2>4
<1>3. /\ events' \in 0 .. MaxEvents /\ events <= events'
      /\ queue' \in [Conns -> Seq(Nat)] /\ dropped' \in [Conns -> SUBSET Nat]
      /\ \A d \in Conns :
           /\ Len(queue'[d]) <= QueueLimit
           /\ \A k \in DOMAIN queue'[d] : queue'[d][k] \in 1 .. events'
           /\ dropped'[d] \subseteq 1 .. events'
           /\ d \notin registered => queue'[d] = queue[d] /\ dropped'[d] = dropped[d]
      /\ \A d \in registered :
           Up(d) => Unbroken(wire[d], queue'[d], heard[d], events', dropped'[d])
  <2>0. events \in Nat
    BY <1>2 DEF Types
  <2>1. CASE events < MaxEvents /\ Broadcast
    BY <2>0, <2>1, Broadcasts
  <2>2. CASE Quiet
    <3>1. UNCHANGED <<events, queue, dropped>>
      BY <2>2 DEF Quiet, clientEnd
    <3>2. events \in 0 .. MaxEvents /\ queue \in [Conns -> Seq(Nat)] /\ dropped \in [Conns -> SUBSET Nat]
      BY <1>2 DEF Types
    <3>3. \A d \in Conns : /\ Len(queue[d]) <= QueueLimit
                           /\ \A k \in DOMAIN queue[d] : queue[d][k] \in 1 .. events
                           /\ dropped[d] \subseteq 1 .. events
      BY DEF IInv, EventInv
    <3>4. \A d \in registered :
            Up(d) => Unbroken(wire[d], queue[d], heard[d], events, dropped[d])
      BY DEF IInv, EventsUnbroken
    <3> QED BY <2>0, <3>1, <3>2, <3>3, <3>4
  <2> QED BY <2>1, <2>2 DEF Run
<1>4. /\ Tail(lines[c]) \in Seq([id : Nat, long : BOOLEAN])
      /\ 1 \in DOMAIN lines[c] /\ Head(lines[c]) = lines[c][1]
      /\ \A k \in DOMAIN Tail(lines[c]) :
           k + 1 \in DOMAIN lines[c] /\ Tail(lines[c])[k] = lines[c][k + 1]
  <2> DEFINE S == [id : Nat, long : BOOLEAN]
  <2>1. lines[c] \in Seq(S) /\ lines[c] # <<>>
    BY <1>2
  <2> HIDE DEF S
  <2>2. /\ Tail(lines[c]) \in Seq(S)
        /\ 1 \in DOMAIN lines[c] /\ Head(lines[c]) = lines[c][1]
        /\ \A k \in DOMAIN Tail(lines[c]) :
             k + 1 \in DOMAIN lines[c] /\ Tail(lines[c])[k] = lines[c][k + 1]
    BY <2>1, Shifted
  <2> QED BY <2>2 DEF S
<1>5. id \in 1 .. MaxCalls /\ (Up(c) => id <= Len(result[c]))
  BY <1>4 DEF IInv, CallInv
<1>6. m \in Message /\ m[1] # "event" /\ m[2] = id
  BY <1>5 DEF Message
<1>7. /\ wire' \in [Conns -> Seq(Message)]
      /\ \A d \in Conns \ {c} : wire'[d] = wire[d]
      /\ wire'[c] = (IF Up(c) THEN Append(wire[c], m) ELSE wire[c])
      /\ open' \subseteq open
  <2> HIDE DEF m
  <2> QED BY <1>1, <1>2, <1>6, Written
<1>8. \A d \in Conns \ {c} : lines'[d] = lines[d] /\ handler'[d] = handler[d]
  BY <1>1, <1>2 DEF Types
<1>9. lines'[c] = Tail(lines[c]) /\ handler'[c] = "drain"
  BY <1>1, <1>2 DEF Types
<1> HIDE DEF id, m
<1>10. ASSUME NEW k \in DOMAIN wire'[c]
       PROVE  \/ /\ k \in DOMAIN wire[c] /\ wire'[c][k] = wire[c][k]
                 /\ (k \in Told(wire'[c]) <=> k \in Told(wire[c]))
              \/ Up(c) /\ wire'[c][k] = m /\ k \notin Told(wire'[c])
  <2>1. CASE Up(c)
    BY <1>2, <1>6, <1>7, <2>1, OnWire
  <2>2. CASE ~Up(c)
    BY <1>7, <2>2
  <2> QED BY <2>1, <2>2
<1>11. Types'
  <2>1. lines' \in [Conns -> Seq([id : Nat, long : BOOLEAN])]
    BY <1>1, <1>2, <1>4 DEF Types
  <2> QED BY <1>1, <1>2, <1>3, <1>7, <2>1 DEF Types, Handlers
<1>12. EventInv'
  <2>0. events \in Nat /\ events' \in Nat /\ events <= events'
    BY <1>2, <1>3 DEF Types
  <2>1. ASSUME NEW d \in Conns PROVE heard[d] <= events'
    <3>1. heard[d] \in Nat /\ heard[d] <= events
      BY <1>2 DEF Types, IInv, EventInv
    <3> QED BY <2>0, <3>1
  <2>2. ASSUME NEW d \in Conns, NEW k \in Told(wire'[d]) PROVE wire'[d][k][2] \in 1 .. events'
    <3>1. k \in DOMAIN wire'[d]
      BY DEF Told
    <3>2. k \in Told(wire[d]) /\ wire'[d][k] = wire[d][k]
      BY <1>7, <1>10, <3>1
    <3>3. wire[d][k][2] \in 1 .. events
      BY <3>2 DEF IInv, EventInv
    <3> QED BY <2>0, <3>2, <3>3
  <2> QED BY <1>1, <1>3, <2>1, <2>2 DEF EventInv
<1>13. CallInv'
  <2>1. ASSUME NEW d \in Conns, NEW k \in DOMAIN lines'[d]
        PROVE  lines'[d][k].id \in 1 .. MaxCalls /\ (Up(d) => lines'[d][k].id <= Len(result[d]))
    <3>1. \/ lines'[d] = lines[d]
          \/ d = c /\ k + 1 \in DOMAIN lines[d] /\ lines'[d][k] = lines[d][k + 1]
      BY <1>4, <1>8, <1>9
    <3> QED BY <3>1 DEF IInv, CallInv
  <2>2. ASSUME NEW d \in Conns, NEW k \in DOMAIN wire'[d] \ Told(wire'[d])
        PROVE  wire'[d][k][2] \in 0 .. MaxCalls /\ (Up(d) => wire'[d][k][2] <= Len(result[d]))
    <3>1. CASE d = c /\ wire'[d][k] = m
      <4>1. wire'[d][k][2] = id /\ id \in 0 .. MaxCalls
        BY <1>5, <1>6, <3>1
      <4> QED BY <1>5, <3>1, <4>1
    <3>2. CASE k \in DOMAIN wire[d] \ Told(wire[d]) /\ wire'[d][k] = wire[d][k]
      BY <3>2 DEF IInv, CallInv
    <3>3. CASE d # c
      <4>1. wire'[d] = wire[d]
        BY <1>7, <3>3
      <4> QED BY <3>2, <4>1
    <3>4. CASE d = c
      BY <1>10, <3>1, <3>2, <3>4
    <3> QED BY <3>3, <3>4
  <2>3. ASSUME NEW d \in Conns PROVE Runs(handler'[d], lines'[d])
    BY <1>8, <1>9 DEF IInv, CallInv, Runs
  <2> QED BY <1>1, <2>1, <2>2, <2>3 DEF IInv, CallInv, Up
<1>14. NewInv'
  BY <1>1, <1>3, <1>7, <1>8 DEF IInv, NewInv
<1>15. EventsUnbroken'
  <2> SUFFICES ASSUME NEW d \in registered, Up(d)
               PROVE  Unbroken(wire'[d], queue'[d], heard[d], events', dropped'[d])
    BY <1>1 DEF EventsUnbroken, Up
  <2>1. d \in Conns /\ Unbroken(wire[d], queue'[d], heard[d], events', dropped'[d])
    BY <1>2, <1>3 DEF Types
  <2>2. CASE d = c
    <3>1. wire'[c] = Append(wire[c], <<"reply", id>>) /\ id \in Nat
      BY <1>5, <1>7, <2>2 DEF m
    <3> QED BY <1>2, <2>1, <2>2, <3>1, Replies
  <2>3. CASE d # c
    BY <1>7, <2>1, <2>3
  <2> QED BY <2>2, <2>3
<1> QED
  BY <1>11, <1>12, <1>13, <1>14, <1>15 DEF IInv

\* The end of the process: what was written may be cut short.
LEMMA DieStep == IInv /\ (Stopped \/ Killed) => IInv'
<1> SUFFICES ASSUME IInv, Stopped \/ Killed PROVE IInv'
  OBVIOUS
<1>1. /\ service' = "down" /\ open' = {} /\ registered' = {}
      /\ handler' = [c \in Conns |-> IF handler[c] = "none" THEN "none" ELSE "gone"]
      /\ pump' = [c \in Conns |-> IF pump[c] = "none" THEN "none" ELSE "ended"]
      /\ queue' = [c \in Conns |-> <<>>]
      /\ lines' = [c \in Conns |-> <<>>]
      /\ UNCHANGED <<events, client, result, heard, calls, dropped>>
  BY DEF Stopped, Killed, Die, clientEnd
<1>2. Types
  BY DEF IInv
<1>3. \A c \in Conns : wire'[c] = wire[c] \/ (wire[c] # <<>> /\ wire'[c] = Front(wire[c]))
  BY <1>2 DEF Stopped, Killed, Types
<1>4. ASSUME NEW c \in Conns
      PROVE  /\ wire'[c] \in Seq(Message)
             /\ \A k \in DOMAIN wire'[c] : k \in DOMAIN wire[c] /\ wire'[c][k] = wire[c][k]
             /\ wire[c] = <<>> => wire'[c] = <<>>
  <2>1. wire[c] \in Seq(Message)
    BY <1>2 DEF Types
  <2>2. CASE wire[c] # <<>> /\ wire'[c] = Front(wire[c])
    BY <2>1, <2>2, Cut DEF Front
  <2> QED BY <1>3, <2>1, <2>2
<1>5. Types'
  <2>1. wire' = [c \in Conns |-> wire'[c]]
    BY <1>2 DEF Stopped, Killed, Types
  <2>2. wire' \in [Conns -> Seq(Message)]
    BY <1>4, <2>1
  <2>3. /\ queue' \in [Conns -> Seq(Nat)]
        /\ lines' \in [Conns -> Seq([id : Nat, long : BOOLEAN])]
        /\ handler' \in [Conns -> Handlers]
        /\ pump' \in [Conns -> {"none", "get", "drain", "ended"}]
    BY <1>1 DEF Handlers
  <2> QED BY <1>1, <1>2, <2>2, <2>3 DEF Types
<1>6. EventInv'
  <2>1. ASSUME NEW c \in Conns, NEW k \in Told(wire'[c])
        PROVE  wire'[c][k][2] \in 1 .. events
    BY <1>4 DEF IInv, EventInv, Told
  <2>2. ASSUME NEW c \in Conns PROVE Len(queue'[c]) <= QueueLimit /\ DOMAIN queue'[c] = {}
    BY <1>1, ControlAssumption
  <2> QED BY <1>1, <2>1, <2>2 DEF IInv, EventInv
<1>7. CallInv'
  <2>1. ASSUME NEW c \in Conns, NEW k \in DOMAIN wire'[c] \ Told(wire'[c])
        PROVE  k \in DOMAIN wire[c] \ Told(wire[c]) /\ wire'[c][k] = wire[c][k]
    BY <1>4 DEF Told
  <2>2. ASSUME NEW c \in Conns PROVE DOMAIN lines'[c] = {} /\ handler'[c] \notin {"run", "emit"}
    BY <1>1
  <2> QED BY <1>1, <2>1, <2>2 DEF IInv, CallInv, Up, Runs
<1>8. NewInv'
  BY <1>1, <1>4 DEF IInv, NewInv
<1>9. EventsUnbroken'
  BY <1>1 DEF EventsUnbroken
<1> QED
  BY <1>5, <1>6, <1>7, <1>8, <1>9 DEF IInv

-----------------------------------------------------------------------------
(* Its steps: the client.                                                  *)

\* A connection is made: nothing is on its way, and nothing has been missed.
LEMMA ConnectStep == ASSUME IInv, NEW c \in Conns, Connect(c) PROVE IInv'
<1>1. /\ client[c] = "none"
      /\ client' = [client EXCEPT ![c] = "up"]
      /\ handler' = [handler EXCEPT ![c] = "read"]
      /\ registered' = registered \cup {c}
      /\ open' = open \cup {c}
      /\ pump' = [pump EXCEPT ![c] = "get"]
      /\ heard' = [heard EXCEPT ![c] = events]
      /\ UNCHANGED <<service, events, queue, wire, lines, result, calls, dropped>>
  BY DEF Connect, Goes, server
<1>2. Types /\ events \in Nat
  BY ControlAssumption DEF IInv, Types
<1>3. /\ queue[c] = <<>> /\ wire[c] = <<>> /\ lines[c] = <<>> /\ dropped[c] = {}
  BY <1>1 DEF IInv, NewInv
<1>4. /\ heard'[c] = events /\ handler'[c] = "read" /\ client'[c] = "up"
      /\ \A d \in Conns \ {c} : /\ heard'[d] = heard[d] /\ handler'[d] = handler[d]
                                /\ client'[d] = client[d] /\ pump'[d] = pump[d]
  BY <1>1, <1>2 DEF Types
<1>5. Types'
  BY <1>1, <1>2 DEF Types, Handlers
<1>6. EventInv'
  BY <1>1, <1>2, <1>4 DEF IInv, EventInv
<1>7. CallInv'
  <2>1. DOMAIN lines[c] = {} /\ DOMAIN wire[c] = {}
    BY <1>3
  <2>2. ASSUME NEW d \in Conns PROVE Runs(handler'[d], lines[d])
    <3>1. handler'[d] = handler[d] \/ handler'[d] = "read"
      BY <1>4
    <3>2. Runs(handler[d], lines[d])
      BY DEF IInv, CallInv
    <3> QED BY <3>1, <3>2 DEF Runs
  <2> QED BY <1>1, <1>4, <2>1, <2>2 DEF IInv, CallInv, Up
<1>8. NewInv'
  BY <1>1, <1>4 DEF IInv, NewInv
<1>9. EventsUnbroken'
  <2> SUFFICES ASSUME NEW d \in registered', client'[d] = "up"
               PROVE  Unbroken(wire[d], queue[d], heard'[d], events, dropped[d])
    BY <1>1 DEF EventsUnbroken, Up
  <2>1. Unbroken(<<>>, <<>>, events, events, {})
    BY <1>2 DEF Unbroken, Told
  <2>2. CASE d = c
    BY <1>3, <1>4, <2>1, <2>2
  <2>3. CASE d # c
    <3>1. d \in registered /\ d \in Conns /\ heard'[d] = heard[d] /\ client[d] = "up"
      BY <1>1, <1>2, <1>4, <2>3 DEF Types
    <3> QED BY <3>1 DEF IInv, EventsUnbroken, Up
  <2> QED BY <2>2, <2>3
<1> QED
  BY <1>5, <1>6, <1>7, <1>8, <1>9 DEF IInv

\* A call: the next place in the client's results, and the id of its command.
LEMMA CallStep == ASSUME IInv, NEW c \in Conns, Call(c) PROVE IInv'
<1> DEFINE n == Len(result[c]) + 1
           R == [how : {"waiting", "reply", "gone"}, of : Nat]
           C == [id : Nat, long : BOOLEAN]
           w == [how |-> "waiting", of |-> 0]
<1>1. PICK long \in BOOLEAN :
        lines' = IF c \notin open THEN lines
                 ELSE [lines EXCEPT ![c] = Append(@, [id |-> n, long |-> long])]
  BY DEF Call
<1>2. /\ Up(c) /\ calls < MaxCalls /\ calls' = calls + 1
      /\ result' = [result EXCEPT ![c] = Append(@, w)]
      /\ UNCHANGED <<service, events, handler, registered, open, queue, pump, wire, client,
                     heard, dropped>>
  BY DEF Call, Local, server, serverEnd
<1>3. Types /\ calls \in Nat /\ result[c] \in Seq(R) /\ lines[c] \in Seq(C)
  BY ControlAssumption DEF IInv, Types
<1>4. w \in R /\ w.how # "reply" /\ w.of \in 0 .. MaxCalls
  BY ControlAssumption
<1>5. Len(result[c]) <= calls /\ Len(result[c]) \in Nat
  BY <1>3 DEF IInv, CallInv
<1> DEFINE m == [id |-> n, long |-> long]
<1>6. n \in 1 .. MaxCalls /\ m \in C /\ m.id = n
  BY <1>2, <1>3, <1>5, ControlAssumption
<1> HIDE DEF w, m, R, C
<1>7. /\ result'[c] = Append(result[c], w) /\ \A d \in Conns \ {c} : result'[d] = result[d]
      /\ lines'[c] = lines[c] \/ lines'[c] = Append(lines[c], m)
      /\ \A d \in Conns \ {c} : lines'[d] = lines[d]
  BY <1>1, <1>2, <1>3 DEF Types, m
<1>8. /\ Len(result'[c]) = n
      /\ result'[c] \in Seq(R)
      /\ \A i \in DOMAIN result'[c] :
           result'[c][i] = w \/ (i \in DOMAIN result[c] /\ result'[c][i] = result[c][i])
  BY <1>3, <1>4, <1>7, Extended
<1>9. /\ lines'[c] \in Seq(C)
      /\ \A k \in DOMAIN lines'[c] :
           lines'[c][k] = m \/ (k \in DOMAIN lines[c] /\ lines'[c][k] = lines[c][k])
      /\ \A k \in DOMAIN lines[c] : k \in DOMAIN lines'[c] /\ lines'[c][k] = lines[c][k]
  <2>1. CASE lines'[c] = lines[c]
    BY <1>3, <2>1
  <2>2. CASE lines'[c] = Append(lines[c], m)
    BY <1>3, <1>6, <2>2, Extended
  <2> QED BY <1>7, <2>1, <2>2
<1>10. Types'
  <2>1. /\ result' = [result EXCEPT ![c] = result'[c]] /\ result \in [Conns -> Seq(R)]
        /\ lines' = [lines EXCEPT ![c] = lines'[c]] /\ lines \in [Conns -> Seq(C)]
    BY <1>1, <1>2, <1>3 DEF Types, R, C
  <2>2. result' \in [Conns -> Seq(R)] /\ lines' \in [Conns -> Seq(C)]
    BY <1>8, <1>9, <2>1
  <2>3. calls' \in 0 .. MaxCalls
    BY <1>2, <1>3, ControlAssumption
  <2> QED BY <1>2, <1>3, <2>2, <2>3 DEF Types, R, C
<1>11. EventInv'
  BY <1>2 DEF IInv, EventInv
<1>12. CallInv'
  <2>1. ASSUME NEW d \in Conns
        PROVE  Len(result[d]) <= Len(result'[d]) /\ Len(result[d]) \in Nat /\ Len(result'[d]) \in Nat
    <3>1. CASE d = c
      BY <1>5, <1>8, <3>1
    <3>2. CASE d # c
      <4>1. result[d] \in Seq(R) /\ result'[d] = result[d]
        BY <1>3, <1>7, <3>2 DEF Types, R
      <4> QED BY <4>1
    <3> QED BY <3>1, <3>2
  <2>2. ASSUME NEW d \in Conns, NEW k \in DOMAIN lines'[d]
        PROVE  lines'[d][k].id \in 1 .. MaxCalls /\ (Up(d) => lines'[d][k].id <= Len(result'[d]))
    <3>1. \/ d = c /\ lines'[d][k] = m
          \/ k \in DOMAIN lines[d] /\ lines'[d][k] = lines[d][k]
      BY <1>7, <1>9
    <3> QED BY <1>6, <1>8, <2>1, <3>1 DEF IInv, CallInv
  <2>3. ASSUME NEW d \in Conns, NEW k \in DOMAIN wire[d] \ Told(wire[d])
        PROVE  wire[d][k][2] \in 0 .. MaxCalls /\ (Up(d) => wire[d][k][2] <= Len(result'[d]))
    BY <2>1 DEF IInv, CallInv
  <2>4. ASSUME NEW d \in Conns, NEW i \in DOMAIN result'[d]
        PROVE  /\ result'[d][i].of \in 0 .. MaxCalls
               /\ result'[d][i].how = "reply" => result'[d][i].of = i
    <3>1. result'[d][i] = w \/ (i \in DOMAIN result[d] /\ result'[d][i] = result[d][i])
      BY <1>7, <1>8
    <3> QED BY <1>4, <3>1 DEF IInv, CallInv
  <2>5. ASSUME NEW d \in Conns PROVE Len(result'[d]) <= calls'
    BY <1>2, <1>3, <1>5, <1>7, <1>8, <2>1 DEF IInv, CallInv
  <2>6. ASSUME NEW d \in Conns PROVE Runs(handler[d], lines'[d])
    BY <1>7, <1>9 DEF IInv, CallInv, Runs
  <2> QED BY <1>2, <2>2, <2>3, <2>4, <2>5, <2>6 DEF CallInv, Up
<1>13. NewInv'
  BY <1>2, <1>7 DEF IInv, NewInv, Up
<1>14. EventsUnbroken'
  BY <1>2 DEF IInv, EventsUnbroken, Up
<1> QED
  BY <1>10, <1>11, <1>12, <1>13, <1>14 DEF IInv

\* The client reads the first message on its wire.
LEMMA ReadStep == ASSUME IInv, NEW c \in Conns, Read(c) PROVE IInv'
<1> DEFINE m == Head(wire[c])
           R == [how : {"waiting", "reply", "gone"}, of : Nat]
<1>1. /\ Up(c) /\ wire[c] # <<>>
      /\ wire' = [wire EXCEPT ![c] = Tail(@)]
      /\ UNCHANGED <<service, events, handler, registered, open, queue, pump, lines, client, calls>>
  BY DEF Read, Local, server, serverEnd
<1>2. /\ Types /\ wire[c] \in Seq(Message) /\ events \in Nat
      /\ result \in [Conns -> Seq(R)] /\ result[c] \in Seq(R)
  BY ControlAssumption DEF IInv, Types
<1>3. /\ Tail(wire[c]) \in Seq(Message)
      /\ 1 \in DOMAIN wire[c] /\ m = wire[c][1]
      /\ \A k \in DOMAIN Tail(wire[c]) :
           k + 1 \in DOMAIN wire[c] /\ Tail(wire[c])[k] = wire[c][k + 1]
  BY <1>1, <1>2, Shifted
<1>4. wire'[c] = Tail(wire[c]) /\ \A d \in Conns \ {c} : wire'[d] = wire[d]
  BY <1>1, <1>2 DEF Types
<1>5. wire' \in [Conns -> Seq(Message)]
  BY <1>1, <1>2, <1>3 DEF Types
<1>6. ASSUME NEW d \in Conns, NEW k \in DOMAIN wire'[d]
      PROVE  \E i \in DOMAIN wire[d] :
               wire'[d][k] = wire[d][i] /\ (k \in Told(wire'[d]) <=> i \in Told(wire[d]))
  <2>1. CASE d = c
    <3>1. k + 1 \in DOMAIN wire[d] /\ wire'[d][k] = wire[d][k + 1]
      BY <1>3, <1>4, <2>1
    <3> QED BY <3>1 DEF Told
  <2>2. CASE d # c
    BY <1>4, <2>2
  <2> QED BY <2>1, <2>2
<1>7. ASSUME NEW d \in Conns, NEW k \in Told(wire'[d])
      PROVE  wire'[d][k][2] \in 1 .. events
  <2>1. k \in DOMAIN wire'[d]
    BY DEF Told
  <2> QED BY <1>6, <2>1 DEF IInv, EventInv
<1>8. ASSUME NEW d \in Conns, NEW k \in DOMAIN wire'[d] \ Told(wire'[d])
      PROVE  wire'[d][k][2] \in 0 .. MaxCalls /\ (Up(d) => wire'[d][k][2] <= Len(result[d]))
  BY <1>6 DEF IInv, CallInv
<1>9. ASSUME \A d \in Conns \ {c} : dropped'[d] = dropped[d] PROVE NewInv'
  <2> SUFFICES ASSUME NEW d \in Conns, client[d] = "none"
               PROVE  /\ handler[d] = "none" /\ pump[d] = "none"
                      /\ d \notin registered /\ d \notin open
                      /\ queue[d] = <<>> /\ wire'[d] = <<>> /\ lines[d] = <<>>
                      /\ dropped'[d] = {}
    BY <1>1 DEF NewInv
  <2>1. d # c
    BY <1>1 DEF Up
  <2> QED BY <1>4, <1>9, <2>1 DEF IInv, NewInv
<1>10. CASE m[1] = "event" /\ ~(m[1] = "reply" /\ Answered(c, m[2]))
  <2>1. /\ heard' = [heard EXCEPT ![c] = m[2]]
        /\ dropped' = [dropped EXCEPT ![c] = @ \ (1 .. m[2])]
        /\ UNCHANGED result
    BY <1>10 DEF Read
  <2>2. 1 \in Told(wire[c]) /\ m[2] \in 1 .. events
    BY <1>3, <1>10 DEF Told, IInv, EventInv
  <2>3. /\ heard'[c] = m[2] /\ dropped'[c] = dropped[c] \ (1 .. m[2])
        /\ \A d \in Conns \ {c} : heard'[d] = heard[d] /\ dropped'[d] = dropped[d]
    BY <1>2, <2>1 DEF Types
  <2>4. Types'
    <3>1. heard' \in [Conns -> Nat] /\ dropped' \in [Conns -> SUBSET Nat]
      BY <1>2, <2>1, <2>2 DEF Types
    <3> QED BY <1>1, <1>2, <1>5, <2>1, <3>1 DEF Types
  <2>5. EventInv'
    <3>1. ASSUME NEW d \in Conns PROVE heard'[d] <= events /\ dropped'[d] \subseteq 1 .. events
      <4>1. heard[d] <= events /\ dropped[d] \subseteq 1 .. events
        BY DEF IInv, EventInv
      <4>2. CASE d = c
        BY <1>2, <2>2, <2>3, <4>1, <4>2
      <4>3. CASE d # c
        BY <2>3, <4>1, <4>3
      <4> QED BY <4>2, <4>3
    <3> QED BY <1>1, <1>7, <3>1 DEF IInv, EventInv
  <2>6. CallInv'
    BY <1>1, <1>8, <2>1 DEF IInv, CallInv, Up
  <2>7. EventsUnbroken'
    <3> SUFFICES ASSUME NEW d \in registered, Up(d)
                 PROVE  Unbroken(wire'[d], queue[d], heard'[d], events, dropped'[d])
      BY <1>1 DEF EventsUnbroken, Up
    <3>1. d \in Conns /\ Unbroken(wire[d], queue[d], heard[d], events, dropped[d])
      BY <1>2 DEF IInv, Types, EventsUnbroken
    <3>2. CASE d = c
      <4>1. heard[c] \in Nat
        BY <1>2 DEF Types
      <4>2. Unbroken(Tail(wire[c]), queue[c], m[2], events, dropped[c] \ (1 .. m[2]))
        BY <1>1, <1>2, <1>10, <3>1, <3>2, <4>1, Heard
      <4> QED BY <1>4, <2>3, <3>2, <4>2
    <3>3. CASE d # c
      BY <1>4, <2>3, <3>1, <3>3
    <3> QED BY <3>2, <3>3
  <2>8. NewInv'
    BY <1>9, <2>3
  <2> QED BY <2>4, <2>5, <2>6, <2>7, <2>8 DEF IInv
<1>11. CASE m[1] = "reply" /\ Answered(c, m[2])
  <2> DEFINE id == m[2]
             r == [how |-> "reply", of |-> id]
  <2>0. UNCHANGED <<heard, dropped>>
    BY <1>11 DEF Read
  <2>1. id \in 0 .. MaxCalls /\ (id # 0 => id \in DOMAIN result[c]) /\ r \in R
    <3>1. 1 \in DOMAIN wire[c] \ Told(wire[c])
      BY <1>3, <1>11 DEF Told
    <3> QED BY <1>1, <1>2, <1>3, <3>1 DEF IInv, CallInv
  <2>2. \/ id # 0 /\ result' = [result EXCEPT ![c][id] = r]
        \/ UNCHANGED result
    BY <1>11 DEF Answered
  <2>3. ASSUME NEW d \in Conns
        PROVE  /\ result'[d] \in Seq(R) /\ Len(result'[d]) = Len(result[d])
               /\ \A i \in DOMAIN result'[d] :
                    \/ i \in DOMAIN result[d] /\ result'[d][i] = result[d][i]
                    \/ i = id /\ result'[d][i] = r
    <3> HIDE DEF id, r, R
    <3>1. CASE d = c /\ id # 0 /\ result' = [result EXCEPT ![c][id] = r]
      <4>1. result'[c] = [result[c] EXCEPT ![id] = r]
        BY <1>2, <3>1
      <4> QED BY <1>2, <2>1, <3>1, <4>1
    <3>2. CASE result'[d] = result[d]
      BY <1>2, <3>2
    <3> QED BY <1>2, <2>2, <3>1, <3>2
  <2>4. Types'
    <3>1. result' = [d \in Conns |-> result'[d]]
      BY <1>2, <2>2
    <3>2. result' \in [Conns -> Seq(R)]
      BY <2>3, <3>1
    <3> QED BY <1>1, <1>2, <1>5, <2>0, <3>2 DEF Types
  <2>5. EventInv'
    BY <1>1, <1>7, <2>0 DEF IInv, EventInv
  <2>6. CallInv'
    <3>1. ASSUME NEW d \in Conns, NEW i \in DOMAIN result'[d]
          PROVE  /\ result'[d][i].of \in 0 .. MaxCalls
                 /\ result'[d][i].how = "reply" => result'[d][i].of = i
      BY <2>1, <2>3 DEF IInv, CallInv
    <3> QED BY <1>1, <1>8, <2>3, <3>1 DEF IInv, CallInv, Up
  <2>7. EventsUnbroken'
    <3> SUFFICES ASSUME NEW d \in registered, Up(d)
                 PROVE  Unbroken(wire'[d], queue[d], heard[d], events, dropped[d])
      BY <1>1, <2>0 DEF EventsUnbroken, Up
    <3>1. d \in Conns /\ Unbroken(wire[d], queue[d], heard[d], events, dropped[d])
      BY <1>2 DEF IInv, Types, EventsUnbroken
    <3>2. CASE d = c
      BY <1>1, <1>2, <1>4, <1>11, <3>1, <3>2, ReplyRead
    <3>3. CASE d # c
      BY <1>4, <3>1, <3>3
    <3> QED BY <3>2, <3>3
  <2>8. NewInv'
    BY <1>9, <2>0
  <2> QED BY <2>4, <2>5, <2>6, <2>7, <2>8 DEF IInv
<1> QED
  BY <1>10, <1>11 DEF Read

\* A call ends without its reply.
LEMMA GiveUpStep == ASSUME IInv, NEW c \in Conns, GiveUp(c) PROVE IInv'
<1> DEFINE R == [how : {"waiting", "reply", "gone"}, of : Nat]
           g == [how |-> "gone", of |-> 0]
           f == Front(result[c])
<1>1. /\ Up(c) /\ result[c] # <<>>
      /\ result' = [result EXCEPT ![c] = Append(Front(@), g)]
      /\ UNCHANGED <<service, events, handler, registered, open, queue, pump, wire, lines, client,
                     heard, calls, dropped>>
  BY DEF GiveUp, InCall, Ends, Local, server, serverEnd
<1>2. Types /\ result \in [Conns -> Seq(R)] /\ result[c] \in Seq(R)
  BY DEF IInv, Types
<1>3. g \in R /\ g.how # "reply" /\ g.of \in 0 .. MaxCalls
  BY ControlAssumption
<1> HIDE DEF R, g
<1>4. /\ f \in Seq(R) /\ Len(f) = Len(result[c]) - 1
      /\ \A k \in DOMAIN f : k \in DOMAIN result[c] /\ f[k] = result[c][k]
  <2>1. Len(result[c]) \in Nat \ {0} /\ DOMAIN result[c] = 1 .. Len(result[c])
    BY <1>1, <1>2
  <2>2. Len(f) = Len(result[c]) - 1
    BY <1>2, <2>1 DEF Front
  <2>3. /\ SubSeq(result[c], 1, Len(result[c]) - 1) \in Seq(R)
        /\ \A k \in DOMAIN SubSeq(result[c], 1, Len(result[c]) - 1) :
             /\ k \in DOMAIN result[c]
             /\ SubSeq(result[c], 1, Len(result[c]) - 1)[k] = result[c][k]
    BY <1>2, <2>1, Cut
  <2> QED BY <2>2, <2>3 DEF Front
<1> HIDE DEF f
<1>5. result'[c] = Append(f, g) /\ \A d \in Conns \ {c} : result'[d] = result[d]
  BY <1>1, <1>2 DEF f
<1>6. /\ result'[c] \in Seq(R) /\ Len(result'[c]) = Len(result[c])
      /\ \A i \in DOMAIN result'[c] :
           result'[c][i] = g \/ (i \in DOMAIN result[c] /\ result'[c][i] = result[c][i])
  <2>1. Len(result[c]) \in Nat
    BY <1>2
  <2>2. /\ Append(f, g) \in Seq(R) /\ Len(Append(f, g)) = Len(f) + 1
        /\ DOMAIN Append(f, g) = DOMAIN f \cup {Len(f) + 1}
        /\ \A k \in DOMAIN f : Append(f, g)[k] = f[k]
        /\ Append(f, g)[Len(f) + 1] = g
    BY <1>3, <1>4, Extended
  <2> QED BY <1>4, <1>5, <2>1, <2>2
<1>7. Types'
  <2>1. result' = [result EXCEPT ![c] = result'[c]]
    BY <1>1, <1>2
  <2>2. result' \in [Conns -> Seq(R)]
    BY <1>2, <1>6, <2>1
  <2> QED BY <1>1, <1>2, <2>2 DEF Types, R
<1>8. EventInv'
  BY <1>1 DEF IInv, EventInv
<1>9. CallInv'
  <2>1. ASSUME NEW d \in Conns PROVE Len(result'[d]) = Len(result[d])
    BY <1>5, <1>6
  <2>2. ASSUME NEW d \in Conns, NEW i \in DOMAIN result'[d]
        PROVE  /\ result'[d][i].of \in 0 .. MaxCalls
               /\ result'[d][i].how = "reply" => result'[d][i].of = i
    <3>1. result'[d][i] = g \/ (i \in DOMAIN result[d] /\ result'[d][i] = result[d][i])
      BY <1>5, <1>6
    <3> QED BY <1>3, <3>1 DEF IInv, CallInv
  <2> QED BY <1>1, <2>1, <2>2 DEF IInv, CallInv, Up
<1>10. NewInv'
  BY <1>1 DEF IInv, NewInv
<1>11. EventsUnbroken'
  BY <1>1 DEF IInv, EventsUnbroken, Up
<1> QED
  BY <1>7, <1>8, <1>9, <1>10, <1>11 DEF IInv

\* A client goes, and with it, perhaps, what it has not read and what the service has not.
LEMMA LeaveStep == ASSUME IInv, NEW c \in Conns, Lost(c) \/ Close(c) PROVE IInv'
<1> DEFINE C == [id : Nat, long : BOOLEAN]
<1>1. /\ client' = [client EXCEPT ![c] = "closed"]
      /\ result' = [result EXCEPT ![c] = <<>>]
      /\ heard' = [heard EXCEPT ![c] = 0]
      /\ dropped' = [dropped EXCEPT ![c] = {}]
      /\ UNCHANGED <<service, events, handler, registered, open, queue, pump, calls>>
  BY DEF Lost, Close, Leaves, Local, server, serverEnd
<1>2. /\ Types /\ lines \in [Conns -> Seq(C)] /\ wire \in [Conns -> Seq(Message)]
      /\ events \in Nat /\ calls \in Nat
  BY ControlAssumption DEF IInv, Types
<1> HIDE DEF C
<1>3. /\ wire' = [wire EXCEPT ![c] = wire'[c]]
      /\ wire'[c] = wire[c] \/ wire'[c] = <<>>
  BY <1>2 DEF Lost, Close
<1>4. /\ lines' = [lines EXCEPT ![c] = lines'[c]]
      /\ lines'[c] \in Seq(C)
      /\ \A k \in DOMAIN lines'[c] : k \in DOMAIN lines[c] /\ lines'[c][k] = lines[c][k]
      /\ Runs(handler[c], lines'[c])
  <2>0. Runs(handler[c], lines[c])
    BY DEF IInv, CallInv
  <2>1. CASE Lost(c)
    BY <1>2, <2>0, <2>1 DEF Lost
  <2>2. CASE Close(c)
    <3>1. PICK n \in 0 .. Len(lines[c]) :
            /\ handler[c] \in {"run", "emit"} => n > 0
            /\ lines' = [lines EXCEPT ![c] = SubSeq(@, 1, n)]
      BY <2>2 DEF Close
    <3>2. Len(lines[c]) \in Nat
      BY <1>2
    <3>3. lines'[c] = SubSeq(lines[c], 1, n) /\ n \in Int /\ n <= Len(lines[c])
      BY <1>2, <3>1, <3>2
    <3>4. /\ lines'[c] \in Seq(C)
          /\ \A k \in DOMAIN lines'[c] : k \in DOMAIN lines[c] /\ lines'[c][k] = lines[c][k]
          /\ n > 0 => 1 \in DOMAIN lines'[c]
      <4>1. lines[c] \in Seq(C)
        BY <1>2
      <4> QED BY <3>3, <4>1, Cut
    <3>5. Runs(handler[c], lines'[c])
      BY <2>0, <3>1, <3>4 DEF Runs
    <3> QED BY <1>2, <3>1, <3>4, <3>5
  <2> QED BY <2>1, <2>2
<1>5. /\ client'[c] = "closed" /\ result'[c] = <<>> /\ heard'[c] = 0 /\ dropped'[c] = {}
      /\ \A d \in Conns \ {c} :
           /\ client'[d] = client[d] /\ result'[d] = result[d] /\ heard'[d] = heard[d]
           /\ dropped'[d] = dropped[d] /\ wire'[d] = wire[d] /\ lines'[d] = lines[d]
  BY <1>1, <1>2, <1>3, <1>4 DEF Types
<1>6. Types'
  <2>1. wire' \in [Conns -> Seq(Message)]
    <3>1. wire'[c] \in Seq(Message)
      <4>1. wire[c] \in Seq(Message) /\ <<>> \in Seq(Message)
        BY <1>2
      <4> QED BY <1>3, <4>1
    <3> QED BY <1>2, <1>3, <3>1
  <2>2. lines' \in [Conns -> Seq(C)]
    BY <1>2, <1>4
  <2>3. /\ client' \in [Conns -> {"none", "up", "closed"}]
        /\ result' \in [Conns -> Seq([how : {"waiting", "reply", "gone"}, of : Nat])]
        /\ heard' \in [Conns -> Nat] /\ dropped' \in [Conns -> SUBSET Nat]
    BY <1>1, <1>2 DEF Types
  <2> QED BY <1>1, <1>2, <2>1, <2>2, <2>3 DEF Types, C
<1>7. ASSUME NEW d \in Conns, NEW k \in DOMAIN wire'[d]
      PROVE  wire'[d] = wire[d]
  BY <1>3, <1>5
<1>8. EventInv'
  <2>1. ASSUME NEW d \in Conns, NEW k \in Told(wire'[d]) PROVE wire'[d][k][2] \in 1 .. events
    <3>1. wire'[d] = wire[d]
      BY <1>7 DEF Told
    <3> QED BY <3>1 DEF IInv, EventInv
  <2>2. ASSUME NEW d \in Conns PROVE heard'[d] <= events /\ dropped'[d] \subseteq 1 .. events
    <3>1. CASE d = c
      BY <1>2, <1>5, <3>1 DEF Types
    <3>2. CASE d # c
      BY <1>5, <3>2 DEF IInv, EventInv
    <3> QED BY <3>1, <3>2
  <2> QED BY <1>1, <2>1, <2>2 DEF IInv, EventInv
<1>9. CallInv'
  <2>1. ASSUME NEW d \in Conns PROVE Runs(handler'[d], lines'[d])
    BY <1>1, <1>4, <1>5 DEF IInv, CallInv
  <2>2. ASSUME NEW d \in Conns, NEW k \in DOMAIN lines'[d]
        PROVE  /\ lines'[d][k].id \in 1 .. MaxCalls
               /\ client'[d] = "up" => lines'[d][k].id <= Len(result'[d])
    BY <1>4, <1>5 DEF IInv, CallInv, Up
  <2>3. ASSUME NEW d \in Conns, NEW k \in DOMAIN wire'[d] \ Told(wire'[d])
        PROVE  /\ wire'[d][k][2] \in 0 .. MaxCalls
               /\ client'[d] = "up" => wire'[d][k][2] <= Len(result'[d])
    <3>1. wire'[d] = wire[d]
      BY <1>7
    <3> QED BY <1>5, <3>1 DEF IInv, CallInv, Up
  <2>4. ASSUME NEW d \in Conns
        PROVE  /\ Len(result'[d]) <= calls
               /\ \A i \in DOMAIN result'[d] :
                    /\ result'[d][i].of \in 0 .. MaxCalls
                    /\ result'[d][i].how = "reply" => result'[d][i].of = i
    <3>1. CASE d = c
      <4>1. Len(result'[d]) = 0 /\ DOMAIN result'[d] = {}
        BY <1>5, <3>1
      <4> QED BY <1>2, <4>1
    <3>2. CASE d # c
      BY <1>5, <3>2 DEF IInv, CallInv
    <3> QED BY <3>1, <3>2
  <2> QED BY <1>1, <2>1, <2>2, <2>3, <2>4 DEF CallInv, Up
<1>10. NewInv'
  BY <1>1, <1>5 DEF IInv, NewInv
<1>11. EventsUnbroken'
  <2> SUFFICES ASSUME NEW d \in registered, client'[d] = "up"
               PROVE  Unbroken(wire'[d], queue[d], heard'[d], events, dropped'[d])
    BY <1>1 DEF EventsUnbroken, Up
  <2>1. d \in Conns
    BY <1>2 DEF Types
  <2> QED BY <1>5, <2>1 DEF IInv, EventsUnbroken, Up
<1> QED
  BY <1>6, <1>8, <1>9, <1>10, <1>11 DEF IInv

-----------------------------------------------------------------------------
(* No call is forgotten.                                                   *)

\* As much as NoneForgotten says of one call.
Expected(l, w, id) == Coming(l, w, id) \/ Overlong(l)

\* A message is written behind those on the wire.
LEMMA ComingWritten ==
  ASSUME NEW l, NEW w \in Seq(Message), NEW m \in Message, NEW id, Expected(l, w, id)
  PROVE  Expected(l, Append(w, m), id)
<1>1. DOMAIN w \subseteq DOMAIN Append(w, m) /\ \A k \in DOMAIN w : Append(w, m)[k] = w[k]
  BY Extended
<1> QED
  BY <1>1 DEF Expected, Coming

\* The client reads a message that is not this call's reply.
LEMMA ComingRead ==
  ASSUME NEW l, NEW w \in Seq(Message), w # <<>>, NEW id, Head(w) # <<"reply", id>>,
         Expected(l, w, id)
  PROVE  Expected(l, Tail(w), id)
<1>1. /\ Head(w) = w[1]
      /\ \A k \in DOMAIN w : k = 1 \/ (k - 1 \in DOMAIN Tail(w) /\ Tail(w)[k - 1] = w[k])
  BY Shifted
<1> QED
  BY <1>1 DEF Expected, Coming

\* The service executes the first command and writes its reply.
LEMMA ComingRun ==
  ASSUME NEW S, NEW l \in Seq(S), l # <<>>, NEW w \in Seq(Message), Head(l).id \in Nat,
         ~l[1].long, NEW id, Expected(l, w, id)
  PROVE  Expected(Tail(l), Append(w, <<"reply", Head(l).id>>), id)
<1> DEFINE m == <<"reply", Head(l).id>>
           v == Append(w, m)
<1>1. /\ Head(l) = l[1]
      /\ \A k \in DOMAIN l : k = 1 \/ (k - 1 \in DOMAIN Tail(l) /\ Tail(l)[k - 1] = l[k])
  BY Shifted
<1>2. m \in Message
  BY DEF Message
<1> HIDE DEF m
<1>3. Len(w) + 1 \in DOMAIN v /\ v[Len(w) + 1] = m
  BY <1>2, Extended
<1> HIDE DEF v
<1>4. CASE \E k \in DOMAIN l : l[k].id = id
  <2>1. PICK k \in DOMAIN l : l[k].id = id
    BY <1>4
  <2>2. CASE k = 1
    <3>1. m = <<"reply", id>>
      BY <1>1, <2>1, <2>2 DEF m
    <3>2. Expected(Tail(l), v, id)
      BY <1>3, <3>1 DEF Expected, Coming
    <3> QED BY <3>2 DEF v, m
  <2>3. CASE k # 1
    <3>1. Expected(Tail(l), v, id)
      BY <1>1, <2>1, <2>3 DEF Expected, Coming
    <3> QED BY <3>1 DEF v, m
  <2> QED BY <2>2, <2>3
<1>5. CASE \E k \in DOMAIN w : w[k] = <<"reply", id>>
  <2>1. Expected(Tail(l), w, id)
    BY <1>5 DEF Expected, Coming
  <2>2. Expected(Tail(l), v, id)
    BY <1>2, <2>1, ComingWritten DEF v
  <2> QED BY <2>2 DEF v, m
<1>6. CASE Overlong(l)
  <2>1. Overlong(Tail(l))
    BY <1>1, <1>6 DEF Overlong
  <2> QED BY <2>1 DEF Expected
<1> QED
  BY <1>4, <1>5, <1>6 DEF Expected, Coming

\* A client that has not connected has made no call.
NewCalls == \A c \in Conns : client[c] = "none" => result[c] = <<>>

KeptInv == NewCalls /\ NoneForgotten

\* The command of a new call is sent, if the connection is open.
LEMMA CallKept == ASSUME IInv, KeptInv, NEW c \in Conns, Call(c) PROVE KeptInv'
<1> DEFINE n == Len(result[c]) + 1
           R == [how : {"waiting", "reply", "gone"}, of : Nat]
           C == [id : Nat, long : BOOLEAN]
           r == [how |-> "waiting", of |-> 0]
<1>1. PICK long \in BOOLEAN :
        lines' = IF c \notin open THEN lines
                 ELSE [lines EXCEPT ![c] = Append(@, [id |-> n, long |-> long])]
  BY DEF Call
<1> DEFINE m == [id |-> n, long |-> long]
<1>2. /\ Up(c) /\ result' = [result EXCEPT ![c] = Append(@, r)]
      /\ UNCHANGED <<open, wire, client>>
  BY DEF Call, Local, serverEnd
<1>3. /\ Types /\ result \in [Conns -> Seq(R)] /\ result[c] \in Seq(R)
      /\ lines \in [Conns -> Seq(C)] /\ lines[c] \in Seq(C) /\ open \subseteq Conns
  BY DEF IInv, Types
<1>4. r \in R /\ n \in Nat
  BY <1>3
<1>5. m \in C /\ m.id = n
  BY <1>4
<1> HIDE DEF C, R, r, m
<1>6. result'[c] = Append(result[c], r) /\ Len(result'[c]) = n
  <2>1. Len(Append(result[c], r)) = n
    BY <1>3, <1>4, Extended
  <2> QED BY <1>2, <1>3, <2>1
<1>7. \A d \in Conns \ {c} : result'[d] = result[d] /\ lines'[d] = lines[d]
  BY <1>1, <1>2, <1>3
<1>8. c \in open => Coming(lines'[c], wire'[c], n)
  <2> SUFFICES ASSUME c \in open PROVE Coming(lines'[c], wire'[c], n)
    OBVIOUS
  <2>1. lines'[c] = Append(lines[c], m)
    BY <1>1, <1>3 DEF m
  <2>2. Len(lines[c]) + 1 \in DOMAIN Append(lines[c], m)
        /\ Append(lines[c], m)[Len(lines[c]) + 1] = m
    BY <1>3, <1>5, Extended
  <2> QED BY <1>5, <2>1, <2>2 DEF Coming
<1>9. NewCalls'
  BY <1>2, <1>7 DEF KeptInv, NewCalls, Up
<1>10. ASSUME NEW d \in open, client[d] = "up", result'[d] # <<>>, Last(result'[d]).how = "waiting"
       PROVE  Expected(lines'[d], wire'[d], Len(result'[d]))
  <2>1. CASE d = c
    BY <1>6, <1>8, <2>1 DEF Expected
  <2>2. CASE d # c
    BY <1>2, <1>3, <1>7, <1>10, <2>2 DEF KeptInv, NoneForgotten, InCall, Up, Expected
  <2> QED BY <2>1, <2>2
<1> QED
  BY <1>2, <1>9, <1>10 DEF KeptInv, NoneForgotten, InCall, Up, Expected

\* What a client reads is an event, or it ends the call that it answers.
LEMMA ReadKept == ASSUME IInv, KeptInv, NEW c \in Conns, Read(c) PROVE KeptInv'
<1> DEFINE m == Head(wire[c])
           R == [how : {"waiting", "reply", "gone"}, of : Nat]
           n == Len(result[c])
<1>1. /\ Up(c) /\ wire[c] # <<>>
      /\ wire' = [wire EXCEPT ![c] = Tail(@)]
      /\ UNCHANGED <<open, lines, client>>
  BY DEF Read, Local, serverEnd
<1>2. /\ Types /\ wire[c] \in Seq(Message) /\ open \subseteq Conns
      /\ result \in [Conns -> Seq(R)] /\ result[c] \in Seq(R) /\ n \in Nat
  BY DEF IInv, Types
<1>3. 1 \in DOMAIN wire[c] /\ m = wire[c][1] /\ m \in Message
  BY <1>1, <1>2, Shifted, Element
<1> HIDE DEF R
<1>4. wire'[c] = Tail(wire[c]) /\ \A d \in Conns \ {c} : wire'[d] = wire[d]
  BY <1>1, <1>2 DEF Types
<1>5. \/ m[1] = "event" /\ result' = result
      \/ m = <<"reply", 0>> /\ result' = result
      \/ /\ m[1] = "reply" /\ m[2] \in DOMAIN result[c]
         /\ \/ result' = [result EXCEPT ![c][m[2]] = [how |-> "reply", of |-> m[2]]]
            \/ result' = result /\ result[c][m[2]].how # "waiting"
  <2>1. CASE m[1] = "event" /\ UNCHANGED result
    BY <2>1
  <2>2. CASE m[1] = "reply" /\ Answered(c, m[2])
    <3>1. 1 \in DOMAIN wire[c] \ Told(wire[c])
      BY <1>3, <2>2 DEF Told
    <3>2. m[2] \in 0 .. MaxCalls /\ m[2] <= Len(result[c])
      BY <1>1, <1>3, <3>1 DEF IInv, CallInv
    <3>3. CASE m[2] = 0
      <4>1. m = <<"reply", 0>>
        BY <1>3, <2>2, <3>3 DEF Message
      <4> QED BY <2>2, <3>3, <4>1 DEF Answered
    <3>4. CASE m[2] # 0
      <4>1. m[2] \in DOMAIN result[c]
        BY <1>2, <3>2, <3>4, ControlAssumption
      <4> QED BY <2>2, <3>4, <4>1 DEF Answered
    <3> QED BY <3>3, <3>4
  <2> QED BY <2>1, <2>2 DEF Read
<1>6. \A d \in Conns \ {c} : result'[d] = result[d]
  BY <1>2, <1>5
<1>7. Len(result'[c]) = n
  BY <1>2, <1>5
<1>8. m[1] = "reply" /\ m[2] = n /\ n # 0 => result'[c][n].how # "waiting"
  BY <1>2, <1>5
<1>9. m[1] = "reply" /\ m[2] # n => result'[c][n] = result[c][n]
  BY <1>2, <1>5
<1>10. NewCalls'
  BY <1>1, <1>6 DEF KeptInv, NewCalls, Up
<1>11. ASSUME c \in open, result'[c] # <<>>, Last(result'[c]).how = "waiting"
       PROVE  Expected(lines[c], wire'[c], Len(result'[c]))
  <2>1. Last(result'[c]) = result'[c][n] /\ Last(result[c]) = result[c][n]
    BY <1>7 DEF Last
  <2>2. result[c] # <<>>
    <3>2. CASE result' = result
      BY <1>11, <3>2
    <3>3. CASE m[2] \in DOMAIN result[c]
      BY <1>2, <3>3
    <3> QED BY <1>5, <3>2, <3>3
  <2>0. n # 0
    BY <1>2, <2>2
  <2>3. m # <<"reply", n>> /\ result'[c][n] = result[c][n]
    BY <1>5, <1>8, <1>9, <1>11, <2>0, <2>1
  <2>4. Expected(lines[c], wire[c], n)
    BY <1>1, <1>11, <2>1, <2>2, <2>3 DEF KeptInv, NoneForgotten, InCall, Expected
  <2> HIDE DEF n
  <2>5. Expected(lines[c], Tail(wire[c]), n)
    BY <1>1, <1>2, <2>3, <2>4, ComingRead
  <2> QED BY <1>4, <1>7, <2>5
<1>12. ASSUME NEW d \in open, client[d] = "up", result'[d] # <<>>, Last(result'[d]).how = "waiting"
       PROVE  Expected(lines[d], wire'[d], Len(result'[d]))
  <2>1. CASE d = c
    BY <1>11, <1>12, <2>1
  <2>2. CASE d # c
    BY <1>2, <1>4, <1>6, <1>12, <2>2 DEF KeptInv, NoneForgotten, InCall, Up, Expected
  <2> QED BY <2>1, <2>2
<1> QED
  BY <1>1, <1>10, <1>12 DEF KeptInv, NoneForgotten, InCall, Up, Expected

\* The service answers, tells of an event, or moves on.
LEMMA ServeKept == ASSUME IInv, KeptInv, NEW c \in Conns, Serve(c) PROVE KeptInv'
<1>1. /\ UNCHANGED <<client, result>> /\ open' \subseteq open
      /\ Types /\ open \subseteq Conns
  BY DEF Serve, Pump, PumpDrained, ReadCommand, RefuseLine, Refused, Run, Replied,
         EndOfStream, Unwind, Write, Broadcast, Quiet, clientEnd, IInv, Types
<1>2. ASSUME NEW d \in open', client[d] = "up", NEW id, Expected(lines[d], wire[d], id)
      PROVE  Expected(lines'[d], wire'[d], id)
  <2>0. d \in Conns /\ Up(d) /\ wire[d] \in Seq(Message)
    BY <1>1, <1>2 DEF Up, Types
  <2>1. CASE Pump(c)
    <3> DEFINE m == <<"event", Head(queue[c])>>
    <3>1. Write(c, m) /\ lines' = lines /\ queue[c] # <<>>
      BY <2>1 DEF Pump
    <3>2. m \in Message
      <4>1. queue[c] \in Seq(Nat)
        BY <1>1 DEF Types
      <4> QED BY <3>1, <4>1 DEF Message
    <3> HIDE DEF m
    <3>3. wire'[d] = wire[d] \/ wire'[d] = Append(wire[d], m)
      BY <1>1, <2>0, <3>1, <3>2, Written
    <3> QED BY <1>2, <2>0, <3>1, <3>2, <3>3, ComingWritten
  <2>2. CASE Run(c)
    <3> DEFINE C == [id : Nat, long : BOOLEAN]
               m == <<"reply", Head(lines[c]).id>>
    <3>1. /\ Write(c, m) /\ lines' = [lines EXCEPT ![c] = Tail(@)]
          /\ handler[c] \in {"run", "emit"}
      BY <2>2 DEF Run, Goes
    <3>2. /\ lines \in [Conns -> Seq(C)] /\ lines[c] \in Seq(C)
          /\ lines[c] # <<>> /\ Head(lines[c]).id \in Nat /\ ~lines[c][1].long
      <4>1. lines \in [Conns -> Seq(C)] /\ lines[c] \in Seq(C)
        BY <1>1 DEF Types
      <4>2. Runs(handler[c], lines[c])
        BY DEF IInv, CallInv
      <4>3. 1 \in DOMAIN lines[c] /\ ~lines[c][1].long
        BY <3>1, <4>2 DEF Runs
      <4>4. lines[c] # <<>> /\ lines[c][1].id \in 1 .. MaxCalls
        BY <4>3 DEF IInv, CallInv
      <4> HIDE DEF C
      <4>5. Head(lines[c]) = lines[c][1]
        BY <4>1, <4>4, Shifted
      <4> QED BY <4>1, <4>3, <4>4, <4>5
    <3>3. m \in Message
      BY <3>2 DEF Message
    <3> HIDE DEF C
    <3>4. CASE d = c
      <4>1. lines'[c] = Tail(lines[c])
        BY <3>1, <3>2
      <4>2. wire'[c] = Append(wire[c], m)
        BY <1>1, <2>0, <3>1, <3>3, <3>4, Written
      <4>3. Expected(Tail(lines[c]), Append(wire[c], m), id)
        BY <1>2, <2>0, <3>2, <3>4, ComingRun
      <4> QED BY <3>4, <4>1, <4>2, <4>3
    <3>5. CASE d # c
      <4>1. wire'[d] = wire[d]
        BY <1>1, <2>0, <3>1, <3>3, <3>5, Written
      <4>2. lines'[d] = lines[d]
        BY <2>0, <3>1, <3>2, <3>5
      <4> QED BY <1>2, <4>1, <4>2
    <3> QED BY <3>4, <3>5
  <2>3. CASE RefuseLine(c)
    <3> DEFINE m == <<"reply", 0>>
    <3>1. Write(c, m) /\ lines' = lines
      BY <2>3 DEF RefuseLine
    <3>2. m \in Message
      BY DEF Message
    <3> HIDE DEF m
    <3>3. wire'[d] = wire[d] \/ wire'[d] = Append(wire[d], m)
      BY <1>1, <2>0, <3>1, <3>2, Written
    <3> QED BY <1>2, <2>0, <3>1, <3>2, <3>3, ComingWritten
  <2>4. CASE UNCHANGED <<wire, lines>>
    BY <1>2, <2>4
  <2> QED
    BY <2>1, <2>2, <2>3, <2>4
       DEF Serve, PumpDrained, ReadCommand, Refused, Replied, EndOfStream, Unwind
<1>3. ASSUME NEW d \in open', InCall(d)' PROVE Expected(lines'[d], wire'[d], Len(result'[d]))
  <2>1. d \in open /\ InCall(d) /\ client[d] = "up" /\ result'[d] = result[d]
    BY <1>1, <1>3 DEF InCall, Up
  <2>2. Expected(lines[d], wire[d], Len(result[d]))
    BY <2>1 DEF KeptInv, NoneForgotten, Expected
  <2> QED BY <1>2, <2>1, <2>2
<1>4. NewCalls'
  BY <1>1 DEF KeptInv, NewCalls
<1> QED
  BY <1>3, <1>4 DEF KeptInv, NoneForgotten, Expected

\* A client connects, gives a call up, or leaves.
LEMMA UseKept ==
  ASSUME IInv, KeptInv, NEW c \in Conns, Connect(c) \/ GiveUp(c) \/ Lost(c) \/ Close(c)
  PROVE  KeptInv'
<1>1. /\ \A d \in Conns \ {c} : /\ client'[d] = client[d] /\ result'[d] = result[d]
                                /\ lines'[d] = lines[d] /\ wire'[d] = wire[d]
                                /\ d \in open' => d \in open
      /\ open' \subseteq Conns
      /\ client'[c] # "none"
      /\ ~InCall(c)'
  <2>0. Types
    BY DEF IInv
  <2>1. CASE Connect(c)
    <3>1. /\ client' = [client EXCEPT ![c] = "up"] /\ client[c] = "none"
          /\ open' = open \cup {c}
          /\ UNCHANGED <<wire, lines, result>>
      BY <2>1 DEF Connect
    <3>2. result[c] = <<>>
      BY <3>1 DEF KeptInv, NewCalls
    <3> QED BY <2>0, <3>1, <3>2 DEF Types, InCall
  <2>2. CASE GiveUp(c)
    <3> DEFINE g == [how |-> "gone", of |-> 0]
               R == [how : {"waiting", "reply", "gone"}, of : Nat]
    <3>1. /\ Up(c) /\ result[c] # <<>>
          /\ result' = [result EXCEPT ![c] = Append(Front(@), g)]
          /\ UNCHANGED <<open, client, wire, lines>>
      BY <2>2 DEF GiveUp, InCall, Ends, Local, serverEnd
    <3>2. result \in [Conns -> Seq(R)] /\ result[c] \in Seq(R)
      BY <2>0 DEF Types
    <3>3. g \in R /\ g.how # "waiting"
      OBVIOUS
    <3> HIDE DEF g, R
    <3>4. Front(result[c]) \in Seq(R)
      <4>1. Len(result[c]) - 1 \in Int /\ Len(result[c]) - 1 <= Len(result[c])
        BY <3>2
      <4>2. SubSeq(result[c], 1, Len(result[c]) - 1) \in Seq(R)
        BY <3>2, <4>1, Cut
      <4> QED BY <4>2 DEF Front
    <3>5. Last(Append(Front(result[c]), g)) = g
      BY <3>3, <3>4, Extended DEF Last
    <3>6. result'[c] = Append(Front(result[c]), g) /\ \A d \in Conns \ {c} : result'[d] = result[d]
      BY <3>1, <3>2
    <3> QED BY <2>0, <3>1, <3>3, <3>5, <3>6 DEF Types, InCall, Up
  <2>3. CASE Lost(c) \/ Close(c)
    <3>1. client' = [client EXCEPT ![c] = "closed"] /\ result' = [result EXCEPT ![c] = <<>>]
          /\ UNCHANGED open
      BY <2>3 DEF Lost, Close, Leaves, Local, serverEnd
    <3>2. \A d \in Conns \ {c} : lines'[d] = lines[d] /\ wire'[d] = wire[d]
      BY <2>0, <2>3 DEF Lost, Close, Types
    <3> QED BY <2>0, <3>1, <3>2 DEF Types, InCall, Up
  <2> QED BY <2>1, <2>2, <2>3
<1>2. NewCalls'
  BY <1>1 DEF KeptInv, NewCalls
<1>3. ASSUME NEW d \in open', InCall(d)' PROVE Expected(lines'[d], wire'[d], Len(result'[d]))
  <2>1. d \in Conns \ {c}
    BY <1>1, <1>3
  <2> QED BY <1>1, <1>3, <2>1 DEF KeptInv, NoneForgotten, InCall, Up, Expected
<1> QED
  BY <1>2, <1>3 DEF KeptInv, NoneForgotten, Expected

\* No step forgets a call.
LEMMA Kept == IInv /\ KeptInv /\ [Next]_vars => KeptInv'
<1> SUFFICES ASSUME IInv, KeptInv, [Next]_vars PROVE KeptInv'
  OBVIOUS
<1>1. CASE Emit \/ Stop \/ UNCHANGED vars
  <2>1. UNCHANGED <<open, lines, wire, client, result>>
    BY <1>1 DEF Emit, Stop, Broadcast, vars, server, serverEnd, clientEnd
  <2> QED BY <2>1 DEF KeptInv, NewCalls, NoneForgotten, InCall, Up
<1>2. CASE Stopped \/ Killed
  <2>1. open' = {} /\ UNCHANGED <<client, result>>
    BY <1>2 DEF Stopped, Killed, Die, clientEnd
  <2> QED BY <2>1 DEF KeptInv, NewCalls, NoneForgotten
<1>3. ASSUME NEW c \in Conns, Serve(c) PROVE KeptInv'
  BY <1>3, ServeKept
<1>4. ASSUME NEW c \in Conns, Use(c) PROVE KeptInv'
  BY <1>4, CallKept, ReadKept, UseKept DEF Use
<1> QED
  BY <1>1, <1>2, <1>3, <1>4 DEF Next

-----------------------------------------------------------------------------
(* The theorems.                                                           *)

\* Every step of the service and of its clients preserves the invariant.
LEMMA Preserved == IInv /\ [Next]_vars => IInv'
<1> SUFFICES ASSUME IInv, [Next]_vars PROVE IInv'
  OBVIOUS
<1>1. CASE Emit
  BY <1>1, EmitStep
<1>2. CASE Stop
  BY <1>2, StopBegins
<1>3. CASE Stopped \/ Killed
  BY <1>3, DieStep
<1>4. ASSUME NEW c \in Conns, Serve(c) PROVE IInv'
  BY <1>4, PumpStep, RefuseStep, RunStep, TasksMove DEF Serve
<1>5. ASSUME NEW c \in Conns, Use(c) PROVE IInv'
  BY <1>5, ConnectStep, CallStep, ReadStep, GiveUpStep, LeaveStep DEF Use
<1>6. CASE UNCHANGED vars
  <2>1. UNCHANGED <<service, events, handler, registered, open, queue, pump, wire, lines>>
        /\ UNCHANGED <<client, result, heard, calls, dropped>>
    BY <1>6 DEF vars, server, serverEnd, clientEnd
  <2>2. Types' /\ EventInv' /\ CallInv' /\ NewInv' /\ EventsUnbroken'
    BY <2>1 DEF IInv, Types, EventInv, CallInv, NewInv, EventsUnbroken, Up
  <2> QED BY <2>2 DEF IInv
<1> QED
  BY <1>1, <1>2, <1>3, <1>4, <1>5, <1>6 DEF Next

\* The invariant of Control.
THEOREM Invariance == Spec => []IInv
BY Initially, Preserved, PTL DEF Spec

\* The state of the service's and the clients' ends: no queue holds more than its limit,
\* and no message names an event or a call that has not been.
THEOREM TypesTheorem == Spec => []TypeOK
BY Invariance, Implied, PTL

\* No call returns the reply of another, however many are made, time out or are
\* interrupted before it (_read_loop, _pending).
THEOREM ReplyTheorem == Spec => []ReplyIsItsOwn
BY Invariance, Implied, PTL

\* Between what a client has read and the newest event of the manager, nothing is missing,
\* repeated or out of order but what push dropped because the queue was full.
THEOREM UnbrokenTheorem == Spec => []EventsUnbroken
<1>1. IInv => EventsUnbroken
  BY DEF IInv
<1> QED
  BY <1>1, Invariance, PTL

\* As long as its connection is open, a call that waits has its command or its reply on
\* the way, whatever becomes of other calls and other clients, unless its client has sent a
\* line that is too long (_read_commands).
THEOREM NoneForgottenTheorem == Spec => []NoneForgotten
<1>1. Init => KeptInv
  BY DEF Init, KeptInv, NewCalls, NoneForgotten
<1>2. KeptInv => NoneForgotten
  BY DEF KeptInv
<1> QED
  BY <1>1, <1>2, Invariance, Kept, PTL DEF Spec

=============================================================================
