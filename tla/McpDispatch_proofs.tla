-------------------------- MODULE McpDispatch_proofs --------------------------
(***************************************************************************)
(* Invariants of the dispatch and the cancelling of MCP requests, for every *)
(* number of clients and every finite set of lines they may send.           *)
(***************************************************************************)
EXTENDS McpDispatch, FiniteSetTheorems, TLAPS

USE ConstantsAssumption

-----------------------------------------------------------------------------
(* Sequences, keys and kinds.                                               *)

LEMMA ConcatShifts ==
  ASSUME NEW S, NEW a \in Seq(S), NEW b \in Seq(S)
  PROVE  /\ a \o b \in Seq(S)
         /\ Len(a \o b) = Len(a) + Len(b)
         /\ \A j \in 1..(Len(a) + Len(b)) : (a \o b)[j] = IF j <= Len(a) THEN a[j] ELSE b[j - Len(a)]
<1>1. a \o b \in Seq(S)
  OBVIOUS
<1>2. Len(a \o b) = Len(a) + Len(b)
  OBVIOUS
<1>3. ASSUME NEW j \in 1..(Len(a) + Len(b))
      PROVE  (a \o b)[j] = IF j <= Len(a) THEN a[j] ELSE b[j - Len(a)]
  OBVIOUS
<1> QED
  BY <1>1, <1>2, <1>3

\* What a queue loses, in the middle or at its head, shifts what comes after.
LEMMA WithoutShifts ==
  ASSUME NEW S, NEW q \in Seq(S), NEW i \in 1..Len(q)
  PROVE  /\ Without(q, i) \in Seq(S)
         /\ Len(Without(q, i)) = Len(q) - 1
         /\ \A j \in 1..(Len(q) - 1) : Without(q, i)[j] = IF j < i THEN q[j] ELSE q[j + 1]
<1>1. /\ SubSeq(q, 1, i - 1) \in Seq(S) /\ Len(SubSeq(q, 1, i - 1)) = i - 1
      /\ \A j \in 1..(i - 1) : SubSeq(q, 1, i - 1)[j] = q[j]
  OBVIOUS
<1>2. /\ SubSeq(q, i + 1, Len(q)) \in Seq(S) /\ Len(SubSeq(q, i + 1, Len(q))) = Len(q) - i
      /\ \A j \in 1..(Len(q) - i) : SubSeq(q, i + 1, Len(q))[j] = q[i + j]
  <2>1. SubSeq(q, i + 1, Len(q)) \in Seq(S) /\ Len(SubSeq(q, i + 1, Len(q))) = Len(q) - i
    OBVIOUS
  <2>2. ASSUME NEW j \in 1..(Len(q) - i) PROVE SubSeq(q, i + 1, Len(q))[j] = q[i + j]
    <3>1. SubSeq(q, i + 1, Len(q))[j] = q[(i + 1) + j - 1]
      OBVIOUS
    <3> QED
      BY <3>1
  <2> QED
    BY <2>1, <2>2
<1>3. PICK a \in Seq(S), b \in Seq(S) :
        /\ Without(q, i) = a \o b
        /\ Len(a) = i - 1 /\ \A j \in 1..(i - 1) : a[j] = q[j]
        /\ Len(b) = Len(q) - i /\ \A j \in 1..(Len(q) - i) : b[j] = q[i + j]
  BY <1>1, <1>2 DEF Without
<1>4. Len(q) \in Nat /\ Len(a) + Len(b) = Len(q) - 1
  BY <1>3
<1>5. Without(q, i) \in Seq(S) /\ Len(Without(q, i)) = Len(q) - 1
  BY <1>3, <1>4, ConcatShifts
<1>6. ASSUME NEW j \in 1..(Len(q) - 1) PROVE Without(q, i)[j] = IF j < i THEN q[j] ELSE q[j + 1]
  <2>1. Without(q, i)[j] = IF j <= i - 1 THEN a[j] ELSE b[j - (i - 1)]
    BY <1>3, <1>4, ConcatShifts
  <2>2. CASE j < i
    BY <1>3, <2>1, <2>2
  <2>3. CASE j >= i
    <3>1. b[j - (i - 1)] = q[i + (j - (i - 1))]
      BY <1>3, <2>3
    <3> QED
      BY <2>1, <2>3, <3>1
  <2> QED
    BY <2>2, <2>3
<1> QED
  BY <1>5, <1>6

LEMMA WithoutAt ==
  ASSUME NEW S, NEW q \in Seq(S), NEW i \in 1..Len(q), NEW j \in 1..(Len(q) - 1)
  PROVE  Without(q, i)[j] = q[IF j < i THEN j ELSE j + 1]
  BY WithoutShifts

LEMMA TailShifts ==
  ASSUME NEW S, NEW q \in Seq(S), q # <<>>
  PROVE  /\ Tail(q) \in Seq(S)
         /\ Len(Tail(q)) = Len(q) - 1
         /\ \A j \in 1..(Len(q) - 1) : Tail(q)[j] = q[j + 1]
         /\ Head(q) = q[1] /\ 1 \in 1..Len(q) /\ Head(q) \in S
  OBVIOUS

LEMMA AppendExtends ==
  ASSUME NEW S, NEW q \in Seq(S), NEW e \in S
  PROVE  /\ Append(q, e) \in Seq(S)
         /\ Len(Append(q, e)) = Len(q) + 1
         /\ \A j \in 1..Len(q) : Append(q, e)[j] = q[j]
         /\ Append(q, e)[Len(q) + 1] = e
  OBVIOUS

LEMMA KeysAreKeys ==
  ASSUME NEW w \in Lines
  PROVE  WorkerKey(w) \in Keys /\ KeyOf(w.conn, w.id) \in Keys /\ w.conn \in Conns
  BY DEF WorkerKey, KeyOf, PeekId, Scope, Keys, Ids

LEMMA KindStays ==
  ASSUME transport' = transport
  PROVE  /\ \A c : Kind(c)' = Kind(c)
         /\ \A c : Scope(c)' = Scope(c)
         /\ \A c, id : KeyOf(c, id)' = KeyOf(c, id)
         /\ \A w : WorkerKey(w)' = WorkerKey(w)
  BY DEF Kind, Scope, KeyOf, WorkerKey, PeekId

\* The transport is what it was at boot.
LEMMA TransportStays ==
  ASSUME [Next]_vars
  PROVE  transport' = transport
  BY DEF Next, vars, Client, Send, End, Process, ReadLine, ReadHello, ReadEof, ReadLong, TakeMessage,
         CancelCalls, KillLeftovers, DrainTimeout, Works, Register, Reply, Deregister, Exits,
         LookUpWorker, Kill, ClearRow, CancelCall, CallLsp, LspAnswers, Dies, Panics, Hangs

-----------------------------------------------------------------------------
(* Types, but for the range of inflight, which takes counting, and for what   *)
(* is killed, which takes knowing what a cancel has found.                  *)

Items == Lines \cup {Eof, OverLong}
Messages == [tag : {"write", "done", "down"}, worker : Lines]
Labels == {"unsent", "sent", "dropped", "spawned", "running", "calling", "answered",
           "hung", "killing", "clearing", "routing", "cancelled", "replied", "dead"}

ConnTypes ==
  /\ phase \in [Conns -> {"hello", "serving", "draining", "cancelling", "killing", "finished"}]
  /\ wire \in [Conns -> Seq(Items)]
  /\ mailbox \in [Conns -> Seq(Messages)]
  /\ inflight \in [Conns -> Int]
  /\ sessions \subseteq Conns /\ written \subseteq Lines

WorkerTypes ==
  /\ pc \in [Lines -> Labels]
  /\ victim \in [Lines -> Lines \cup {NoLine}]
  /\ rows \in [Keys -> Lines \cup {NoLine}] /\ lspRows \in [Keys -> Lines \cup {NoLine}]
  /\ calls \subseteq Lines /\ crashed \subseteq Lines /\ missed \subseteq Lines
  /\ doomed \subseteq Lines \cup {NoLine}
  /\ kills \subseteq Lines \X (Lines \cup {NoLine}) /\ cancels \subseteq Lines \X Lines

Types == transport \in Transports /\ ConnTypes /\ WorkerTypes

LEMMA InitTypes == Init => Types
  BY DEF Init, Types, ConnTypes, WorkerTypes, Labels

LEMMA DropTypes ==
  ASSUME pc \in [Lines -> Labels], NEW c, Drop(c)
  PROVE  pc' \in [Lines -> Labels]
  BY DEF Drop, Labels

LEMMA TellTypes ==
  ASSUME ConnTypes, NEW c \in Conns, NEW m \in Messages, Tell(c, m)
  PROVE  mailbox' \in [Conns -> Seq(Messages)]
  BY AppendExtends DEF Tell, ConnTypes

LEMMA ClientTypes ==
  ASSUME Types, Client
  PROVE  Types'
<1>1. ASSUME NEW w \in Lines, Send(w) PROVE Types'
  <2>1. wire' \in [Conns -> Seq(Items)]
    BY <1>1, KeysAreKeys, AppendExtends DEF Send, Types, ConnTypes, Items
  <2>2. pc' \in [Lines -> Labels]
    BY <1>1 DEF Send, Types, WorkerTypes, Labels
  <2> QED
    BY <1>1, <2>1, <2>2 DEF Send, Types, ConnTypes, WorkerTypes, tables, cancelVars
<1>2. ASSUME NEW c \in Conns, NEW how \in {Eof, OverLong}, End(c, how) PROVE Types'
  <2>1. wire' \in [Conns -> Seq(Items)]
    BY <1>2, AppendExtends DEF End, Types, ConnTypes, Items
  <2> QED
    BY <1>2, <2>1 DEF End, Types, ConnTypes, WorkerTypes, workerVars, tables, cancelVars
<1> QED
  BY <1>1, <1>2 DEF Client

LEMMA FinishesTypes ==
  ASSUME Types, NEW c \in Conns, Finishes(c)
  PROVE  /\ phase' \in [Conns -> {"hello", "serving", "draining", "cancelling", "killing", "finished"}]
         /\ pc' \in [Lines -> Labels]
  BY DropTypes DEF Finishes, Types, ConnTypes, WorkerTypes

LEMMA ProcessTypes ==
  ASSUME Types, NEW c \in Conns, Process(c) \/ DrainTimeout(c)
  PROVE  Types'
<1>1. CASE ReadLine(c)
  <2>1. PICK i \in Readable(c) :
          LET w == wire[c][i] IN
          /\ w \in Lines
          /\ wire' = [wire EXCEPT ![c] = Without(@, i)]
          /\ pc' = [pc EXCEPT ![w] = IF Kind(c) = "http" THEN "running" ELSE "spawned"]
    BY <1>1 DEF ReadLine
  <2>2. i \in 1..Len(wire[c])
    BY <2>1 DEF Readable, Types, ConnTypes
  <2>3. wire' \in [Conns -> Seq(Items)]
    BY <2>1, <2>2, WithoutShifts DEF Types, ConnTypes
  <2>4. pc' \in [Lines -> Labels]
    BY <2>1 DEF Types, WorkerTypes, Labels
  <2>5. inflight' \in [Conns -> Int]
    BY <1>1 DEF ReadLine, Types, ConnTypes
  <2> QED
    BY <1>1, <2>3, <2>4, <2>5 DEF ReadLine, Types, ConnTypes, WorkerTypes, tables, cancelVars
<1>2. CASE ReadHello(c)
  BY <1>2, DropTypes DEF ReadHello, Types, ConnTypes, WorkerTypes, tables, cancelVars
<1>3. CASE ReadEof(c) \/ ReadLong(c)
  <2>1. wire' \in [Conns -> Seq(Items)]
    <3>1. wire[c] # <<>> /\ wire' = [wire EXCEPT ![c] = Tail(@)]
      BY <1>3 DEF ReadEof, ReadLong
    <3>2. Tail(wire[c]) \in Seq(Items)
      BY <3>1, TailShifts DEF Types, ConnTypes
    <3> QED
      BY <3>1, <3>2 DEF Types, ConnTypes
  <2>2. /\ phase' \in [Conns -> {"hello", "serving", "draining", "cancelling", "killing", "finished"}]
        /\ pc' \in [Lines -> Labels]
    <3>1. Finishes(c) \/ (phase' = [phase EXCEPT ![c] = "draining"] /\ UNCHANGED pc)
      BY <1>3 DEF ReadEof, ReadLong
    <3> QED
      BY <3>1, FinishesTypes DEF Types, ConnTypes, WorkerTypes
  <2> QED
    BY <1>3, <2>1, <2>2 DEF ReadEof, ReadLong, Types, ConnTypes, WorkerTypes, tables, cancelVars
<1>4. CASE TakeMessage(c)
  <2>1. Head(mailbox[c]) \in Messages
    BY <1>4, TailShifts DEF TakeMessage, Types, ConnTypes
  <2>2. mailbox' \in [Conns -> Seq(Messages)]
    BY <1>4, TailShifts DEF TakeMessage, Types, ConnTypes
  <2>3. written' \subseteq Lines /\ inflight' \in [Conns -> Int]
    BY <1>4, <2>1 DEF TakeMessage, Types, ConnTypes, Messages
  <2>4. /\ phase' \in [Conns -> {"hello", "serving", "draining", "cancelling", "killing", "finished"}]
        /\ pc' \in [Lines -> Labels]
    BY <1>4, FinishesTypes DEF TakeMessage, Types, ConnTypes, WorkerTypes
  <2> QED
    BY <1>4, <2>2, <2>3, <2>4 DEF TakeMessage, Types, ConnTypes, WorkerTypes, tables, cancelVars
<1>5. CASE DrainTimeout(c)
  BY <1>5, FinishesTypes DEF DrainTimeout, Types, ConnTypes, WorkerTypes, tables, cancelVars
<1>6. CASE CancelCalls(c)
  BY <1>6 DEF CancelCalls, Types, ConnTypes, WorkerTypes, workerVars, cancelVars
<1>7. CASE KillLeftovers(c)
  <2>1. missed' \subseteq Lines
    BY <1>7 DEF KillLeftovers, Types, WorkerTypes, Of
  <2>2. doomed' \subseteq Lines \cup {NoLine}
    BY <1>7 DEF KillLeftovers, Types, WorkerTypes
  <2>3. rows' \in [Keys -> Lines \cup {NoLine}]
    BY <1>7 DEF KillLeftovers, Types, WorkerTypes
  <2> QED
    BY <1>7, <2>1, <2>2, <2>3 DEF KillLeftovers, Types, ConnTypes, WorkerTypes, workerVars
<1> QED
  BY <1>1, <1>2, <1>3, <1>4, <1>5, <1>6, <1>7 DEF Process

LEMMA WorksTypes ==
  ASSUME Types, NEW w \in Lines, Works(w) \/ CallLsp(w) \/ LspAnswers(w)
  PROVE  Types'
<1> USE KeysAreKeys
<1>1. CASE Register(w)
  BY <1>1 DEF Register, GoTo, Types, ConnTypes, WorkerTypes, Labels, connVars, cancelVars
<1>2. CASE CallLsp(w)
  BY <1>2 DEF CallLsp, GoTo, Types, ConnTypes, WorkerTypes, Labels, connVars, cancelVars
<1>3. CASE LspAnswers(w)
  <2>1. pc' \in [Lines -> Labels]
    BY <1>3 DEF LspAnswers, Types, WorkerTypes, Labels
  <2> QED
    BY <1>3, <2>1 DEF LspAnswers, Types, ConnTypes, WorkerTypes, connVars, cancelVars
<1>4. CASE Reply(w)
  <2>1. mailbox' \in [Conns -> Seq(Messages)]
    <3>1. \A tag \in {"write", "done"} : [tag |-> tag, worker |-> w] \in Messages
      BY DEF Messages
    <3>2. UNCHANGED mailbox \/ \E m \in Messages : Tell(w.conn, m)
      BY <1>4, <3>1 DEF Reply
    <3> QED
      BY <3>2, TellTypes DEF Types, ConnTypes
  <2>2. pc' \in [Lines -> Labels] /\ written' \subseteq Lines
    <3>1. GoTo(w, "dead") \/ GoTo(w, "replied")
      BY <1>4 DEF Reply
    <3>2. written' \in {written, written \cup {w}}
      BY <1>4 DEF Reply
    <3> QED
      BY <3>1, <3>2 DEF GoTo, Types, ConnTypes, WorkerTypes, Labels
  <2> QED
    BY <1>4, <2>1, <2>2 DEF Reply, Types, ConnTypes, WorkerTypes, tables, cancelVars
<1>5. CASE Deregister(w)
  <2>1. mailbox' \in [Conns -> Seq(Messages)]
    BY <1>5, TellTypes DEF Deregister, Exits, Types, Messages
  <2> QED
    BY <1>5, <2>1 DEF Deregister, Exits, GoTo, Types, ConnTypes, WorkerTypes, Labels, cancelVars
<1>6. CASE LookUpWorker(w)
  BY <1>6 DEF LookUpWorker, GoTo, Types, ConnTypes, WorkerTypes, Labels, connVars, tables, cancelVars
<1>7. CASE ClearRow(w)
  BY <1>7 DEF ClearRow, GoTo, Types, ConnTypes, WorkerTypes, Labels, connVars, cancelVars
<1>8. CASE Kill(w) \/ CancelCall(w)
  <2>1. pc' \in [Lines -> Labels]
    BY <1>8 DEF Kill, CancelCall, GoTo, Types, WorkerTypes, Labels
  <2>2. /\ kills' \subseteq Lines \X (Lines \cup {NoLine}) /\ cancels' \subseteq Lines \X Lines
        /\ doomed' \subseteq Lines \cup {NoLine}
    BY <1>8 DEF Kill, CancelCall, Types, WorkerTypes
  <2> QED
    BY <1>8, <2>1, <2>2 DEF Kill, CancelCall, Types, ConnTypes, WorkerTypes, connVars, tables
<1> QED
  BY <1>1, <1>2, <1>3, <1>4, <1>5, <1>6, <1>7, <1>8 DEF Works

LEMMA ExitTypes ==
  ASSUME Types, NEW w \in Lines, Dies(w) \/ Panics(w) \/ Hangs(w)
  PROVE  Types'
<1>1. CASE Dies(w) \/ Panics(w)
  <2>1. Exits(w)
    BY <1>1 DEF Dies, Panics
  <2>2. mailbox' \in [Conns -> Seq(Messages)]
    BY <2>1, KeysAreKeys, TellTypes DEF Exits, Types, Messages
  <2>3. pc' \in [Lines -> Labels] /\ crashed' \subseteq Lines
    BY <1>1, <2>1 DEF Dies, Panics, Exits, GoTo, Types, WorkerTypes, Labels
  <2> QED
    BY <1>1, <2>1, <2>2, <2>3 DEF Dies, Panics, Exits, Types, ConnTypes, WorkerTypes, tables, cancelVars
<1>2. CASE Hangs(w)
  BY <1>2 DEF Hangs, GoTo, Types, ConnTypes, WorkerTypes, Labels, connVars, tables, cancelVars
<1> QED
  BY <1>1, <1>2

LEMMA TypesStep ==
  ASSUME Types, [Next]_vars
  PROVE  Types'
<1>1. CASE UNCHANGED vars
  BY <1>1 DEF vars, connVars, workerVars, tables, cancelVars, Types, ConnTypes, WorkerTypes
<1> QED
  BY <1>1, ClientTypes, ProcessTypes, WorksTypes, ExitTypes DEF Next

-----------------------------------------------------------------------------
(* What is on the wire.                                                     *)

\* Until a process stops reading, the lines on its wire are its own, sent and not yet
\* taken, each once; only a daemon connection has a limit on their length.
WireInv ==
  \A c \in Conns :
    /\ phase[c] \in {"hello", "serving"} =>
         \A i \in DOMAIN wire[c] : wire[c][i] \in Lines =>
           /\ wire[c][i].conn = c /\ pc[wire[c][i]] = "sent"
           /\ \A j \in DOMAIN wire[c] : wire[c][i] = wire[c][j] => i = j
    /\ \A i \in DOMAIN wire[c] : wire[c][i] = OverLong => Kind(c) = "daemon"

LEMMA InitWireInv == Init => WireInv
  BY DEF Init, WireInv

\* Nothing new on a wire, and nothing taken from one that is still read.
LEMMA WireKept ==
  ASSUME Types, WireInv, transport' = transport,
         \A c \in Conns : phase'[c] \in {"hello", "serving"} =>
           phase[c] \in {"hello", "serving"} /\ wire'[c] = wire[c],
         \A c \in Conns : \A i \in DOMAIN wire'[c] : \E j \in DOMAIN wire[c] : wire'[c][i] = wire[c][j],
         \A w \in Lines : pc[w] = "sent" /\ phase'[w.conn] \in {"hello", "serving"} => pc'[w] = "sent"
  PROVE  WireInv'
<1>1. ASSUME NEW c \in Conns, NEW i \in DOMAIN wire'[c], wire'[c][i] = OverLong
      PROVE  Kind(c)' = "daemon"
  BY <1>1, KindStays DEF WireInv
<1>2. ASSUME NEW c \in Conns, phase'[c] \in {"hello", "serving"}, NEW i \in DOMAIN wire'[c],
             wire'[c][i] \in Lines
      PROVE  /\ wire'[c][i].conn = c /\ pc'[wire'[c][i]] = "sent"
             /\ \A j \in DOMAIN wire'[c] : wire'[c][i] = wire'[c][j] => i = j
  <2>1. phase[c] \in {"hello", "serving"} /\ wire'[c] = wire[c]
    BY <1>2
  <2>2. /\ wire[c][i].conn = c /\ pc[wire[c][i]] = "sent"
        /\ \A j \in DOMAIN wire[c] : wire[c][i] = wire[c][j] => i = j
    BY <1>2, <2>1 DEF WireInv
  <2> QED
    BY <1>2, <2>1, <2>2
<1> QED
  BY <1>1, <1>2 DEF WireInv

\* One more item on the wire.
LEMMA WireGrows ==
  ASSUME Types, WireInv, transport' = transport, NEW c \in Conns, NEW e \in Items,
         wire' = [wire EXCEPT ![c] = Append(@, e)], UNCHANGED phase,
         e \in Lines => e.conn = c /\ pc[e] = "unsent" /\ pc'[e] = "sent",
         \A w \in Lines : w # e => pc'[w] = pc[w],
         e = OverLong => Kind(c) = "daemon"
  PROVE  WireInv'
<1>1. wire[c] \in Seq(Items) /\ wire'[c] = Append(wire[c], e)
      /\ \A b \in Conns : b # c => wire'[b] = wire[b]
  BY DEF Types, ConnTypes
<1>2. /\ DOMAIN wire'[c] = 1..(Len(wire[c]) + 1) /\ DOMAIN wire[c] = 1..Len(wire[c])
      /\ \A i \in 1..Len(wire[c]) : wire'[c][i] = wire[c][i]
      /\ wire'[c][Len(wire[c]) + 1] = e
      /\ Len(wire[c]) \in Nat
  BY <1>1, AppendExtends
<1>3. ASSUME NEW b \in Conns, phase[b] \in {"hello", "serving"}, NEW i \in DOMAIN wire[b],
             wire[b][i] \in Lines
      PROVE  /\ wire[b][i].conn = b /\ pc'[wire[b][i]] = "sent" /\ wire[b][i] # e
             /\ \A j \in DOMAIN wire[b] : wire[b][i] = wire[b][j] => i = j
  <2>1. /\ wire[b][i].conn = b /\ pc[wire[b][i]] = "sent"
        /\ \A j \in DOMAIN wire[b] : wire[b][i] = wire[b][j] => i = j
    BY <1>3 DEF WireInv
  <2>2. wire[b][i] # e
    BY <1>3, <2>1
  <2> QED
    BY <1>3, <2>1, <2>2
<1>4. ASSUME NEW b \in Conns, phase'[b] \in {"hello", "serving"}, NEW i \in DOMAIN wire'[b],
             wire'[b][i] \in Lines
      PROVE  /\ wire'[b][i].conn = b /\ pc'[wire'[b][i]] = "sent"
             /\ \A j \in DOMAIN wire'[b] : wire'[b][i] = wire'[b][j] => i = j
  <2>1. CASE b # c
    BY <1>1, <1>3, <1>4, <2>1
  <2>2. CASE b = c /\ i = Len(wire[c]) + 1
    BY <1>2, <1>3, <1>4, <2>2
  <2>3. CASE b = c /\ i # Len(wire[c]) + 1
    <3>1. i \in DOMAIN wire[c] /\ wire'[c][i] = wire[c][i]
      BY <1>2, <1>4, <2>3
    <3> QED
      BY <1>2, <1>3, <1>4, <2>3, <3>1
  <2> QED
    BY <2>1, <2>2, <2>3
<1>5. ASSUME NEW b \in Conns, NEW i \in DOMAIN wire'[b], wire'[b][i] = OverLong
      PROVE  Kind(b)' = "daemon"
  <2>1. CASE b = c /\ i = Len(wire[c]) + 1
    BY <1>2, <1>5, <2>1, KindStays
  <2>2. CASE ~(b = c /\ i = Len(wire[c]) + 1)
    <3>1. i \in DOMAIN wire[b] /\ wire'[b][i] = wire[b][i]
      BY <1>1, <1>2, <1>5, <2>2
    <3> QED
      BY <1>5, <3>1, KindStays DEF WireInv
  <2> QED
    BY <2>1, <2>2
<1> QED
  BY <1>4, <1>5 DEF WireInv

\* A line is taken from the wire.
LEMMA WireShrinks ==
  ASSUME Types, WireInv, transport' = transport, NEW c \in Conns, phase[c] = "serving",
         NEW i \in DOMAIN wire[c], wire[c][i] \in Lines,
         wire' = [wire EXCEPT ![c] = Without(@, i)], UNCHANGED phase,
         \A w \in Lines : w # wire[c][i] => pc'[w] = pc[w]
  PROVE  WireInv'
<1> DEFINE n == Len(wire[c])
           to(j) == IF j < i THEN j ELSE j + 1
<1>1. /\ wire[c] \in Seq(Items) /\ wire'[c] = Without(wire[c], i)
      /\ \A b \in Conns : b # c => wire'[b] = wire[b]
  BY DEF Types, ConnTypes
<1>2. n \in Nat /\ DOMAIN wire[c] = 1..n /\ i \in 1..n
  BY <1>1
<1>3. DOMAIN wire'[c] = 1..(n - 1)
  <2>1. wire'[c] \in Seq(Items) /\ Len(wire'[c]) = n - 1
    BY <1>1, <1>2, WithoutShifts
  <2> QED
    BY <2>1
<1>4. \A j \in 1..(n - 1) : wire'[c][j] = wire[c][to(j)]
  <2> SUFFICES ASSUME NEW j \in 1..(n - 1) PROVE wire'[c][j] = wire[c][to(j)]
    OBVIOUS
  <2>1. wire[c] \in Seq(Items) /\ i \in 1..Len(wire[c]) /\ j \in 1..(Len(wire[c]) - 1)
    BY <1>1, <1>2
  <2>2. Without(wire[c], i)[j] = wire[c][to(j)]
    BY <2>1, WithoutAt
  <2> QED
    BY <1>1, <2>2
<1>5. /\ \A j \in 1..(n - 1) : to(j) \in 1..n /\ to(j) # i
      /\ \A j, k \in 1..(n - 1) : to(j) = to(k) => j = k
  BY <1>2
<1> HIDE DEF n, to
<1>6. ASSUME NEW b \in Conns, phase'[b] \in {"hello", "serving"}, NEW j \in DOMAIN wire'[b],
             wire'[b][j] \in Lines
      PROVE  /\ wire'[b][j].conn = b /\ pc'[wire'[b][j]] = "sent"
             /\ \A k \in DOMAIN wire'[b] : wire'[b][j] = wire'[b][k] => j = k
  <2>1. wire[c][i].conn = c /\ \A k \in DOMAIN wire[c] : wire[c][i] = wire[c][k] => i = k
    BY DEF WireInv
  <2>2. CASE b # c
    <3>1. /\ wire[b][j].conn = b /\ pc[wire[b][j]] = "sent"
          /\ \A k \in DOMAIN wire[b] : wire[b][j] = wire[b][k] => j = k
      BY <1>1, <1>6, <2>2 DEF WireInv
    <3> QED
      BY <1>1, <1>6, <2>1, <2>2, <3>1
  <2>3. CASE b = c
    <3>1. wire'[c][j] = wire[c][to(j)] /\ to(j) \in DOMAIN wire[c] /\ to(j) # i
      BY <1>2, <1>3, <1>4, <1>5, <1>6, <2>3
    <3>2. /\ wire[c][to(j)].conn = c /\ pc[wire[c][to(j)]] = "sent"
          /\ \A k \in DOMAIN wire[c] : wire[c][to(j)] = wire[c][k] => to(j) = k
      BY <1>6, <2>3, <3>1 DEF WireInv
    <3>3. wire'[c][j] # wire[c][i]
      BY <2>1, <3>1
    <3>4. ASSUME NEW k \in DOMAIN wire'[c], wire'[c][j] = wire'[c][k] PROVE j = k
      <4>1. wire'[c][k] = wire[c][to(k)] /\ to(k) \in DOMAIN wire[c]
        BY <1>2, <1>3, <1>4, <1>5, <3>4
      <4>2. to(j) = to(k)
        BY <3>1, <3>2, <3>4, <4>1
      <4>3. j \in 1..(n - 1) /\ k \in 1..(n - 1)
        BY <1>3, <1>6, <2>3, <3>4
      <4> QED
        BY <1>5, <4>2, <4>3
    <3> QED
      BY <1>6, <2>3, <3>1, <3>2, <3>3, <3>4
  <2> QED
    BY <2>2, <2>3
<1>7. ASSUME NEW b \in Conns, NEW j \in DOMAIN wire'[b], wire'[b][j] = OverLong
      PROVE  Kind(b)' = "daemon"
  <2>1. \E k \in DOMAIN wire[b] : wire'[b][j] = wire[b][k]
    BY <1>1, <1>2, <1>3, <1>4, <1>5, <1>7
  <2> QED
    BY <1>7, <2>1, KindStays DEF WireInv
<1> QED
  BY <1>6, <1>7 DEF WireInv

LEMMA ClientWire ==
  ASSUME Types, WireInv, Client
  PROVE  WireInv'
<1>1. ASSUME NEW w \in Lines, Send(w) PROVE WireInv'
  <2>1. /\ transport' = transport /\ w.conn \in Conns /\ w \in Items
        /\ wire' = [wire EXCEPT ![w.conn] = Append(@, w)] /\ UNCHANGED phase
        /\ pc[w] = "unsent" /\ pc' = [pc EXCEPT ![w] = "sent"]
    BY <1>1, KeysAreKeys DEF Send, Items
  <2>2. pc'[w] = "sent" /\ \A v \in Lines : v # w => pc'[v] = pc[v]
    BY <2>1 DEF Types, WorkerTypes
  <2>3. w # OverLong
    OBVIOUS
  <2> QED
    BY <2>1, <2>2, <2>3, WireGrows
<1>2. ASSUME NEW c \in Conns, NEW how \in {Eof, OverLong}, End(c, how) PROVE WireInv'
  <2>1. /\ transport' = transport /\ how \in Items /\ how \notin Lines
        /\ wire' = [wire EXCEPT ![c] = Append(@, how)] /\ UNCHANGED <<phase, pc>>
        /\ how = OverLong => Kind(c) = "daemon"
    BY <1>2 DEF End, Items, workerVars
  <2> QED
    BY <2>1, WireGrows
<1> QED
  BY <1>1, <1>2 DEF Client

\* A process that stops reading drops what it has not read.
LEMMA FinishesPhases ==
  ASSUME Types, NEW c \in Conns, Finishes(c)
  PROVE  /\ phase'[c] = IF c \in sessions THEN "cancelling" ELSE "finished"
         /\ \A b \in Conns : b # c => phase'[b] = phase[b]
         /\ \A w \in Lines :
              pc'[w] = IF w.conn = c /\ pc[w] = "sent" THEN "dropped" ELSE pc[w]
  BY DEF Finishes, Drop, Types, ConnTypes

\* A process goes on to a phase in which it reads no more.
LEMMA StopsReading ==
  ASSUME Types, WireInv, NEW c \in Conns, phase'[c] \notin {"hello", "serving"},
         \A b \in Conns : b # c => phase'[b] = phase[b], UNCHANGED pc \/ Drop(c), transport' = transport,
         wire' = wire \/ (wire[c] # <<>> /\ wire' = [wire EXCEPT ![c] = Tail(@)])
  PROVE  WireInv'
<1>2. \A w \in Lines : pc[w] = "sent" /\ phase'[w.conn] \in {"hello", "serving"} => pc'[w] = "sent"
  BY DEF Drop
<1>3. \A b \in Conns : b # c => wire'[b] = wire[b]
  BY DEF Types, ConnTypes
<1>4. \A i \in DOMAIN wire'[c] : \E j \in DOMAIN wire[c] : wire'[c][i] = wire[c][j]
  <2>1. CASE wire' = wire
    BY <2>1
  <2>2. CASE wire[c] # <<>> /\ wire' = [wire EXCEPT ![c] = Tail(@)]
    <3>1. wire[c] \in Seq(Items) /\ wire'[c] = Tail(wire[c])
      BY <2>2 DEF Types, ConnTypes
    <3>2. Tail(wire[c]) \in Seq(Items) /\ Len(Tail(wire[c])) = Len(wire[c]) - 1
      BY <2>2, <3>1, TailShifts
    <3>3. \A j \in 1..(Len(wire[c]) - 1) : Tail(wire[c])[j] = wire[c][j + 1]
      BY <2>2, <3>1, TailShifts
    <3> QED
      BY <3>1, <3>2, <3>3
  <2> QED
    BY <2>1, <2>2
<1> QED
  BY <1>2, <1>3, <1>4, WireKept

LEMMA ProcessWire ==
  ASSUME Types, WireInv, NEW c \in Conns, Process(c) \/ DrainTimeout(c)
  PROVE  WireInv'
<1>1. CASE ReadLine(c)
  <2>1. PICK i \in Readable(c) :
          LET w == wire[c][i] IN
          /\ w \in Lines
          /\ wire' = [wire EXCEPT ![c] = Without(@, i)]
          /\ pc' = [pc EXCEPT ![w] = IF Kind(c) = "http" THEN "running" ELSE "spawned"]
    BY <1>1 DEF ReadLine
  <2>2. i \in DOMAIN wire[c]
    BY DEF Readable
  <2>3. \A w \in Lines : w # wire[c][i] => pc'[w] = pc[w]
    BY <2>1 DEF Types, WorkerTypes
  <2>4. transport' = transport /\ UNCHANGED phase /\ phase[c] = "serving"
    BY <1>1 DEF ReadLine
  <2> QED
    BY <2>1, <2>2, <2>3, <2>4, WireShrinks
<1>2. ASSUME transport' = transport, Finishes(c),
             wire' = wire \/ (wire[c] # <<>> /\ wire' = [wire EXCEPT ![c] = Tail(@)])
      PROVE  WireInv'
  <2>1. Drop(c)
    BY <1>2 DEF Finishes
  <2> QED
    BY <1>2, <2>1, FinishesPhases, StopsReading
<1>3. CASE ReadHello(c)
  <2>1. transport' = transport /\ wire' = wire /\ phase[c] = "hello"
    BY <1>3 DEF ReadHello
  <2>2. CASE phase' = [phase EXCEPT ![c] = "finished"] /\ Drop(c)
    BY <2>1, <2>2, StopsReading DEF Types, ConnTypes
  <2>3. CASE phase' = [phase EXCEPT ![c] = "serving"] /\ UNCHANGED pc
    BY <2>1, <2>3, WireKept DEF Types, ConnTypes
  <2> QED
    BY <1>3, <2>2, <2>3 DEF ReadHello
<1>4. CASE ReadEof(c)
  <2>1. transport' = transport /\ wire[c] # <<>> /\ wire' = [wire EXCEPT ![c] = Tail(@)]
    BY <1>4 DEF ReadEof
  <2>2. CASE phase' = [phase EXCEPT ![c] = "draining"] /\ UNCHANGED pc
    BY <2>1, <2>2, StopsReading DEF Types, ConnTypes
  <2> QED
    BY <1>2, <1>4, <2>1, <2>2 DEF ReadEof
<1>5. CASE ReadLong(c) \/ DrainTimeout(c)
  BY <1>2, <1>5 DEF ReadLong, DrainTimeout
<1>6. CASE TakeMessage(c)
  <2>1. transport' = transport /\ wire' = wire
    BY <1>6 DEF TakeMessage
  <2>2. CASE UNCHANGED <<phase, pc>>
    BY <2>1, <2>2, WireKept
  <2> QED
    BY <1>2, <1>6, <2>1, <2>2 DEF TakeMessage
<1>7. CASE CancelCalls(c) \/ KillLeftovers(c)
  <2>1. phase'[c] \notin {"hello", "serving"} /\ \A b \in Conns : b # c => phase'[b] = phase[b]
    BY <1>7 DEF CancelCalls, KillLeftovers, Types, ConnTypes
  <2>2. transport' = transport /\ wire' = wire /\ UNCHANGED pc
    BY <1>7 DEF CancelCalls, KillLeftovers, workerVars
  <2> QED
    BY <2>1, <2>2, StopsReading
<1> QED
  BY <1>1, <1>3, <1>4, <1>5, <1>6, <1>7 DEF Process

\* Only lines that were taken run.
LEMMA WorkerWire ==
  ASSUME Types, WireInv, NEW w \in Lines,
         Works(w) \/ CallLsp(w) \/ LspAnswers(w) \/ Dies(w) \/ Panics(w) \/ Hangs(w)
  PROVE  WireInv'
<1>1. transport' = transport /\ UNCHANGED <<phase, wire>>
  BY DEF Works, Register, Reply, Deregister, Exits, LookUpWorker, Kill, ClearRow, CancelCall,
         CallLsp, LspAnswers, Dies, Panics, Hangs, connVars
<1>2. UNCHANGED pc \/ (pc[w] # "sent" /\ \E l : pc' = [pc EXCEPT ![w] = l])
  BY DEF Works, Register, Reply, Deregister, Exits, LookUpWorker, Kill, ClearRow, CancelCall,
         CallLsp, LspAnswers, Dies, Panics, Hangs, At, GoTo, Living, Types, WorkerTypes
<1>3. \A v \in Lines : pc[v] = "sent" => pc'[v] = "sent"
  BY <1>2 DEF Types, WorkerTypes
<1> QED
  BY <1>1, <1>3, WireKept

LEMMA WireStep ==
  ASSUME Types, WireInv, [Next]_vars
  PROVE  WireInv'
<1>1. CASE UNCHANGED vars
  BY <1>1, WireKept DEF vars, connVars, workerVars
<1> QED
  BY <1>1, ClientWire, ProcessWire, WorkerWire DEF Next

-----------------------------------------------------------------------------
(* Sessions, and how far a line is.                                         *)

\* A worker was started for the line; and has had its turn to register.
Spawned(w) == pc[w] \notin {"unsent", "sent", "dropped"}
Past(w) == Spawned(w) /\ pc[w] # "spawned"

\* Nobody's line goes back.
LEMMA LinesGoOn ==
  ASSUME Types, WireInv, [Next]_vars, NEW w \in Lines
  PROVE  /\ Spawned(w) => Spawned(w)'
         /\ Past(w) => Past(w)'
         /\ pc[w] = "dead" => pc'[w] = "dead"
<1>1. CASE UNCHANGED pc
  BY <1>1 DEF Spawned, Past
<1>2. ASSUME NEW v \in Lines, Send(v)
      PROVE  (Spawned(w) \/ Past(w) \/ pc[w] = "dead") => pc'[w] = pc[w]
  BY <1>2 DEF Send, Spawned, Past, Types, WorkerTypes
<1>3. ASSUME NEW c \in Conns, ReadLine(c)
      PROVE  (Spawned(w) \/ Past(w) \/ pc[w] = "dead") => pc'[w] = pc[w]
  <2>1. PICK i \in Readable(c) :
          /\ wire[c][i] \in Lines
          /\ pc' = [pc EXCEPT ![wire[c][i]] = IF Kind(c) = "http" THEN "running" ELSE "spawned"]
    BY <1>3 DEF ReadLine
  <2>2. pc[wire[c][i]] = "sent"
    BY <1>3, <2>1 DEF Readable, ReadLine, WireInv
  <2> QED
    BY <2>1, <2>2 DEF Spawned, Past, Types, WorkerTypes
<1>4. ASSUME NEW c \in Conns, Drop(c)
      PROVE  (Spawned(w) \/ Past(w) \/ pc[w] = "dead") => pc'[w] = pc[w]
  BY <1>4 DEF Drop, Spawned, Past
<1>5. ASSUME NEW c \in Conns, Process(c) \/ DrainTimeout(c), ~ReadLine(c)
      PROVE  UNCHANGED pc \/ Drop(c)
  BY <1>5 DEF Process, DrainTimeout, ReadHello, ReadEof, ReadLong, TakeMessage, CancelCalls,
              KillLeftovers, Finishes, workerVars
<1>6. ASSUME NEW v \in Lines,
             Works(v) \/ CallLsp(v) \/ LspAnswers(v) \/ Dies(v) \/ Panics(v) \/ Hangs(v)
      PROVE  /\ Spawned(w) => Spawned(w)'
             /\ Past(w) => Past(w)'
             /\ pc[w] = "dead" => pc'[w] = "dead"
  <2>1. UNCHANGED pc \/ (pc[v] # "dead" /\ \E l : pc' = [pc EXCEPT ![v] = l] /\
                           l \notin {"unsent", "sent", "dropped", "spawned"})
    BY <1>6 DEF Works, Register, Reply, Deregister, Exits, LookUpWorker, Kill, ClearRow, CancelCall,
         CallLsp, LspAnswers, Dies, Panics, Hangs, At, GoTo, Living, Types, WorkerTypes
  <2> QED
    BY <2>1 DEF Spawned, Past, Types, WorkerTypes
<1> QED
  BY <1>1, <1>2, <1>3, <1>4, <1>5, <1>6 DEF Next, Client, End, vars, workerVars, Spawned, Past

\* Only a daemon connection has a hello and a session, and it closes through the
\* clean-up of its session; before its hello none of its lines is taken.
SessionInv ==
  \A c \in Conns :
    /\ phase[c] \in {"hello", "cancelling", "killing"} => Kind(c) = "daemon"
    /\ Kind(c) = "daemon" /\ phase[c] \notin {"hello", "finished"} => c \in sessions
    /\ c \in sessions => Kind(c) = "daemon"
    /\ phase[c] = "hello" => c \notin sessions /\ \A w \in Of(c) : ~Spawned(w)

LEMMA InitSessionInv == Init => SessionInv
<1> SUFFICES ASSUME Init PROVE SessionInv
  OBVIOUS
<1>1. \A w \in Lines : ~Spawned(w)
  BY DEF Init, Spawned
<1>2. \A c \in Conns : phase[c] = IF Kind(c) = "daemon" THEN "hello" ELSE "serving"
  BY DEF Init
<1>3. sessions = {}
  BY DEF Init
<1> QED
  BY <1>1, <1>2, <1>3 DEF SessionInv, Of

LEMMA SessionStep ==
  ASSUME Types, WireInv, SessionInv, [Next]_vars
  PROVE  SessionInv'
<1>1. /\ \A c : Kind(c)' = Kind(c)
      /\ \A c : Of(c)' = Of(c)
      /\ transport' = transport
  BY TransportStays, KindStays DEF Of
<1>2. ASSUME UNCHANGED <<phase, sessions>>, \A w \in Lines : ~Spawned(w) => ~Spawned(w)'
      PROVE  SessionInv'
  BY <1>1, <1>2 DEF SessionInv, Of
<1>3. CASE UNCHANGED vars
  BY <1>2, <1>3 DEF vars, connVars, workerVars, Spawned
<1>4. CASE Client
  <2>1. UNCHANGED <<phase, sessions>>
    BY <1>4 DEF Client, Send, End
  <2>2. \A w \in Lines : ~Spawned(w) => ~Spawned(w)'
    BY <1>4 DEF Client, Send, End, Spawned, Types, WorkerTypes, workerVars
  <2> QED
    BY <1>2, <2>1, <2>2
<1>5. ASSUME NEW v \in Lines,
             Works(v) \/ CallLsp(v) \/ LspAnswers(v) \/ Dies(v) \/ Panics(v) \/ Hangs(v)
      PROVE  SessionInv'
  <2>1. UNCHANGED <<phase, sessions>>
    BY <1>5 DEF Works, Register, Reply, Deregister, Exits, LookUpWorker, Kill, ClearRow, CancelCall,
         CallLsp, LspAnswers, Dies, Panics, Hangs, connVars
  <2>2. UNCHANGED pc \/ (Spawned(v) /\ \E l : pc' = [pc EXCEPT ![v] = l])
    BY <1>5 DEF Works, Register, Reply, Deregister, Exits, LookUpWorker, Kill, ClearRow, CancelCall,
         CallLsp, LspAnswers, Dies, Panics, Hangs, At, GoTo, Living, Types, WorkerTypes, Spawned
  <2>3. \A w \in Lines : ~Spawned(w) => ~Spawned(w)'
    BY <2>2 DEF Spawned, Types, WorkerTypes
  <2> QED
    BY <1>2, <2>1, <2>3
<1>6. ASSUME NEW c \in Conns, Process(c) \/ DrainTimeout(c)
      PROVE  SessionInv'
  <2>1. CASE ReadLine(c)
    <3>1. PICK i \in Readable(c) :
            /\ wire[c][i] \in Lines
            /\ pc' = [pc EXCEPT ![wire[c][i]] = IF Kind(c) = "http" THEN "running" ELSE "spawned"]
      BY <2>1 DEF ReadLine
    <3>2. wire[c][i].conn = c
      BY <2>1, <3>1 DEF Readable, ReadLine, WireInv
    <3>3. UNCHANGED <<phase, sessions>> /\ phase[c] = "serving"
      BY <2>1 DEF ReadLine
    <3>4. \A w \in Lines : w.conn # c => (Spawned(w)' <=> Spawned(w))
      BY <3>1, <3>2 DEF Spawned, Types, WorkerTypes
    <3> QED
      BY <1>1, <3>3, <3>4 DEF SessionInv, Of
  <2>2. ASSUME Drop(c) \/ UNCHANGED pc, \A b \in Conns : b # c => phase'[b] = phase[b],
               \A b \in Conns : b # c => (b \in sessions' <=> b \in sessions),
               phase'[c] # "hello",
               phase'[c] \in {"cancelling", "killing"} => Kind(c) = "daemon",
               Kind(c) = "daemon" /\ phase'[c] # "finished" => c \in sessions',
               c \in sessions' => Kind(c) = "daemon"
        PROVE  SessionInv'
    <3>1. \A w \in Lines : ~Spawned(w) => ~Spawned(w)'
      BY <2>2 DEF Drop, Spawned
    <3> QED
      BY <1>1, <2>2, <3>1 DEF SessionInv, Of
  <2>3. ASSUME Finishes(c), UNCHANGED sessions PROVE SessionInv'
    <3>1. phase'[c] = IF c \in sessions THEN "cancelling" ELSE "finished"
      BY <2>3, FinishesPhases
    <3>2. \A b \in Conns : b # c => phase'[b] = phase[b]
      BY <2>3, FinishesPhases
    <3> QED
      BY <2>2, <2>3, <3>1, <3>2 DEF Finishes, SessionInv
  <2>4. CASE ReadHello(c)
    <3>1. /\ phase[c] = "hello" /\ phase'[c] \in {"serving", "finished"}
          /\ \A b \in Conns : b # c => phase'[b] = phase[b]
          /\ Drop(c) \/ UNCHANGED pc
          /\ sessions' = IF phase'[c] = "serving" THEN sessions \cup {c} ELSE sessions
      BY <2>4 DEF ReadHello, Types, ConnTypes
    <3> QED
      BY <2>2, <3>1 DEF SessionInv
  <2>5. CASE ReadEof(c)
    <3>1. CASE phase' = [phase EXCEPT ![c] = "draining"] /\ UNCHANGED pc
      <4>1. phase'[c] = "draining" /\ \A b \in Conns : b # c => phase'[b] = phase[b]
        BY <3>1 DEF Types, ConnTypes
      <4>2. phase[c] = "serving" /\ UNCHANGED sessions
        BY <2>5 DEF ReadEof
      <4> QED
        BY <2>2, <3>1, <4>1, <4>2 DEF SessionInv
    <3> QED
      BY <2>3, <2>5, <3>1 DEF ReadEof
  <2>6. CASE ReadLong(c) \/ DrainTimeout(c)
    BY <2>3, <2>6 DEF ReadLong, DrainTimeout
  <2>7. CASE TakeMessage(c)
    <3>1. UNCHANGED sessions /\ (Finishes(c) \/ UNCHANGED <<phase, pc>>)
      BY <2>7 DEF TakeMessage
    <3> QED
      BY <1>2, <2>3, <3>1 DEF Spawned
  <2>8. CASE CancelCalls(c) \/ KillLeftovers(c)
    <3>1. /\ phase[c] \in {"cancelling", "killing"} /\ UNCHANGED pc
          /\ phase'[c] \in {"killing", "finished"} /\ \A b \in Conns : b # c => phase'[b] = phase[b]
          /\ phase'[c] = "killing" => sessions' = sessions
          /\ \A b \in Conns : b # c => (b \in sessions' <=> b \in sessions)
          /\ sessions' \subseteq sessions
      BY <2>8 DEF CancelCalls, KillLeftovers, Types, ConnTypes, workerVars
    <3> QED
      BY <2>2, <3>1 DEF SessionInv
  <2> QED
    BY <1>6, <2>1, <2>4, <2>5, <2>6, <2>7, <2>8 DEF Process
<1> QED
  BY <1>3, <1>4, <1>5, <1>6 DEF Next

-----------------------------------------------------------------------------
(* Whom the rows, the cancels and the kill signals name.                    *)

\* Only clients there are send, and HTTP requests are not workers of their own.
LinesFromClients ==
  \A w \in Lines :
    /\ pc[w] # "unsent" => Kind(w.conn) # "absent"
    /\ pc[w] = "spawned" => Kind(w.conn) # "http"

\* A row is under the key of the worker in it, which is past its registration.
RowsAreNamed ==
  \A k \in Keys :
    /\ rows[k] # NoLine =>
         k = WorkerKey(rows[k]) /\ Past(rows[k]) /\ Kind(rows[k].conn) # "http"
    /\ lspRows[k] # NoLine =>
         k = WorkerKey(lspRows[k]) /\ Past(lspRows[k]) /\ lspRows[k] \in Requests

\* What a cancel has found is a request under the key it names.
VictimsAreNamed ==
  \A x \in Lines :
    /\ pc[x] \in {"killing", "clearing", "routing", "cancelled"} => x \notin Requests
    /\ pc[x] \in {"killing", "clearing"} => victim[x] # NoLine
    /\ victim[x] # NoLine =>
         /\ x \notin Requests /\ Past(x)
         /\ victim[x] \in Requests /\ Past(victim[x]) /\ Kind(victim[x].conn) # "http"
         /\ KeyOf(x.conn, x.id) = WorkerKey(victim[x])

\* Kill signals go to workers that have registered.
DoomedAreNamed == \A w \in doomed : w \in Lines /\ Past(w) /\ Kind(w.conn) # "http"

\* What was stopped is what the key of the cancel names.
StopsAreNamed ==
  \A p \in kills \cup cancels :
    /\ p[1] \in Lines /\ Past(p[1]) /\ p[2] \in Requests /\ Past(p[2])
    /\ KeyOf(p[1].conn, p[1].id) = WorkerKey(p[2])

CallsAreNamed == \A w \in calls : w \in Requests /\ Past(w)

NamesInv ==
  /\ LinesFromClients /\ RowsAreNamed /\ VictimsAreNamed
  /\ DoomedAreNamed /\ StopsAreNamed /\ CallsAreNamed

LEMMA InitNamesInv == Init => NamesInv
  BY DEF Init, NamesInv, LinesFromClients, RowsAreNamed, VictimsAreNamed, DoomedAreNamed,
         StopsAreNamed, CallsAreNamed

\* A key names a request, or nobody in particular.
LEMMA KeysName ==
  ASSUME NEW x \in Lines, NEW w \in Lines, KeyOf(x.conn, x.id) = WorkerKey(w)
  PROVE  w \in Requests /\ w.id = x.id /\ Scope(w.conn) = Scope(x.conn)
<1>1. PeekId(w) = x.id /\ x.id # Anonymous /\ Scope(w.conn) = Scope(x.conn)
  BY DEF KeyOf, WorkerKey
<1> QED
  BY <1>1 DEF PeekId, Requests

\* A step that names nobody anew.
LEMMA NamesKept ==
  ASSUME Types, WireInv, NamesInv, [Next]_vars,
         \A k \in Keys : rows'[k] \in {rows[k], NoLine} /\ lspRows'[k] \in {lspRows[k], NoLine},
         UNCHANGED <<victim, kills, cancels>>, calls' \subseteq calls, doomed' = doomed,
         LinesFromClients',
         \A x \in Lines : pc'[x] \in {"killing", "clearing", "routing", "cancelled"} =>
           /\ pc[x] \in {"killing", "clearing", "routing", "cancelled"}
           /\ pc'[x] \in {"killing", "clearing"} => pc[x] \in {"killing", "clearing"}
  PROVE  NamesInv'
<1>1. \A w \in Lines : Past(w) => Past(w)'
  BY LinesGoOn
<1>2. /\ \A c : Kind(c)' = Kind(c)
      /\ \A c, id : KeyOf(c, id)' = KeyOf(c, id)
      /\ \A w : WorkerKey(w)' = WorkerKey(w)
  BY TransportStays, KindStays
<1>3. rows \in [Keys -> Lines \cup {NoLine}] /\ lspRows \in [Keys -> Lines \cup {NoLine}]
      /\ victim \in [Lines -> Lines \cup {NoLine}]
  BY DEF Types, WorkerTypes
<1>4. RowsAreNamed'
  BY <1>1, <1>2, <1>3 DEF NamesInv, RowsAreNamed
<1>5. VictimsAreNamed'
  BY <1>1, <1>2, <1>3 DEF NamesInv, VictimsAreNamed
<1>6. DoomedAreNamed' /\ CallsAreNamed'
  BY <1>1, <1>2 DEF NamesInv, DoomedAreNamed, CallsAreNamed, Requests
<1>7. StopsAreNamed'
  BY <1>1, <1>2 DEF NamesInv, StopsAreNamed, Requests
<1> QED
  BY <1>4, <1>5, <1>6, <1>7 DEF NamesInv

LEMMA ClientNames ==
  ASSUME Types, WireInv, NamesInv, [Next]_vars, Client
  PROVE  NamesInv'
<1>1. UNCHANGED <<rows, lspRows, victim, kills, cancels, calls, doomed>>
  BY DEF Client, Send, End, workerVars, tables, cancelVars
<1>2. /\ \A x \in Lines : pc'[x] = pc[x] \/ (pc'[x] = "sent" /\ Kind(x.conn) # "absent")
      /\ transport' = transport
  BY DEF Client, Send, End, workerVars, Types, WorkerTypes
<1>3. LinesFromClients'
  BY <1>2, KindStays DEF NamesInv, LinesFromClients
<1> QED
  BY <1>1, <1>2, <1>3, NamesKept

LEMMA ProcessNames ==
  ASSUME Types, WireInv, SessionInv, NamesInv, [Next]_vars, NEW c \in Conns,
         Process(c) \/ DrainTimeout(c)
  PROVE  NamesInv'
<1>1. transport' = transport
  BY TransportStays
<1>2. CASE ReadLine(c)
  <2>1. PICK i \in Readable(c) :
          /\ wire[c][i] \in Lines
          /\ pc' = [pc EXCEPT ![wire[c][i]] = IF Kind(c) = "http" THEN "running" ELSE "spawned"]
    BY <1>2 DEF ReadLine
  <2>2. wire[c][i].conn = c /\ pc[wire[c][i]] = "sent"
    BY <1>2, <2>1 DEF Readable, ReadLine, WireInv
  <2>3. LinesFromClients'
    BY <1>1, <2>1, <2>2, KindStays DEF NamesInv, LinesFromClients, Types, WorkerTypes
  <2>4. UNCHANGED <<rows, lspRows, victim, kills, cancels, calls, doomed>>
    BY <1>2 DEF ReadLine, tables, cancelVars
  <2>5. \A x \in Lines : pc'[x] \in {pc[x], "running", "spawned"}
    BY <2>1 DEF Types, WorkerTypes
  <2> QED
    BY <2>3, <2>4, <2>5, NamesKept
<1>3. ASSUME ~ReadLine(c)
      PROVE  /\ LinesFromClients'
             /\ \A x \in Lines : pc'[x] \in {pc[x], "dropped"}
             /\ UNCHANGED <<victim, kills, cancels, calls>>
  <2>1. Drop(c) \/ UNCHANGED pc
    BY <1>3 DEF Process, DrainTimeout, ReadHello, ReadEof, ReadLong, TakeMessage, CancelCalls,
                KillLeftovers, Finishes, workerVars
  <2>2. \A x \in Lines : pc'[x] = pc[x] \/ (pc[x] = "sent" /\ pc'[x] = "dropped")
    BY <2>1 DEF Drop
  <2>3. UNCHANGED <<victim, kills, cancels, calls>>
    BY <1>3 DEF Process, DrainTimeout, ReadHello, ReadEof, ReadLong, TakeMessage, CancelCalls,
                KillLeftovers, workerVars, cancelVars
  <2> QED
    BY <1>1, <2>2, <2>3, KindStays DEF NamesInv, LinesFromClients
<1>4. ASSUME ~ReadLine(c)
      PROVE  \A k \in Keys : rows'[k] \in {rows[k], NoLine} /\ lspRows'[k] \in {lspRows[k], NoLine}
  BY <1>4 DEF Process, DrainTimeout, ReadHello, ReadEof, ReadLong, TakeMessage, CancelCalls,
              KillLeftovers, tables
<1>5. ASSUME ~ReadLine(c), ~KillLeftovers(c) PROVE NamesInv'
  <2>1. doomed' = doomed
    BY <1>5 DEF Process, DrainTimeout, ReadHello, ReadEof, ReadLong, TakeMessage, CancelCalls, cancelVars
  <2> QED
    BY <1>3, <1>4, <1>5, <2>1, NamesKept
<1>6. CASE KillLeftovers(c)
  <2>1. ~ReadLine(c)
    BY <1>6 DEF KillLeftovers, ReadLine
  <2>2. UNCHANGED pc
    BY <1>6 DEF KillLeftovers, workerVars
  <2>3. \A w \in doomed' : w \in doomed \/ (w \in Lines /\ \E k \in Keys : rows[k] = w)
    BY <1>6 DEF KillLeftovers
  <2>4. DoomedAreNamed'
    BY <1>1, <2>2, <2>3, KindStays DEF NamesInv, DoomedAreNamed, RowsAreNamed, Past, Spawned
  <2>5. (RowsAreNamed /\ VictimsAreNamed /\ StopsAreNamed /\ CallsAreNamed)'
    <3>1. \A w : WorkerKey(w)' = WorkerKey(w) /\ (Past(w)' <=> Past(w))
      BY <1>1, <2>2, KindStays DEF Past, Spawned
    <3>2. \A b : Kind(b)' = Kind(b) /\ \A id : KeyOf(b, id)' = KeyOf(b, id)
      BY <1>1, KindStays
    <3>3. RowsAreNamed'
      BY <1>4, <2>1, <3>1, <3>2 DEF NamesInv, RowsAreNamed
    <3>4. VictimsAreNamed'
      BY <1>3, <2>1, <2>2, <3>1, <3>2 DEF NamesInv, VictimsAreNamed
    <3>5. StopsAreNamed' /\ CallsAreNamed'
      BY <1>3, <2>1, <3>1, <3>2 DEF NamesInv, StopsAreNamed, CallsAreNamed, Requests
    <3> QED
      BY <3>3, <3>4, <3>5
  <2> QED
    BY <1>3, <2>1, <2>4, <2>5 DEF NamesInv
<1> QED
  BY <1>2, <1>5, <1>6

\* Workers go on by themselves, or end.
LEMMA PlainWorkerNames ==
  ASSUME Types, WireInv, NamesInv, [Next]_vars, NEW w \in Lines,
         \/ Reply(w) \/ Deregister(w) \/ ClearRow(w) \/ LspAnswers(w)
         \/ Dies(w) \/ Panics(w) \/ Hangs(w)
  PROVE  NamesInv'
<1>1. \/ pc' = pc
      \/ pc' = [pc EXCEPT ![w] = "dead"] /\ Spawned(w)
      \/ pc' = [pc EXCEPT ![w] = "replied"] /\ Spawned(w)
      \/ pc' = [pc EXCEPT ![w] = "answered"] /\ Spawned(w)
      \/ pc' = [pc EXCEPT ![w] = "hung"] /\ Spawned(w)
      \/ pc' = [pc EXCEPT ![w] = "routing"] /\ pc[w] = "clearing"
  BY DEF Reply, Deregister, ClearRow, LspAnswers, Dies, Panics, Hangs, Exits, GoTo, At, Living,
         Spawned, Types, WorkerTypes
<1>2. /\ UNCHANGED <<victim, kills, cancels, doomed>> /\ calls' \subseteq calls
      /\ transport' = transport
  BY DEF Reply, Deregister, ClearRow, LspAnswers, Dies, Panics, Hangs, Exits, tables, cancelVars
<1>3. \A k \in Keys : rows'[k] \in {rows[k], NoLine} /\ lspRows'[k] \in {lspRows[k], NoLine}
  BY DEF Reply, Deregister, ClearRow, LspAnswers, Dies, Panics, Hangs, tables, Types, WorkerTypes
<1>4. \A x \in Lines : pc'[x] = pc[x] \/ (Spawned(x) /\ pc'[x] \notin {"unsent", "spawned"})
  BY <1>1 DEF Types, WorkerTypes, Spawned
<1>5. LinesFromClients'
  BY <1>2, <1>4, KindStays DEF NamesInv, LinesFromClients, Spawned
<1>6. \A x \in Lines : pc'[x] \in {"killing", "clearing", "routing", "cancelled"} =>
        /\ pc[x] \in {"killing", "clearing", "routing", "cancelled"}
        /\ pc'[x] \in {"killing", "clearing"} => pc[x] \in {"killing", "clearing"}
  BY <1>1 DEF Types, WorkerTypes
<1> QED
  BY <1>2, <1>3, <1>5, <1>6, NamesKept

\* Steps that name: a row, or what a cancel has found.
LEMMA RowsNamed ==
  ASSUME Types, WireInv, NamesInv, [Next]_vars,
         \A k \in Keys :
           \/ rows'[k] \in {rows[k], NoLine}
           \/ \E w \in Lines : rows'[k] = w /\ k = WorkerKey(w) /\ Past(w)' /\ Kind(w.conn) # "http",
         \A k \in Keys :
           \/ lspRows'[k] \in {lspRows[k], NoLine}
           \/ \E w \in Requests : lspRows'[k] = w /\ k = WorkerKey(w) /\ Past(w)'
  PROVE  RowsAreNamed'
<1>1. /\ \A v \in Lines : Past(v) => Past(v)'
      /\ \A c : Kind(c)' = Kind(c)
      /\ \A v : WorkerKey(v)' = WorkerKey(v)
  BY LinesGoOn, TransportStays, KindStays
<1>2. Keys' = Keys /\ Requests' = Requests
  BY DEF Keys, Ids, Requests
<1> SUFFICES ASSUME NEW k \in Keys
             PROVE  /\ rows'[k] # NoLine =>
                         k = WorkerKey(rows[k])' /\ Past(rows[k])' /\ Kind(rows[k].conn)' # "http"
                    /\ lspRows'[k] # NoLine =>
                         k = WorkerKey(lspRows[k])' /\ Past(lspRows[k])' /\ lspRows'[k] \in Requests
  BY <1>2 DEF RowsAreNamed
<1>3. rows[k] \in Lines \cup {NoLine} /\ lspRows[k] \in Lines \cup {NoLine}
  BY DEF Types, WorkerTypes
<1>4. ASSUME rows'[k] # NoLine
      PROVE  \E w \in Lines : rows'[k] = w /\ k = WorkerKey(w) /\ Past(w)' /\ Kind(w.conn) # "http"
  BY <1>1, <1>3, <1>4 DEF NamesInv, RowsAreNamed
<1>5. ASSUME lspRows'[k] # NoLine
      PROVE  \E w \in Requests : lspRows'[k] = w /\ k = WorkerKey(w) /\ Past(w)'
  <2>1. CASE lspRows'[k] = lspRows[k]
    <3>1. lspRows[k] \in Lines /\ lspRows[k] \in Requests /\ k = WorkerKey(lspRows[k]) /\ Past(lspRows[k])
      BY <1>3, <1>5, <2>1 DEF NamesInv, RowsAreNamed
    <3> QED
      BY <1>1, <2>1, <3>1
  <2> QED
    BY <1>5, <2>1
<1>6. ASSUME NEW w, rows'[k] = w, k = WorkerKey(w), Past(w)', Kind(w.conn) # "http"
      PROVE  k = WorkerKey(rows[k])' /\ Past(rows[k])' /\ Kind(rows[k].conn)' # "http"
  BY <1>1, <1>6 DEF WorkerKey, KeyOf, Scope, Kind, PeekId, Past, Spawned
<1>7. ASSUME NEW w, lspRows'[k] = w, k = WorkerKey(w), Past(w)'
      PROVE  k = WorkerKey(lspRows[k])' /\ Past(lspRows[k])'
  BY <1>1, <1>7 DEF WorkerKey, KeyOf, Scope, Kind, PeekId, Past, Spawned
<1> QED
  BY <1>4, <1>5, <1>6, <1>7

LEMMA VictimsNamed ==
  ASSUME Types, WireInv, NamesInv, [Next]_vars,
         \A x \in Lines :
           \/ victim'[x] = victim[x]
           \/ /\ x \notin Requests /\ Past(x)'
              /\ victim'[x] = NoLine \/ \E w \in Requests :
                   victim'[x] = w /\ Past(w)' /\ Kind(w.conn) # "http" /\ KeyOf(x.conn, x.id) = WorkerKey(w),
         \A x \in Lines :
           \/ pc'[x] = pc[x] /\ victim'[x] = victim[x]
           \/ pc'[x] \notin {"killing", "clearing", "routing", "cancelled"}
           \/ x \notin Requests /\ (pc'[x] \in {"killing", "clearing"} => victim'[x] # NoLine)
  PROVE  VictimsAreNamed'
<1>1. /\ \A v \in Lines : Past(v) => Past(v)'
      /\ \A c : Kind(c)' = Kind(c)
      /\ \A v : WorkerKey(v)' = WorkerKey(v)
      /\ \A c, id : KeyOf(c, id)' = KeyOf(c, id)
  BY LinesGoOn, TransportStays, KindStays
<1> SUFFICES ASSUME NEW x \in Lines
             PROVE  /\ pc'[x] \in {"killing", "clearing", "routing", "cancelled"} => x \notin Requests
                    /\ pc'[x] \in {"killing", "clearing"} => victim'[x] # NoLine
                    /\ victim'[x] # NoLine =>
                         /\ x \notin Requests /\ Past(x)'
                         /\ victim'[x] \in Requests /\ Past(victim[x])' /\ Kind(victim[x].conn)' # "http"
                         /\ KeyOf(x.conn, x.id)' = WorkerKey(victim[x])'
  BY DEF VictimsAreNamed, Requests
<1>2. /\ pc'[x] \in {"killing", "clearing", "routing", "cancelled"} => x \notin Requests
      /\ pc'[x] \in {"killing", "clearing"} => victim'[x] # NoLine
  BY DEF NamesInv, VictimsAreNamed
<1>3. victim[x] \in Lines \cup {NoLine}
  BY DEF Types, WorkerTypes
<1>4. ASSUME victim'[x] # NoLine
      PROVE  /\ x \notin Requests /\ Past(x)'
             /\ \E w \in Requests :
                  victim'[x] = w /\ Past(w)' /\ Kind(w.conn) # "http" /\ KeyOf(x.conn, x.id) = WorkerKey(w)
  <2>1. CASE victim'[x] = victim[x]
    <3>1. /\ x \notin Requests /\ Past(x) /\ victim[x] \in Lines
          /\ victim[x] \in Requests /\ Past(victim[x]) /\ Kind(victim[x].conn) # "http"
          /\ KeyOf(x.conn, x.id) = WorkerKey(victim[x])
      BY <1>3, <1>4, <2>1 DEF NamesInv, VictimsAreNamed
    <3> QED
      BY <1>1, <2>1, <3>1
  <2> QED
    BY <1>4, <2>1
<1>5. ASSUME NEW w, victim'[x] = w, KeyOf(x.conn, x.id) = WorkerKey(w), Past(w)', Kind(w.conn) # "http"
      PROVE  /\ Past(victim[x])' /\ Kind(victim[x].conn)' # "http"
             /\ KeyOf(x.conn, x.id)' = WorkerKey(victim[x])'
  <2>1. KeyOf(x.conn, x.id)' = KeyOf(x.conn, x.id) /\ WorkerKey(w)' = WorkerKey(w)
    BY <1>1
  <2>2. Kind(victim[x].conn)' = Kind(w.conn)'
    BY <1>5 DEF Kind
  <2>3. WorkerKey(victim[x])' = WorkerKey(w)'
    BY <1>5 DEF WorkerKey, KeyOf, Scope, Kind, PeekId
  <2> QED
    BY <1>1, <1>5, <2>1, <2>2, <2>3 DEF Past, Spawned
<1> QED
  BY <1>2, <1>4, <1>5

\* A cancel goes on, or none does.
LEMMA VictimsStay ==
  ASSUME Types, WireInv, NamesInv, [Next]_vars, victim' = victim, NEW w \in Lines,
         \A x \in Lines : x # w => pc'[x] = pc[x],
         \/ pc'[w] \notin {"killing", "clearing", "routing", "cancelled"}
         \/ w \notin Requests /\ (pc'[w] \in {"killing", "clearing"} => victim[w] # NoLine)
  PROVE  VictimsAreNamed'
<1>1. \A x \in Lines :
        \/ pc'[x] = pc[x] /\ victim'[x] = victim[x]
        \/ pc'[x] \notin {"killing", "clearing", "routing", "cancelled"}
        \/ x \notin Requests /\ (pc'[x] \in {"killing", "clearing"} => victim'[x] # NoLine)
  OBVIOUS
<1>2. \A x \in Lines : victim'[x] = victim[x]
  OBVIOUS
<1> QED
  BY <1>1, <1>2, VictimsNamed

LEMMA WorkerNames ==
  ASSUME Types, WireInv, NamesInv, [Next]_vars, NEW w \in Lines,
         Works(w) \/ CallLsp(w) \/ LspAnswers(w) \/ Dies(w) \/ Panics(w) \/ Hangs(w)
  PROVE  NamesInv'
<1>1. /\ \A v \in Lines : Past(v) => Past(v)'
      /\ \A c : Kind(c)' = Kind(c)
      /\ \A c, id : KeyOf(c, id)' = KeyOf(c, id)
      /\ \A v : WorkerKey(v)' = WorkerKey(v)
  BY LinesGoOn, TransportStays, KindStays
<1>2. ASSUME \A v \in Lines : v # w => pc'[v] = pc[v], pc'[w] \notin {"unsent", "spawned"}, Spawned(w)
      PROVE  LinesFromClients'
  BY <1>1, <1>2 DEF NamesInv, LinesFromClients, Spawned
<1>3. ASSUME UNCHANGED <<kills, cancels>> PROVE StopsAreNamed'
  BY <1>1, <1>3 DEF NamesInv, StopsAreNamed, Requests
<1>4. ASSUME doomed' = doomed PROVE DoomedAreNamed'
  BY <1>1, <1>4 DEF NamesInv, DoomedAreNamed
<1>5. ASSUME calls' = calls PROVE CallsAreNamed'
  <2>1. \A v \in calls : v \in Lines
    BY DEF Types, WorkerTypes
  <2> QED
    BY <1>1, <1>5, <2>1 DEF NamesInv, CallsAreNamed, Requests
<1>6. CASE Register(w)
  <2>1. /\ pc[w] = "spawned" /\ pc' = [pc EXCEPT ![w] = "running"]
        /\ rows' = [rows EXCEPT ![WorkerKey(w)] = w]
        /\ UNCHANGED <<lspRows, victim, kills, cancels, calls, doomed>>
    BY <1>6 DEF Register, At, GoTo, cancelVars
  <2>2. LinesFromClients' /\ pc'[w] = "running" /\ \A v \in Lines : v # w => pc'[v] = pc[v]
    <3>1. pc'[w] = "running" /\ \A v \in Lines : v # w => pc'[v] = pc[v]
      BY <2>1 DEF Types, WorkerTypes
    <3>2. Spawned(w)
      BY <2>1 DEF Spawned
    <3> QED
      BY <1>2, <2>1, <3>1, <3>2
  <2>3. Past(w)' /\ Kind(w.conn) # "http"
    BY <2>1, <2>2 DEF Past, Spawned, NamesInv, LinesFromClients
  <2>4. \A k \in Keys : rows'[k] = IF k = WorkerKey(w) THEN w ELSE rows[k]
    BY <2>1, KeysAreKeys DEF Types, WorkerTypes
  <2>5. RowsAreNamed'
    BY <2>1, <2>3, <2>4, RowsNamed
  <2>6. VictimsAreNamed'
    BY <2>1, <2>2, VictimsStay
  <2> QED
    BY <1>3, <1>4, <1>5, <2>1, <2>2, <2>5, <2>6 DEF NamesInv
<1>7. CASE CallLsp(w)
  <2>1. /\ pc[w] = "running" /\ pc' = [pc EXCEPT ![w] = "calling"] /\ w \in Requests
        /\ lspRows' = [lspRows EXCEPT ![WorkerKey(w)] = w] /\ calls' = calls \cup {w}
        /\ UNCHANGED <<rows, victim, kills, cancels, doomed>>
    BY <1>7 DEF CallLsp, At, GoTo, cancelVars
  <2>2. LinesFromClients' /\ pc'[w] = "calling" /\ \A v \in Lines : v # w => pc'[v] = pc[v]
    <3>1. pc'[w] = "calling" /\ \A v \in Lines : v # w => pc'[v] = pc[v]
      BY <2>1 DEF Types, WorkerTypes
    <3>2. Spawned(w)
      BY <2>1 DEF Spawned
    <3> QED
      BY <1>2, <2>1, <3>1, <3>2
  <2>3. Past(w)'
    BY <2>2 DEF Past, Spawned
  <2>4. \A k \in Keys : lspRows'[k] = IF k = WorkerKey(w) THEN w ELSE lspRows[k]
    BY <2>1, KeysAreKeys DEF Types, WorkerTypes
  <2>5. RowsAreNamed'
    BY <2>1, <2>3, <2>4, RowsNamed
  <2>6. VictimsAreNamed'
    BY <2>1, <2>2, VictimsStay
  <2>7. CallsAreNamed'
    <3>1. \A v \in calls : v \in Requests /\ v \in Lines /\ Past(v)
      BY DEF NamesInv, CallsAreNamed, Types, WorkerTypes
    <3> QED
      BY <1>1, <2>1, <2>3, <3>1 DEF CallsAreNamed, Requests
  <2> QED
    BY <1>3, <1>4, <2>1, <2>2, <2>5, <2>6, <2>7 DEF NamesInv
<1>8. CASE LookUpWorker(w)
  <2> DEFINE k == KeyOf(w.conn, w.id)
             l == IF rows[k] = NoLine THEN "routing" ELSE "killing"
  <2>1. /\ w \notin Requests /\ pc[w] = "running" /\ pc' = [pc EXCEPT ![w] = l]
        /\ victim' = [victim EXCEPT ![w] = rows[k]]
        /\ UNCHANGED <<rows, lspRows, kills, cancels, calls, doomed>>
    BY <1>8 DEF LookUpWorker, At, GoTo, tables, cancelVars
  <2>2. k \in Keys /\ (rows[k] = NoLine <=> l = "routing") /\ l \in {"routing", "killing"}
    BY KeysAreKeys
  <2> HIDE DEF l
  <2>3. LinesFromClients' /\ pc'[w] = l /\ \A v \in Lines : v # w => pc'[v] = pc[v]
    <3>1. pc'[w] = l /\ \A v \in Lines : v # w => pc'[v] = pc[v]
      BY <2>1 DEF Types, WorkerTypes
    <3>2. Spawned(w)
      BY <2>1 DEF Spawned
    <3> QED
      BY <1>2, <2>1, <2>2, <3>1, <3>2
  <2>4. RowsAreNamed'
    BY <2>1, RowsNamed
  <2>5. Past(w)'
    BY <1>1, <2>1 DEF Past, Spawned
  <2>6. rows[k] # NoLine =>
          \E v \in Requests : rows[k] = v /\ Past(v)' /\ Kind(v.conn) # "http"
                              /\ KeyOf(w.conn, w.id) = WorkerKey(v)
    <3>1. rows[k] \in Lines \cup {NoLine}
      BY <2>2 DEF Types, WorkerTypes
    <3> QED
      BY <1>1, <2>2, <3>1, KeysName DEF NamesInv, RowsAreNamed
  <2> HIDE DEF k
  <2>7. \A x \in Lines : victim'[x] = IF x = w THEN rows[k] ELSE victim[x]
    BY <2>1 DEF Types, WorkerTypes
  <2>8. VictimsAreNamed'
    BY <2>1, <2>2, <2>3, <2>5, <2>6, <2>7, VictimsNamed
  <2> QED
    BY <1>3, <1>4, <1>5, <2>1, <2>3, <2>4, <2>8 DEF NamesInv
<1>9. CASE Kill(w)
  <2>1. /\ pc[w] = "killing" /\ pc' = [pc EXCEPT ![w] = "clearing"]
        /\ kills' = kills \cup {<<w, victim[w]>>} /\ doomed' = doomed \cup {victim[w]}
        /\ UNCHANGED <<rows, lspRows, victim, cancels, calls>>
    BY <1>9 DEF Kill, At, GoTo, tables
  <2>2. LinesFromClients' /\ pc'[w] = "clearing" /\ \A v \in Lines : v # w => pc'[v] = pc[v]
    <3>1. pc'[w] = "clearing" /\ \A v \in Lines : v # w => pc'[v] = pc[v]
      BY <2>1 DEF Types, WorkerTypes
    <3>2. Spawned(w)
      BY <2>1 DEF Spawned
    <3> QED
      BY <1>2, <2>1, <3>1, <3>2
  <2>3. /\ victim[w] # NoLine /\ Past(w) /\ victim[w] \in Requests /\ Past(victim[w])
        /\ Kind(victim[w].conn) # "http" /\ KeyOf(w.conn, w.id) = WorkerKey(victim[w])
        /\ w \notin Requests
    BY <2>1 DEF NamesInv, VictimsAreNamed
  <2>4. PICK v \in Requests : victim[w] = v
    BY <2>3
  <2>5. v \in Lines /\ Past(v) /\ Kind(v.conn) # "http" /\ KeyOf(w.conn, w.id) = WorkerKey(v)
    BY <2>3, <2>4 DEF Requests
  <2>6. RowsAreNamed'
    BY <2>1, RowsNamed
  <2>7. VictimsAreNamed'
    BY <2>1, <2>2, <2>3, VictimsStay
  <2>8. DoomedAreNamed'
    BY <1>1, <2>1, <2>4, <2>5 DEF NamesInv, DoomedAreNamed
  <2>9. StopsAreNamed'
    <3> SUFFICES ASSUME NEW p \in kills' \cup cancels'
                 PROVE  /\ p[1] \in Lines /\ Past(p[1])' /\ p[2] \in Requests /\ Past(p[2])'
                        /\ KeyOf(p[1].conn, p[1].id) = WorkerKey(p[2])
      BY <1>1 DEF StopsAreNamed, Requests
    <3>1. CASE p \in kills \cup cancels
      BY <1>1, <3>1 DEF NamesInv, StopsAreNamed, Requests
    <3>2. CASE p = <<w, v>>
      BY <1>1, <2>3, <2>5, <3>2
    <3> QED
      BY <2>1, <2>4, <3>1, <3>2
  <2> QED
    BY <1>5, <2>1, <2>2, <2>6, <2>7, <2>8, <2>9 DEF NamesInv
<1>10. CASE CancelCall(w)
  <2> DEFINE k == KeyOf(w.conn, w.id)
  <2>1. /\ pc[w] = "routing" /\ pc' = [pc EXCEPT ![w] = "cancelled"]
        /\ cancels' = IF lspRows[k] = NoLine THEN cancels ELSE cancels \cup {<<w, lspRows[k]>>}
        /\ UNCHANGED <<rows, lspRows, victim, kills, calls, doomed>>
    BY <1>10 DEF CancelCall, At, GoTo, tables
  <2>2. LinesFromClients' /\ pc'[w] = "cancelled" /\ \A v \in Lines : v # w => pc'[v] = pc[v]
    <3>1. pc'[w] = "cancelled" /\ \A v \in Lines : v # w => pc'[v] = pc[v]
      BY <2>1 DEF Types, WorkerTypes
    <3>2. Spawned(w)
      BY <2>1 DEF Spawned
    <3> QED
      BY <1>2, <2>1, <3>1, <3>2
  <2>3. Past(w) /\ w \notin Requests
    BY <2>1 DEF Past, Spawned, NamesInv, VictimsAreNamed
  <2>4. ASSUME lspRows[k] # NoLine
        PROVE  /\ lspRows[k] \in Lines /\ lspRows[k] \in Requests /\ Past(lspRows[k])
               /\ k = WorkerKey(lspRows[k])
    <3>1. k \in Keys /\ lspRows[k] \in Lines \cup {NoLine}
      BY KeysAreKeys DEF Types, WorkerTypes
    <3> QED
      BY <2>4, <3>1 DEF NamesInv, RowsAreNamed
  <2>5. RowsAreNamed'
    BY <2>1, RowsNamed
  <2>6. VictimsAreNamed'
    BY <2>1, <2>2, <2>3, VictimsStay
  <2>7. StopsAreNamed'
    <3> SUFFICES ASSUME NEW p \in kills' \cup cancels'
                 PROVE  /\ p[1] \in Lines /\ Past(p[1])' /\ p[2] \in Requests /\ Past(p[2])'
                        /\ KeyOf(p[1].conn, p[1].id) = WorkerKey(p[2])
      BY <1>1 DEF StopsAreNamed, Requests
    <3>1. CASE p \in kills \cup cancels
      BY <1>1, <3>1 DEF NamesInv, StopsAreNamed, Requests
    <3>2. CASE p = <<w, lspRows[k]>> /\ lspRows[k] # NoLine
      BY <1>1, <2>3, <2>4, <3>2
    <3> QED
      BY <2>1, <3>1, <3>2
  <2> QED
    BY <1>4, <1>5, <2>1, <2>2, <2>5, <2>6, <2>7 DEF NamesInv
<1> QED
  BY <1>6, <1>7, <1>8, <1>9, <1>10, PlainWorkerNames DEF Works

LEMMA NamesStep ==
  ASSUME Types, WireInv, SessionInv, NamesInv, [Next]_vars
  PROVE  NamesInv'
<1>1. CASE UNCHANGED vars
  BY <1>1, NamesKept, KindStays
     DEF vars, connVars, workerVars, tables, cancelVars, NamesInv, LinesFromClients
<1> QED
  BY <1>1, ClientNames, ProcessNames, WorkerNames DEF Next

\* The inductive invariant, as far as names go.
DispatchInv == Types /\ WireInv /\ SessionInv /\ NamesInv

LEMMA DispatchHolds == Spec => []DispatchInv
<1>1. Init => DispatchInv
  BY InitTypes, InitWireInv, InitSessionInv, InitNamesInv DEF DispatchInv
<1>2. DispatchInv /\ [Next]_vars => DispatchInv'
  BY TypesStep, WireStep, SessionStep, NamesStep DEF DispatchInv
<1> QED
  BY <1>1, <1>2, PTL DEF Spec

\* On the stdio stream and on the connections of a daemon, a cancel stops nothing but
\* the request of its own connection that it names: keys carry the connection (session_ctx.scoped),
\* rows stay under their workers' keys, and what a cancel finds is under the key it names.
\* (HTTP sessions share the key space, with each other and with stdio: there it fails.)
THEOREM CancelsKeepToTheirConnection ==
  ASSUME Transports \subseteq {"stdio", "daemon"}
  PROVE  Spec => []CancelsStayHome
<1>1. DispatchInv => CancelsStayHome
  <2> SUFFICES ASSUME DispatchInv, NEW p \in kills \cup cancels
               PROVE  p[2].kind = "request" /\ p[2].conn = p[1].conn /\ p[2].id = p[1].id
    BY DEF CancelsStayHome
  <2>1. /\ p[1] \in Lines /\ Past(p[1]) /\ p[2] \in Requests /\ Past(p[2])
        /\ KeyOf(p[1].conn, p[1].id) = WorkerKey(p[2])
    BY DEF DispatchInv, NamesInv, StopsAreNamed
  <2>2. p[2] \in Lines /\ p[2].kind = "request"
    BY <2>1 DEF Requests
  <2>3. p[2].id = p[1].id /\ Scope(p[2].conn) = Scope(p[1].conn)
    BY <2>1, <2>2, KeysName
  <2>4. Kind(p[1].conn) # "absent" /\ Kind(p[2].conn) # "absent"
    BY <2>1, <2>2 DEF Past, Spawned, DispatchInv, NamesInv, LinesFromClients
  <2>5. transport \in {"stdio", "daemon"}
    BY DEF DispatchInv, Types
  <2>6. CASE transport = "daemon"
    <3>1. Scope(p[1].conn) = <<p[1].conn>> /\ Scope(p[2].conn) = <<p[2].conn>>
      BY <2>6 DEF Scope, Kind
    <3> QED
      BY <2>2, <2>3, <3>1
  <2>7. CASE transport = "stdio"
    <3>1. p[1].conn = StdioConn /\ p[2].conn = StdioConn
      BY <2>4, <2>7 DEF Kind
    <3> QED
      BY <2>2, <2>3, <3>1
  <2> QED
    BY <2>5, <2>6, <2>7
<1> QED
  BY <1>1, DispatchHolds, PTL

-----------------------------------------------------------------------------
(* What the workers have told their connections, and the count of them.     *)

Down(w) == [tag |-> "down", worker |-> w]
Holds(c, m) == \E i \in DOMAIN mailbox[c] : mailbox[c][i] = m

\* Messages are from a connection's own workers, and a DOWN from a dead one; HTTP
\* requests send none.
MailIsOurs ==
  /\ \A c \in Conns : \A i \in DOMAIN mailbox[c] :
       /\ mailbox[c][i].worker.conn = c /\ Kind(c) # "http"
       /\ mailbox[c][i].tag = "down" => pc[mailbox[c][i].worker] = "dead"
  /\ \A w \in Lines : pc[w] = "replied" => Kind(w.conn) # "http"

\* A worker goes down once.
DownsAreUnique ==
  \A c \in Conns : \A i, j \in DOMAIN mailbox[c] :
    mailbox[c][i].tag = "down" /\ mailbox[c][i] = mailbox[c][j] => i = j

\* A reply still to be written is from a worker whose DOWN is still to be taken.
WritesComeFirst ==
  \A c \in Conns : phase[c] # "finished" =>
    \A i \in DOMAIN mailbox[c] : mailbox[c][i].tag = "write" =>
      \/ mailbox[c][i].worker \in Living
      \/ \E j \in DOMAIN mailbox[c] : j > i /\ mailbox[c][j] = Down(mailbox[c][i].worker)

MailInv == MailIsOurs /\ DownsAreUnique /\ WritesComeFirst

\* The workers a connection waits for: their DOWN is still to be sent or still to be taken.
Pending(c) == {w \in Of(c) : (w \in Living /\ Kind(c) # "http") \/ Holds(c, Down(w))}

CountInv ==
  \A c \in Conns :
    /\ inflight[c] \in 0..Cardinality(Lines)
    /\ phase[c] # "finished" => inflight[c] = Cardinality(Pending(c))

LEMMA InitMailInv == Init => MailInv
  BY DEF Init, MailInv, MailIsOurs, DownsAreUnique, WritesComeFirst

LEMMA CountsAreBounded ==
  ASSUME NEW S, S \subseteq Lines
  PROVE  /\ IsFiniteSet(S) /\ Cardinality(S) \in 0..Cardinality(Lines)
         /\ \A w \in S : Cardinality(S \ {w}) = Cardinality(S) - 1
         /\ \A w \in Lines : w \notin S => Cardinality(S \cup {w}) = Cardinality(S) + 1
         /\ Cardinality(S) = 0 => S = {}
<1>1. IsFiniteSet(S) /\ Cardinality(S) <= Cardinality(Lines)
  BY LinesFinite, FS_Subset
<1>2. Cardinality(S) \in Nat /\ Cardinality(Lines) \in Nat
  BY <1>1, LinesFinite, FS_CardinalityType
<1>3. \A w \in S : Cardinality(S \ {w}) = Cardinality(S) - 1
  BY <1>1, FS_RemoveElement
<1>4. \A w \in Lines : w \notin S => Cardinality(S \cup {w}) = Cardinality(S) + 1
  BY <1>1, FS_AddElement
<1>5. Cardinality(S) = 0 => S = {}
  BY <1>1, FS_EmptySet
<1> QED
  BY <1>1, <1>2, <1>3, <1>4, <1>5

LEMMA InitCountInv == Init => CountInv
<1> SUFFICES ASSUME Init, NEW c \in Conns
             PROVE  /\ inflight[c] = 0
                    /\ inflight[c] \in 0..Cardinality(Lines) /\ inflight[c] = Cardinality(Pending(c))
  BY DEF CountInv
<1>1. Pending(c) = {}
  BY DEF Init, Pending, Living, Of, Holds
<1> QED
  BY <1>1, LinesFinite, FS_CardinalityType, FS_EmptySet DEF Init

\* A count that goes with what it counts.
LEMMA CountKept ==
  ASSUME Types, CountInv, UNCHANGED inflight,
         \A c \in Conns : phase'[c] # "finished" => phase[c] # "finished" /\ Pending(c)' = Pending(c)
  PROVE  CountInv'
<1> SUFFICES ASSUME NEW c \in Conns
             PROVE  /\ inflight'[c] \in 0..Cardinality(Lines)
                    /\ phase'[c] # "finished" => inflight'[c] = Cardinality(Pending(c)')
  BY DEF CountInv
<1>1. /\ inflight[c] \in 0..Cardinality(Lines)
      /\ phase[c] # "finished" => inflight[c] = Cardinality(Pending(c))
  BY DEF CountInv
<1> QED
  BY <1>1

LEMMA MailTyped ==
  ASSUME Types, NEW c \in Conns
  PROVE  /\ mailbox[c] \in Seq(Messages)
         /\ \A i \in DOMAIN mailbox[c] :
              /\ mailbox[c][i].worker \in Lines
              /\ mailbox[c][i].tag \in {"write", "done", "down"}
              /\ mailbox[c][i].tag = "down" => mailbox[c][i] = Down(mailbox[c][i].worker)
<1>1. mailbox[c] \in Seq(Messages)
  BY DEF Types, ConnTypes
<1>2. ASSUME NEW i \in DOMAIN mailbox[c] PROVE mailbox[c][i] \in Messages
  BY <1>1, <1>2
<1>3. \A m \in Messages :
        m.worker \in Lines /\ m.tag \in {"write", "done", "down"} /\ (m.tag = "down" => m = Down(m.worker))
  BY DEF Messages, Down
<1> QED
  BY <1>1, <1>2, <1>3

\* The mailboxes are as they were, and nobody in particular has gone.
LEMMA MailKept ==
  ASSUME Types, MailInv, transport' = transport, UNCHANGED mailbox,
         \A c \in Conns : phase[c] = "finished" => phase'[c] = "finished",
         \A w \in Lines : /\ w \in Living => w \in Living' \/ Kind(w.conn) = "http"
                          /\ pc[w] = "dead" => pc'[w] = "dead"
                          /\ pc'[w] = "replied" => pc[w] = "replied"
  PROVE  MailInv'
<1>1. \A c : Kind(c)' = Kind(c)
  BY KindStays
<1>2. \A c \in Conns : \A i \in DOMAIN mailbox[c] :
        mailbox[c][i].worker \in Lines /\ Kind(mailbox[c][i].worker.conn) # "http"
  BY MailTyped DEF MailInv, MailIsOurs
<1>3. MailIsOurs'
  BY <1>1, <1>2 DEF MailInv, MailIsOurs
<1>4. DownsAreUnique'
  BY DEF MailInv, DownsAreUnique
<1>5. WritesComeFirst'
  BY <1>2 DEF MailInv, WritesComeFirst, Down
<1> QED
  BY <1>3, <1>4, <1>5 DEF MailInv

\* A worker that lives sends its connection a message, its last one when it ends.
LEMMA MailGrows ==
  ASSUME Types, MailInv, transport' = transport, UNCHANGED phase,
         NEW w \in Lines, NEW m \in Messages, m.worker = w, w \in Living, Kind(w.conn) # "http",
         Tell(w.conn, m), \A v \in Lines : v # w => pc'[v] = pc[v],
         \/ m.tag = "down" /\ pc'[w] = "dead"
         \/ m.tag # "down" /\ w \in Living'
  PROVE  /\ MailInv'
         /\ \A c \in Conns : phase[c] # "finished" => Pending(c)' = Pending(c)
<1>1. /\ \A c : Kind(c)' = Kind(c)
      /\ w.conn \in Conns
      /\ \A v \in Lines : v # w => (v \in Living <=> v \in Living')
      /\ m.tag \in {"write", "done", "down"} /\ (m.tag = "down" => m = Down(w))
  BY KindStays, KeysAreKeys DEF Living, Messages, Down
<1>2. /\ pc'[w] = "replied" => Kind(w.conn) # "http"
      /\ \A v \in Lines : pc[v] = "dead" => pc'[v] = "dead"
  BY DEF Living
<1>3. \A v \in Lines : pc'[v] = "replied" => Kind(v.conn)' # "http"
  BY <1>1, <1>2 DEF MailInv, MailIsOurs
<1>4. CASE phase[w.conn] = "finished"
  <2>1. UNCHANGED mailbox
    BY <1>4 DEF Tell, Open
  <2>2. \A c \in Conns : \A i \in DOMAIN mailbox[c] :
          mailbox[c][i].worker \in Lines /\ mailbox[c][i].worker.conn = c
    BY MailTyped DEF MailInv, MailIsOurs
  <2>3. MailIsOurs'
    BY <1>1, <1>2, <1>3, <2>1, <2>2 DEF MailInv, MailIsOurs
  <2>4. DownsAreUnique'
    BY <2>1 DEF MailInv, DownsAreUnique
  <2>5. WritesComeFirst'
    BY <1>1, <1>4, <2>1, <2>2 DEF MailInv, WritesComeFirst, Down
  <2>6. ASSUME NEW c \in Conns, phase[c] # "finished" PROVE Pending(c)' = Pending(c)
    BY <1>1, <1>4, <2>1, <2>6 DEF Pending, Of, Holds, Down
  <2> QED
    BY <2>3, <2>4, <2>5, <2>6 DEF MailInv
<1>5. CASE phase[w.conn] # "finished"
  <2> DEFINE b == w.conn
             n == Len(mailbox[b])
  <2>1. /\ mailbox[b] \in Seq(Messages) /\ mailbox'[b] = Append(mailbox[b], m)
        /\ \A c \in Conns : c # b => mailbox'[c] = mailbox[c]
    BY <1>1, <1>5 DEF Tell, Open, Types, ConnTypes
  <2>2. /\ n \in Nat /\ DOMAIN mailbox[b] = 1..n /\ DOMAIN mailbox'[b] = 1..(n + 1)
        /\ \A i \in 1..n : mailbox'[b][i] = mailbox[b][i]
        /\ mailbox'[b][n + 1] = m
    BY <2>1, AppendExtends
  <2> HIDE DEF n
  <2>3. ASSUME NEW i \in 1..n
        PROVE  /\ mailbox[b][i].worker \in Lines /\ mailbox[b][i].worker.conn = b
               /\ mailbox[b][i].tag = "down" => pc[mailbox[b][i].worker] = "dead"
               /\ mailbox[b][i] # Down(w)
    <3>1. /\ mailbox[b][i].worker \in Lines /\ mailbox[b][i].worker.conn = b
          /\ mailbox[b][i].tag = "down" => pc[mailbox[b][i].worker] = "dead"
      BY <1>1, <2>2, MailTyped DEF MailInv, MailIsOurs
    <3>2. pc[w] # "dead" /\ Down(w).tag = "down" /\ Down(w).worker = w
      BY DEF Down, Living
    <3> QED
      BY <3>1, <3>2
  <2>4. ASSUME NEW c \in Conns, c # b, NEW i \in DOMAIN mailbox[c]
        PROVE  mailbox[c][i].worker \in Lines /\ mailbox[c][i].worker # w
    BY <2>4, MailTyped DEF MailInv, MailIsOurs
  <2>5. MailIsOurs'
    <3>1. ASSUME NEW c \in Conns, NEW i \in DOMAIN mailbox'[c]
          PROVE  /\ mailbox'[c][i].worker.conn = c /\ Kind(c)' # "http"
                 /\ mailbox'[c][i].tag = "down" => pc'[mailbox'[c][i].worker] = "dead"
      <4>1. CASE c # b
        BY <1>1, <1>2, <2>1, <2>4, <3>1, <4>1 DEF MailInv, MailIsOurs
      <4>2. CASE c = b /\ i \in 1..n
        BY <1>1, <1>2, <2>2, <2>3, <4>2
      <4>3. CASE c = b /\ i = n + 1
        BY <1>1, <2>2, <4>3
      <4> QED
        BY <2>2, <3>1, <4>1, <4>2, <4>3
    <3> QED
      BY <1>3, <3>1 DEF MailIsOurs
  <2>6. DownsAreUnique'
    <3> SUFFICES ASSUME NEW c \in Conns, NEW i \in DOMAIN mailbox'[c], NEW j \in DOMAIN mailbox'[c],
                        mailbox'[c][i].tag = "down", mailbox'[c][i] = mailbox'[c][j]
                 PROVE  i = j
      BY DEF DownsAreUnique
    <3>1. CASE c # b
      BY <2>1, <3>1 DEF MailInv, DownsAreUnique
    <3>2. CASE c = b /\ i \in 1..n /\ j \in 1..n
      BY <2>2, <3>2 DEF MailInv, DownsAreUnique
    <3>3. CASE c = b /\ (i = n + 1 \/ j = n + 1)
      BY <1>1, <2>2, <2>3, <3>3
    <3> QED
      BY <2>2, <3>1, <3>2, <3>3
  <2>7. WritesComeFirst'
    <3> SUFFICES ASSUME NEW c \in Conns, phase[c] # "finished", NEW i \in DOMAIN mailbox'[c],
                        mailbox'[c][i].tag = "write"
                 PROVE  \/ mailbox'[c][i].worker \in Living'
                        \/ \E j \in DOMAIN mailbox'[c] :
                             j > i /\ mailbox'[c][j] = Down(mailbox'[c][i].worker)
      BY DEF WritesComeFirst, Down
    <3>1. CASE c # b
      BY <1>1, <2>1, <2>4, <3>1 DEF MailInv, WritesComeFirst
    <3>2. CASE c = b /\ i = n + 1
      BY <2>2, <3>2
    <3>3. CASE c = b /\ i \in 1..n
      <4>1. \/ mailbox[b][i].worker \in Living
            \/ \E j \in 1..n : j > i /\ mailbox[b][j] = Down(mailbox[b][i].worker)
        BY <2>2, <3>3 DEF MailInv, WritesComeFirst
      <4>2. CASE \E j \in 1..n : j > i /\ mailbox[b][j] = Down(mailbox[b][i].worker)
        BY <2>2, <3>3, <4>2
      <4>3. CASE mailbox[b][i].worker \in Living /\ mailbox[b][i].worker # w
        BY <1>1, <2>2, <2>3, <3>3, <4>3
      <4>4. CASE mailbox[b][i].worker = w
        <5>1. CASE m.tag = "down"
          BY <1>1, <2>2, <3>3, <4>4, <5>1
        <5> QED
          BY <2>2, <3>3, <4>4, <5>1
      <4> QED
        BY <4>1, <4>2, <4>3, <4>4
    <3> QED
      BY <2>2, <3>1, <3>2, <3>3
  <2>8. ASSUME NEW c \in Conns PROVE Pending(c)' = Pending(c)
    <3>1. Of(c)' = Of(c)
      BY DEF Of
    <3>2. CASE c # b
      <4>1. \A v \in Of(c) : Holds(c, Down(v))' <=> Holds(c, Down(v))
        BY <2>1, <3>2 DEF Holds, Down
      <4>2. \A v \in Of(c) : v \in Lines /\ v # w
        BY <3>2 DEF Of
      <4> QED
        BY <1>1, <3>1, <4>1, <4>2 DEF Pending
    <3>3. CASE c = b
      <4>1. \A v : v # w => (Holds(c, Down(v))' <=> Holds(c, Down(v)))
        <5> SUFFICES ASSUME NEW v, v # w PROVE Holds(c, Down(v))' <=> Holds(c, Down(v))
          OBVIOUS
        <5>0. /\ Holds(c, Down(v))' <=> \E i \in DOMAIN mailbox'[c] : mailbox'[c][i] = Down(v)
              /\ Holds(c, Down(v)) <=> \E i \in DOMAIN mailbox[c] : mailbox[c][i] = Down(v)
          BY DEF Holds, Down
        <5>1. Down(v).worker # w
          BY DEF Down
        <5>2. m # Down(v)
          BY <5>1
        <5>3. (\A i \in 1..(n + 1) : i \in 1..n \/ i = n + 1) /\ (1..n \subseteq 1..(n + 1))
          BY <2>2
        <5>4. ASSUME NEW i \in 1..(n + 1), mailbox'[b][i] = Down(v)
              PROVE  \E j \in 1..n : mailbox[b][j] = Down(v)
          BY <2>2, <5>2, <5>3, <5>4
        <5>5. ASSUME NEW i \in 1..n, mailbox[b][i] = Down(v)
              PROVE  \E j \in 1..(n + 1) : mailbox'[b][j] = Down(v)
          BY <2>2, <5>3, <5>5
        <5> QED
          BY <2>2, <3>3, <5>0, <5>4, <5>5
      <4>2. m.tag = "down" => Holds(c, Down(w))'
        BY <1>1, <2>2, <3>3 DEF Holds, Down
      <4>3. w \in Of(c) /\ \A v \in Of(c) : v \in Lines
        BY <3>3 DEF Of
      <4>4. w \in Pending(c) /\ w \in Pending(c)'
        BY <1>1, <3>1, <3>3, <4>2, <4>3 DEF Pending
      <4>5. \A v \in Of(c) : v # w => (v \in Pending(c) <=> v \in Pending(c)')
        BY <1>1, <3>1, <4>1, <4>3 DEF Pending
      <4> QED
        BY <3>1, <4>4, <4>5 DEF Pending
    <3> QED
      BY <3>2, <3>3
  <2> QED
    BY <2>5, <2>6, <2>7, <2>8 DEF MailInv
<1> QED
  BY <1>4, <1>5

\* The connection takes a message: writes it, or counts a worker less.
LEMMA MailShrinks ==
  ASSUME Types, MailInv, CountInv, NEW c \in Conns, TakeMessage(c)
  PROVE  /\ MailInv' /\ CountInv'
         /\ inflight'[c] = Cardinality(Pending(c)')
         /\ \A i \in DOMAIN mailbox'[c] : mailbox'[c][i].tag = "write" =>
              mailbox'[c][i].worker \in Living' \/ Holds(c, Down(mailbox[c][i].worker))'
<1> DEFINE q == mailbox[c]
           n == Len(q)
<1>1. /\ phase[c] \in {"serving", "draining"} /\ q # <<>> /\ transport' = transport
      /\ mailbox' = [mailbox EXCEPT ![c] = Tail(@)]
      /\ inflight' = [inflight EXCEPT ![c] = IF Head(q).tag = "down" THEN @ - 1 ELSE @]
      /\ \A b \in Conns : b # c => phase'[b] = phase[b]
      /\ UNCHANGED pc \/ Drop(c)
  BY DEF TakeMessage, Counts, Finishes, Types, ConnTypes
<1>2. /\ \A b : Kind(b)' = Kind(b)
      /\ \A b : Of(b)' = Of(b)
      /\ \A w : w \in Living' <=> w \in Living
      /\ \A w \in Lines : pc[w] = "dead" => pc'[w] = "dead"
      /\ \A w \in Lines : pc'[w] = "replied" => pc[w] = "replied"
  BY <1>1, KindStays DEF Living, Of, Drop
<1>3. /\ q \in Seq(Messages) /\ n \in Nat \ {0} /\ DOMAIN q = 1..n
      /\ mailbox'[c] = Tail(q) /\ DOMAIN mailbox'[c] = 1..(n - 1)
      /\ \A b \in Conns : b # c => mailbox'[b] = mailbox[b]
      /\ Head(q) = q[1]
  <2>1. q \in Seq(Messages)
    BY MailTyped
  <2> QED
    BY <1>1, <2>1, TailShifts DEF Types, ConnTypes
<1>4. \A i \in 1..(n - 1) : mailbox'[c][i] = q[i + 1]
  BY <1>1, <1>3, TailShifts
<1>5. /\ 1 \in 1..n /\ \A i \in 1..(n - 1) : i + 1 \in 1..n /\ i + 1 # 1
      /\ \A i, j \in 1..(n - 1) : (i + 1 = j + 1 => i = j) /\ (j + 1 > i + 1 => j > i)
      /\ \A k \in 1..n : k # 1 => k - 1 \in 1..(n - 1) /\ (k - 1) + 1 = k
  BY <1>3
<1>6. \A i \in 1..n :
        /\ q[i].worker \in Lines /\ q[i].worker.conn = c /\ Kind(c) # "http"
        /\ q[i].tag = "down" => pc[q[i].worker] = "dead" /\ q[i] = Down(q[i].worker)
  BY <1>3, MailTyped DEF MailInv, MailIsOurs
<1>7. \A i, j \in 1..n : q[i].tag = "down" /\ q[i] = q[j] => i = j
  BY <1>3 DEF MailInv, DownsAreUnique
<1>8. \A i \in 1..n : q[i].tag = "write" =>
        q[i].worker \in Living \/ \E j \in 1..n : j > i /\ q[j] = Down(q[i].worker)
  <2>1. phase[c] # "finished" /\ DOMAIN mailbox[c] = 1..n
    BY <1>1, <1>3
  <2>2. \A i \in DOMAIN mailbox[c] : mailbox[c][i].tag = "write" =>
          \/ mailbox[c][i].worker \in Living
          \/ \E j \in DOMAIN mailbox[c] : j > i /\ mailbox[c][j] = Down(mailbox[c][i].worker)
    BY <2>1 DEF MailInv, WritesComeFirst
  <2> QED
    BY <2>1, <2>2
<1>9. \A m : /\ Holds(c, m) <=> \E i \in 1..n : q[i] = m
             /\ (\E i \in DOMAIN mailbox'[c] : mailbox'[c][i] = m) <=> \E i \in 1..n : i # 1 /\ q[i] = m
  <2> SUFFICES ASSUME NEW m
               PROVE  /\ Holds(c, m) <=> \E i \in 1..n : q[i] = m
                      /\ (\E i \in DOMAIN mailbox'[c] : mailbox'[c][i] = m)
                           <=> \E i \in 1..n : i # 1 /\ q[i] = m
    OBVIOUS
  <2>1. Holds(c, m) <=> \E i \in 1..n : q[i] = m
    BY <1>3 DEF Holds
  <2>2. ASSUME NEW i \in 1..n, i # 1, q[i] = m
        PROVE  \E k \in 1..(n - 1) : mailbox'[c][k] = m
    <3>1. i - 1 \in 1..(n - 1) /\ (i - 1) + 1 = i
      BY <1>5, <2>2
    <3>2. mailbox'[c][i - 1] = q[i]
      BY <1>4, <3>1
    <3> QED
      BY <2>2, <3>1, <3>2
  <2>3. ASSUME NEW i \in 1..(n - 1), mailbox'[c][i] = m
        PROVE  \E k \in 1..n : k # 1 /\ q[k] = m
    BY <1>4, <1>5, <2>3
  <2> QED
    BY <1>3, <2>1, <2>2, <2>3
<1> HIDE DEF n, q
<1>10. MailIsOurs'
  <2>1. ASSUME NEW b \in Conns, NEW i \in DOMAIN mailbox'[b]
        PROVE  /\ mailbox'[b][i].worker.conn = b /\ Kind(b)' # "http"
               /\ mailbox'[b][i].tag = "down" => pc'[mailbox'[b][i].worker] = "dead"
    <3>1. CASE b # c
      <4>1. mailbox[b][i].worker \in Lines
        BY <1>3, <2>1, <3>1, MailTyped
      <4> QED
        BY <1>2, <1>3, <2>1, <3>1, <4>1 DEF MailInv, MailIsOurs
    <3>2. CASE b = c
      BY <1>2, <1>3, <1>4, <1>5, <1>6, <2>1, <3>2
    <3> QED
      BY <3>1, <3>2
  <2> QED
    BY <1>2, <2>1 DEF MailInv, MailIsOurs
<1>11. DownsAreUnique'
  <2> SUFFICES ASSUME NEW b \in Conns, NEW i \in DOMAIN mailbox'[b], NEW j \in DOMAIN mailbox'[b],
                      mailbox'[b][i].tag = "down", mailbox'[b][i] = mailbox'[b][j]
               PROVE  i = j
    BY DEF DownsAreUnique
  <2>1. CASE b # c
    BY <1>3, <2>1 DEF MailInv, DownsAreUnique
  <2>2. CASE b = c
    <3>1. i \in 1..(n - 1) /\ j \in 1..(n - 1) /\ q[i + 1].tag = "down" /\ q[i + 1] = q[j + 1]
      BY <1>3, <1>4, <2>2
    <3> QED
      BY <1>5, <1>7, <3>1
  <2> QED
    BY <2>1, <2>2
<1>12. ASSUME NEW i \in DOMAIN mailbox'[c], mailbox'[c][i].tag = "write"
       PROVE  \/ mailbox'[c][i].worker \in Living'
              \/ \E j \in DOMAIN mailbox'[c] : j > i /\ mailbox'[c][j] = Down(mailbox'[c][i].worker)
  <2>1. i \in 1..(n - 1) /\ i + 1 \in 1..n /\ mailbox'[c][i] = q[i + 1]
    BY <1>3, <1>4, <1>5, <1>12
  <2>2. CASE \E j \in 1..n : j > i + 1 /\ q[j] = Down(q[i + 1].worker)
    <3>1. PICK j \in 1..n : j > i + 1 /\ q[j] = Down(q[i + 1].worker)
      BY <2>2
    <3>2. j # 1 /\ j - 1 \in 1..(n - 1) /\ (j - 1) + 1 = j /\ j - 1 > i
      BY <1>3, <2>1, <3>1
    <3>3. mailbox'[c][j - 1] = q[j]
      BY <1>4, <3>2
    <3> QED
      BY <1>3, <2>1, <3>1, <3>2, <3>3
  <2> QED
    BY <1>2, <1>8, <1>12, <2>1, <2>2
<1>13. WritesComeFirst'
  <2> SUFFICES ASSUME NEW b \in Conns, phase'[b] # "finished", NEW i \in DOMAIN mailbox'[b],
                      mailbox'[b][i].tag = "write"
               PROVE  \/ mailbox'[b][i].worker \in Living'
                      \/ \E j \in DOMAIN mailbox'[b] :
                           j > i /\ mailbox'[b][j] = Down(mailbox'[b][i].worker)
    BY DEF WritesComeFirst, Down
  <2>1. CASE b # c
    BY <1>1, <1>2, <1>3, <2>1 DEF MailInv, WritesComeFirst
  <2>2. CASE b = c
    BY <1>12, <2>2
  <2> QED
    BY <2>1, <2>2
<1>14. \A b \in Conns : b # c => Pending(b)' = Pending(b)
  BY <1>2, <1>3 DEF Pending, Of, Holds, Down
<1>15. inflight'[c] = Cardinality(Pending(c)')
  <2>1. inflight[c] = Cardinality(Pending(c)) /\ inflight[c] \in Int
    BY <1>1 DEF CountInv, Types, ConnTypes
  <2>2. Pending(c) \subseteq Lines
    BY DEF Pending, Of
  <2>3. \A w : w \in Pending(c)' <=>
          /\ w \in Of(c)
          /\ \/ w \in Living /\ Kind(c) # "http"
             \/ \E i \in 1..n : i # 1 /\ q[i] = Down(w)
    BY <1>2, <1>9 DEF Pending, Holds, Down
  <2>4. \A w : w \in Pending(c) <=>
          /\ w \in Of(c)
          /\ \/ w \in Living /\ Kind(c) # "http"
             \/ \E i \in 1..n : q[i] = Down(w)
    BY <1>9 DEF Pending
  <2>5. CASE q[1].tag = "down"
    <3>1. PICK u \in Lines : q[1] = Down(u) /\ u \in Of(c) /\ pc[u] = "dead"
      BY <1>5, <1>6, <2>5 DEF Of
    <3>2. u \in Pending(c) /\ u \notin Living
      BY <1>5, <2>4, <3>1 DEF Living
    <3>3. u \notin Pending(c)'
      <4>1. \A i \in 1..n : q[i] = Down(u) => i = 1
        BY <1>5, <1>7, <2>5, <3>1
      <4> QED
        BY <2>3, <3>2, <4>1
    <3>4. \A w : w # u => Down(w) # Down(u)
      <4>1. \A w : Down(w).worker = w
        BY DEF Down
      <4> QED
        BY <4>1
    <3>5. ASSUME NEW w, w # u PROVE w \in Pending(c)' <=> w \in Pending(c)
      <4>1. \A i \in 1..n : q[i] = Down(w) => i # 1
        BY <3>1, <3>4, <3>5
      <4> QED
        BY <2>3, <2>4, <4>1
    <3>6. Pending(c)' = Pending(c) \ {u}
      BY <3>2, <3>3, <3>5
    <3>7. inflight'[c] = inflight[c] - 1
      BY <1>1, <1>3, <2>5 DEF Types, ConnTypes
    <3> QED
      BY <2>1, <2>2, <3>2, <3>6, <3>7, CountsAreBounded
  <2>6. CASE q[1].tag # "down"
    <3>1. \A w : q[1] # Down(w)
      <4>1. \A w : Down(w).tag = "down"
        BY DEF Down
      <4> QED
        BY <2>6, <4>1
    <3>2. \A w : w \in Pending(c)' <=> w \in Pending(c)
      BY <2>3, <2>4, <3>1
    <3>3. inflight'[c] = inflight[c]
      BY <1>1, <1>3, <2>6 DEF Types, ConnTypes
    <3>4. Pending(c)' = Pending(c)
      BY <3>2
    <3> QED
      BY <2>1, <3>3, <3>4
  <2> QED
    BY <2>5, <2>6
<1>16. CountInv'
  <2> SUFFICES ASSUME NEW b \in Conns
               PROVE  /\ inflight'[b] \in 0..Cardinality(Lines)
                      /\ phase'[b] # "finished" => inflight'[b] = Cardinality(Pending(b)')
    BY DEF CountInv
  <2>1. CASE b # c
    <3>1. /\ inflight[b] \in 0..Cardinality(Lines)
          /\ phase[b] # "finished" => inflight[b] = Cardinality(Pending(b))
      BY DEF CountInv
    <3>2. inflight'[b] = inflight[b] /\ phase'[b] = phase[b] /\ Pending(b)' = Pending(b)
      BY <1>1, <1>14, <2>1 DEF Types, ConnTypes
    <3> QED
      BY <3>1, <3>2
  <2>2. CASE b = c
    <3>1. Pending(c)' \subseteq Lines
      BY DEF Pending, Of
    <3> QED
      BY <1>15, <2>2, <3>1, CountsAreBounded
  <2> QED
    BY <2>1, <2>2
<1>17. \A i \in DOMAIN mailbox'[c] : mailbox'[c][i].tag = "write" =>
         mailbox'[c][i].worker \in Living' \/ Holds(c, Down(mailbox[c][i].worker))'
  <2> SUFFICES ASSUME NEW i \in DOMAIN mailbox'[c], mailbox'[c][i].tag = "write"
               PROVE  mailbox'[c][i].worker \in Living' \/ Holds(c, Down(mailbox[c][i].worker))'
    OBVIOUS
  <2> QED
    BY <1>12 DEF Holds, Down
<1> QED
  BY <1>10, <1>11, <1>13, <1>15, <1>16, <1>17 DEF MailInv

\* Neither the mailboxes nor the workers that write to them change.
LEMMA MailQuiet ==
  ASSUME Types, MailInv, CountInv, transport' = transport, UNCHANGED <<mailbox, inflight>>,
         \A c \in Conns : phase[c] = "finished" => phase'[c] = "finished",
         \A w \in Lines : /\ Kind(w.conn) # "http" => (w \in Living <=> w \in Living')
                          /\ pc[w] = "dead" => pc'[w] = "dead"
                          /\ pc'[w] = "replied" => pc[w] = "replied"
  PROVE  MailInv' /\ CountInv'
<1>1. MailInv'
  BY MailKept
<1>2. \A c : Kind(c)' = Kind(c)
  BY KindStays
<1>3. \A c \in Conns : Pending(c)' = Pending(c)
  <2> SUFFICES ASSUME NEW c \in Conns PROVE Pending(c)' = Pending(c)
    OBVIOUS
  <2>1. \A w : Holds(c, Down(w))' <=> Holds(c, Down(w))
    BY DEF Holds, Down
  <2>2. \A w \in Of(c) : w \in Lines /\ w.conn = c
    BY DEF Of
  <2> QED
    BY <1>2, <2>1, <2>2 DEF Pending, Of
<1> QED
  BY <1>1, <1>3, CountKept

LEMMA ReadLineCounts ==
  ASSUME Types, WireInv, MailInv, CountInv, NEW c \in Conns, ReadLine(c)
  PROVE  MailInv' /\ CountInv'
<1>1. PICK i \in Readable(c) :
        /\ wire[c][i] \in Lines
        /\ pc' = [pc EXCEPT ![wire[c][i]] = IF Kind(c) = "http" THEN "running" ELSE "spawned"]
  BY DEF ReadLine
<1>2. PICK w \in Lines : w = wire[c][i]
  BY <1>1
<1>3. w.conn = c /\ pc[w] = "sent"
  BY <1>1, <1>2 DEF Readable, ReadLine, WireInv
<1>4. /\ pc'[w] \in {"running", "spawned"} /\ \A v \in Lines : v # w => pc'[v] = pc[v]
      /\ w \notin Living /\ w \in Living'
      /\ \A v \in Lines : v # w => (v \in Living <=> v \in Living')
  BY <1>1, <1>2, <1>3 DEF Types, WorkerTypes, Living
<1>5. transport' = transport /\ UNCHANGED <<phase, mailbox>> /\ phase[c] = "serving"
  BY DEF ReadLine
<1>6. inflight'[c] = (IF Kind(c) = "http" THEN inflight[c] ELSE inflight[c] + 1)
      /\ \A b \in Conns : b # c => inflight'[b] = inflight[b]
  BY DEF ReadLine, Types, ConnTypes
<1>7. \A v \in Lines : /\ pc[v] = "dead" => pc'[v] = "dead"
                       /\ pc'[v] = "replied" => pc[v] = "replied"
  BY <1>3, <1>4
<1>8. CASE Kind(c) = "http"
  <2>1. UNCHANGED inflight
    BY <1>8 DEF ReadLine, Types, ConnTypes
  <2> QED
    BY <1>3, <1>4, <1>5, <1>7, <1>8, <2>1, MailQuiet
<1>9. CASE Kind(c) # "http"
  <2>1. MailInv'
    BY <1>4, <1>5, <1>7, MailKept
  <2>2. /\ \A b : Kind(b)' = Kind(b)
        /\ \A b : Of(b)' = Of(b)
        /\ \A b \in Conns, v \in Lines : Holds(b, Down(v))' <=> Holds(b, Down(v))
    BY <1>5, KindStays DEF Of, Holds, Down
  <2>3. \A b \in Conns : b # c => Pending(b)' = Pending(b)
    <3>1. \A b \in Conns : b # c => \A v \in Of(b) : v \in Lines /\ v # w
      BY <1>3 DEF Of
    <3> QED
      BY <1>4, <2>2, <3>1 DEF Pending
  <2>4. w \notin Pending(c)
    <3>1. ~Holds(c, Down(w))
      <4>1. Down(w).tag = "down" /\ Down(w).worker = w
        BY DEF Down
      <4> QED
        BY <1>3, <4>1 DEF Holds, MailInv, MailIsOurs
    <3> QED
      BY <1>4, <3>1 DEF Pending
  <2>5. Pending(c)' = Pending(c) \cup {w}
    <3>1. w \in Pending(c)'
      BY <1>3, <1>4, <1>9, <2>2 DEF Pending, Of
    <3>2. \A v : v # w => (v \in Pending(c)' <=> v \in Pending(c))
      BY <1>4, <2>2 DEF Pending, Of
    <3> QED
      BY <3>1, <3>2
  <2>6. Pending(c) \subseteq Lines /\ Pending(c)' \subseteq Lines
    BY DEF Pending, Of
  <2>7. inflight[c] = Cardinality(Pending(c)) /\ inflight[c] \in Int
    BY <1>5 DEF CountInv, Types, ConnTypes
  <2>8. inflight'[c] = Cardinality(Pending(c)')
    BY <1>6, <1>9, <2>4, <2>5, <2>6, <2>7, CountsAreBounded
  <2>9. CountInv'
    <3> SUFFICES ASSUME NEW b \in Conns
                 PROVE  /\ inflight'[b] \in 0..Cardinality(Lines)
                        /\ phase'[b] # "finished" => inflight'[b] = Cardinality(Pending(b)')
      BY DEF CountInv
    <3>1. CASE b # c
      <4>1. /\ inflight[b] \in 0..Cardinality(Lines)
            /\ phase[b] # "finished" => inflight[b] = Cardinality(Pending(b))
        BY DEF CountInv
      <4> QED
        BY <1>5, <1>6, <2>3, <3>1, <4>1
    <3>2. CASE b = c
      BY <2>6, <2>8, <3>2, CountsAreBounded
    <3> QED
      BY <3>1, <3>2
  <2> QED
    BY <2>1, <2>9
<1> QED
  BY <1>8, <1>9

LEMMA WorkerCounts ==
  ASSUME Types, NamesInv, MailInv, CountInv, NEW w \in Lines,
         Works(w) \/ CallLsp(w) \/ LspAnswers(w) \/ Dies(w) \/ Panics(w) \/ Hangs(w)
  PROVE  MailInv' /\ CountInv'
<1>1. ASSUME NEW m \in Messages, m.worker = w, w \in Living, Kind(w.conn) # "http", Tell(w.conn, m),
             transport' = transport, UNCHANGED <<phase, inflight>>,
             \/ m.tag = "down" /\ pc' = [pc EXCEPT ![w] = "dead"]
             \/ m.tag # "down" /\ pc' = [pc EXCEPT ![w] = "replied"]
      PROVE  MailInv' /\ CountInv'
  <2>1. \A v \in Lines : v # w => pc'[v] = pc[v]
    BY <1>1 DEF Types, WorkerTypes
  <2>2. \/ m.tag = "down" /\ pc'[w] = "dead"
        \/ m.tag # "down" /\ w \in Living'
    BY <1>1 DEF Types, WorkerTypes, Living
  <2>3. MailInv' /\ \A c \in Conns : phase[c] # "finished" => Pending(c)' = Pending(c)
    BY <1>1, <2>1, <2>2, MailGrows
  <2>4. CountInv'
    BY <1>1, <2>3, CountKept
  <2> QED
    BY <2>3, <2>4
<1>2. ASSUME Exits(w), w \in Living, Kind(w.conn) # "http" PROVE MailInv' /\ CountInv'
  <2>1. Down(w) \in Messages /\ Down(w).worker = w /\ Down(w).tag = "down"
    BY DEF Messages, Down
  <2>2. /\ Tell(w.conn, Down(w)) /\ transport' = transport /\ UNCHANGED <<phase, inflight>>
        /\ pc' = [pc EXCEPT ![w] = "dead"]
    BY <1>2 DEF Exits, Down, GoTo
  <2> QED
    BY <1>1, <1>2, <2>1, <2>2
<1>3. CASE Deregister(w) \/ Dies(w) \/ Panics(w)
  <2>1. Exits(w) /\ w \in Living
    BY <1>3 DEF Deregister, Dies, Panics, At, Living
  <2>2. Kind(w.conn) # "http"
    BY <1>3 DEF Deregister, Dies, Panics, At, MailInv, MailIsOurs, NamesInv, DoomedAreNamed
  <2> QED
    BY <1>2, <2>1, <2>2
<1>4. CASE Reply(w) /\ Kind(w.conn) # "http"
  <2> DEFINE m == [tag |-> IF w \in Requests THEN "write" ELSE "done", worker |-> w]
  <2>1. m \in Messages /\ m.worker = w /\ m.tag # "down"
    BY DEF Messages
  <2>2. /\ Tell(w.conn, m) /\ transport' = transport /\ UNCHANGED <<phase, inflight>>
        /\ pc' = [pc EXCEPT ![w] = "replied"] /\ w \in Living
    BY <1>4 DEF Reply, GoTo, At, Living
  <2> HIDE DEF m
  <2> QED
    BY <1>1, <1>4, <2>1, <2>2
<1>5. ASSUME NEW l, pc' = [pc EXCEPT ![w] = l], pc[w] # "dead", l # "replied",
             transport' = transport, UNCHANGED <<phase, mailbox, inflight>>,
             Kind(w.conn) # "http" => w \in Living /\ l \notin {"unsent", "sent", "dropped", "dead"}
      PROVE  MailInv' /\ CountInv'
  <2>1. pc'[w] = l /\ \A v \in Lines : v # w => pc'[v] = pc[v]
    BY <1>5 DEF Types, WorkerTypes
  <2>2. \A v \in Lines :
          /\ Kind(v.conn) # "http" => (v \in Living <=> v \in Living')
          /\ pc[v] = "dead" => pc'[v] = "dead"
          /\ pc'[v] = "replied" => pc[v] = "replied"
    BY <1>5, <2>1 DEF Living
  <2> QED
    BY <1>5, <2>2, MailQuiet
<1>6. CASE Reply(w) /\ Kind(w.conn) = "http"
  <2>1. /\ pc' = [pc EXCEPT ![w] = "dead"] /\ pc[w] # "dead"
        /\ transport' = transport /\ UNCHANGED <<phase, mailbox, inflight>>
    BY <1>6 DEF Reply, GoTo, At
  <2> QED
    BY <1>5, <1>6, <2>1
<1>7. CASE LspAnswers(w)
  <2>1. transport' = transport /\ UNCHANGED <<phase, mailbox, inflight>>
    BY <1>7 DEF LspAnswers, connVars
  <2>2. pc'[w] = (IF pc[w] = "calling" THEN "answered" ELSE pc[w])
        /\ \A v \in Lines : v # w => pc'[v] = pc[v]
    BY <1>7 DEF LspAnswers, Types, WorkerTypes
  <2>3. \A v \in Lines :
          /\ Kind(v.conn) # "http" => (v \in Living <=> v \in Living')
          /\ pc[v] = "dead" => pc'[v] = "dead"
          /\ pc'[v] = "replied" => pc[v] = "replied"
    BY <2>2 DEF Living
  <2> QED
    BY <2>1, <2>3, MailQuiet
<1>8. CASE LookUpWorker(w)
  <2> DEFINE l == IF rows[KeyOf(w.conn, w.id)] = NoLine THEN "routing" ELSE "killing"
  <2>1. /\ pc' = [pc EXCEPT ![w] = l] /\ pc[w] = "running"
        /\ transport' = transport /\ UNCHANGED <<phase, mailbox, inflight>>
    BY <1>8 DEF LookUpWorker, At, GoTo, connVars
  <2>2. l \in {"routing", "killing"}
    OBVIOUS
  <2> HIDE DEF l
  <2>3. w \in Living
    BY <2>1 DEF Living
  <2> QED
    BY <1>5, <2>1, <2>2, <2>3
<1>9. CASE Register(w) \/ CallLsp(w) \/ Kill(w) \/ ClearRow(w) \/ CancelCall(w) \/ Hangs(w)
  <2>1. PICK l \in {"running", "calling", "clearing", "routing", "cancelled", "hung"} :
          pc' = [pc EXCEPT ![w] = l]
    BY <1>9 DEF Register, CallLsp, Kill, ClearRow, CancelCall, Hangs, GoTo
  <2>2. transport' = transport /\ UNCHANGED <<phase, mailbox, inflight>>
    BY <1>9 DEF Register, CallLsp, Kill, ClearRow, CancelCall, Hangs, connVars
  <2>3. pc[w] # "dead" /\ w \in Living
    BY <1>9 DEF Register, CallLsp, Kill, ClearRow, CancelCall, Hangs, At, Living
  <2> QED
    BY <1>5, <2>1, <2>2, <2>3
<1> QED
  BY <1>3, <1>4, <1>6, <1>7, <1>8, <1>9 DEF Works

LEMMA CountStep ==
  ASSUME Types, WireInv, NamesInv, MailInv, CountInv, [Next]_vars
  PROVE  MailInv' /\ CountInv'
<1>1. transport' = transport
  BY TransportStays
<1>2. CASE UNCHANGED vars
  BY <1>1, <1>2, MailQuiet DEF vars, connVars, workerVars, Living
<1>3. ASSUME NEW w \in Lines, Send(w) PROVE MailInv' /\ CountInv'
  <2>1. UNCHANGED <<phase, mailbox, inflight>>
    BY <1>3 DEF Send
  <2>2. pc[w] = "unsent" /\ pc'[w] = "sent" /\ \A v \in Lines : v # w => pc'[v] = pc[v]
    BY <1>3 DEF Send, Types, WorkerTypes
  <2>3. \A v \in Lines : /\ v \in Living <=> v \in Living'
                         /\ pc[v] = "dead" => pc'[v] = "dead"
                         /\ pc'[v] = "replied" => pc[v] = "replied"
    BY <2>2 DEF Living
  <2> QED
    BY <1>1, <2>1, <2>3, MailQuiet
<1>4. ASSUME NEW c \in Conns, End(c, Eof) \/ End(c, OverLong) PROVE MailInv' /\ CountInv'
  <2>1. UNCHANGED <<phase, mailbox, inflight, pc>>
    BY <1>4 DEF End, workerVars
  <2> QED
    BY <1>1, <2>1, MailQuiet DEF Living
<1>5. ASSUME NEW c \in Conns, Process(c) \/ DrainTimeout(c), ~ReadLine(c), ~TakeMessage(c)
      PROVE  MailInv' /\ CountInv'
  <2>1. UNCHANGED <<mailbox, inflight>> /\ (UNCHANGED pc \/ Drop(c))
    BY <1>5 DEF Process, DrainTimeout, ReadHello, ReadEof, ReadLong, CancelCalls, KillLeftovers,
                Finishes, workerVars
  <2>2. \A b \in Conns : phase[b] = "finished" => phase'[b] = "finished"
    <3>1. phase[c] # "finished"
      BY <1>5 DEF Process, DrainTimeout, ReadHello, ReadEof, ReadLong, CancelCalls, KillLeftovers
    <3>2. \A b \in Conns : b # c => phase'[b] = phase[b]
      BY <1>5 DEF Process, DrainTimeout, ReadHello, ReadEof, ReadLong, CancelCalls, KillLeftovers,
                  Finishes, Types, ConnTypes
    <3> QED
      BY <3>1, <3>2
  <2>3. \A v \in Lines : /\ v \in Living <=> v \in Living'
                         /\ pc[v] = "dead" => pc'[v] = "dead"
                         /\ pc'[v] = "replied" => pc[v] = "replied"
    BY <2>1 DEF Living, Drop
  <2> QED
    BY <1>1, <2>1, <2>2, <2>3, MailQuiet
<1> QED
  BY <1>2, <1>3, <1>4, <1>5, ReadLineCounts, MailShrinks, WorkerCounts DEF Next, Client, Process

\* Where nobody is waited for, nobody is left, nor anything to write.
LEMMA NobodyPending ==
  ASSUME Types, MailInv, NEW c \in Conns, Kind(c) # "http", phase[c] # "finished", Pending(c) = {}
  PROVE  Of(c) \cap Living = {} /\ \A i \in DOMAIN mailbox[c] : mailbox[c][i].tag # "write"
<1>1. Of(c) \cap Living = {}
  BY DEF Pending
<1>2. ASSUME NEW i \in DOMAIN mailbox[c], mailbox[c][i].tag = "write" PROVE FALSE
  <2>1. mailbox[c][i].worker \in Of(c)
    BY MailTyped DEF MailInv, MailIsOurs, Of
  <2>2. mailbox[c][i].worker \in Living \/ Holds(c, Down(mailbox[c][i].worker))
    BY <1>2 DEF MailInv, WritesComeFirst, Holds
  <2> QED
    BY <2>1, <2>2 DEF Pending
<1> QED
  BY <1>1, <1>2

LEMMA ExitStep ==
  ASSUME Types, WireInv, SessionInv, NamesInv, MailInv, CountInv, NothingLostAtExit, [Next]_vars
  PROVE  NothingLostAtExit'
<1>1. /\ transport' = transport /\ \A c : Kind(c)' = Kind(c)
      /\ \A c : Of(c)' = Of(c)
  BY TransportStays, KindStays DEF Of
<1> SUFFICES ASSUME NEW c \in Conns, Kind(c) = "stdio", phase'[c] = "finished"
             PROVE  /\ Of(c) \cap Living' = {}
                    /\ \A i \in DOMAIN mailbox'[c] : mailbox'[c][i].tag # "write"
  BY <1>1 DEF NothingLostAtExit
<1>2. CASE phase[c] = "finished"
  <2>1. Of(c) \cap Living = {} /\ \A i \in DOMAIN mailbox[c] : mailbox[c][i].tag # "write"
    BY <1>2 DEF NothingLostAtExit
  <2>2. \A w \in Of(c) : w \in Lines /\ w.conn = c /\ w \notin Living
    BY <2>1 DEF Of
  <2>3. ASSUME NEW w \in Lines,
               Works(w) \/ CallLsp(w) \/ LspAnswers(w) \/ Dies(w) \/ Panics(w) \/ Hangs(w)
        PROVE  /\ \A v \in Lines : v # w => pc'[v] = pc[v]
               /\ w.conn = c => pc'[w] = pc[w]
               /\ mailbox'[c] = mailbox[c]
    <3>1. \A v \in Lines : v # w => pc'[v] = pc[v]
      BY <2>3 DEF Works, Register, Reply, Deregister, Exits, LookUpWorker, Kill, ClearRow, CancelCall,
         CallLsp, LspAnswers, Dies, Panics, Hangs, GoTo, Types, WorkerTypes
    <3>2. w.conn = c => pc'[w] = pc[w]
      <4>1. w.conn = c => pc[w] \in {"unsent", "sent", "dropped", "dead"}
        BY <2>2 DEF Of, Living
      <4> QED
        BY <2>3, <4>1 DEF Works, Register, Reply, Deregister, Exits, LookUpWorker, Kill, ClearRow,
           CancelCall, CallLsp, LspAnswers, Dies, Panics, Hangs, At, Living, Types, WorkerTypes
    <3>3. UNCHANGED mailbox \/ \E m \in Messages : Tell(w.conn, m)
      <4>1. \A tag \in {"write", "done", "down"} : [tag |-> tag, worker |-> w] \in Messages
        BY DEF Messages
      <4> QED
        BY <2>3, <4>1 DEF Works, Register, Reply, Deregister, Exits, LookUpWorker, Kill, ClearRow,
           CancelCall, CallLsp, LspAnswers, Dies, Panics, Hangs, connVars
    <3>4. mailbox'[c] = mailbox[c]
      BY <1>2, <3>3 DEF Tell, Open, Types, ConnTypes
    <3> QED
      BY <3>1, <3>2, <3>4
  <2>4. ASSUME NEW b \in Conns, Process(b) \/ DrainTimeout(b)
        PROVE  mailbox'[c] = mailbox[c] /\ \A w \in Of(c) : w \in Living => w \in Living'
    <3>1. b # c \/ ~TakeMessage(b)
      BY <1>2 DEF TakeMessage
    <3> QED
      BY <2>2, <2>4, <3>1 DEF Process, DrainTimeout, ReadLine, ReadHello, ReadEof, ReadLong, TakeMessage,
         CancelCalls, KillLeftovers, Types, ConnTypes
  <2>5. ASSUME NEW b \in Conns, Process(b) \/ DrainTimeout(b)
        PROVE  \A w \in Of(c) : w \notin Living'
    <3>1. CASE ReadLine(b)
      <4>1. PICK i \in Readable(b) :
              /\ wire[b][i] \in Lines
              /\ pc' = [pc EXCEPT ![wire[b][i]] = IF Kind(b) = "http" THEN "running" ELSE "spawned"]
        BY <3>1 DEF ReadLine
      <4>2. wire[b][i].conn = b /\ b # c
        BY <1>2, <3>1, <4>1 DEF Readable, ReadLine, WireInv
      <4>3. \A w \in Of(c) : pc'[w] = pc[w]
        BY <2>2, <4>1, <4>2 DEF Types, WorkerTypes
      <4> QED
        BY <2>2, <4>3 DEF Living
    <3>2. CASE ~ReadLine(b)
      <4>1. UNCHANGED pc \/ Drop(b)
        BY <2>5, <3>2 DEF Process, DrainTimeout, ReadHello, ReadEof, ReadLong, TakeMessage, CancelCalls,
                          KillLeftovers, Finishes, workerVars
      <4> QED
        BY <2>2, <4>1 DEF Living, Drop
    <3> QED
      BY <3>1, <3>2
  <2>6. ASSUME Client \/ UNCHANGED vars
        PROVE  mailbox'[c] = mailbox[c] /\ \A w \in Of(c) : w \notin Living'
    <3>1. UNCHANGED mailbox
      BY <2>6 DEF Client, Send, End, vars, connVars
    <3>2. \A w \in Lines : w \notin Living => w \notin Living'
      BY <2>6 DEF Client, Send, End, vars, workerVars, Living, Types, WorkerTypes
    <3> QED
      BY <2>2, <3>1, <3>2
  <2>7. mailbox'[c] = mailbox[c] /\ \A w \in Of(c) : w \notin Living'
    <3>1. ASSUME NEW w \in Lines,
                 Works(w) \/ CallLsp(w) \/ LspAnswers(w) \/ Dies(w) \/ Panics(w) \/ Hangs(w)
          PROVE  mailbox'[c] = mailbox[c] /\ \A v \in Of(c) : v \notin Living'
      <4>1. \A v \in Of(c) : pc'[v] = pc[v]
        BY <2>2, <2>3, <3>1
      <4> QED
        BY <2>2, <2>3, <3>1, <4>1 DEF Living
    <3> QED
      BY <2>4, <2>5, <2>6, <3>1 DEF Next
  <2> QED
    BY <2>1, <2>7
<1>3. CASE phase[c] # "finished"
  <2>1. ReadEof(c) \/ TakeMessage(c)
    <3>1. \A w \in Lines :
            Works(w) \/ CallLsp(w) \/ LspAnswers(w) \/ Dies(w) \/ Panics(w) \/ Hangs(w) => UNCHANGED phase
      BY DEF Works, Register, Reply, Deregister, Exits, LookUpWorker, Kill, ClearRow,
         CancelCall, CallLsp, LspAnswers, Dies, Panics, Hangs, connVars
    <3>2. Client \/ UNCHANGED vars => UNCHANGED phase
      BY DEF Client, Send, End, vars, connVars
    <3>3. ASSUME NEW b \in Conns, b # c, Process(b) \/ DrainTimeout(b) PROVE phase'[c] = phase[c]
      BY <3>3 DEF Process, DrainTimeout, ReadLine, ReadHello, ReadEof, ReadLong, TakeMessage,
         CancelCalls, KillLeftovers, Finishes, Types, ConnTypes
    <3>4. Process(c) \/ DrainTimeout(c)
      BY <1>3, <3>1, <3>2, <3>3 DEF Next
    <3>5. ~ReadLine(c)
      BY <1>3 DEF ReadLine
    <3>6. ~ReadHello(c) /\ ~CancelCalls(c) /\ ~KillLeftovers(c)
      BY DEF ReadHello, CancelCalls, KillLeftovers, SessionInv
    <3>7. ~DrainTimeout(c)
      BY DEF DrainTimeout, HasDrainTimer
    <3>8. ~ReadLong(c)
      <4>1. ASSUME ReadLong(c) PROVE wire[c][1] = OverLong /\ 1 \in DOMAIN wire[c]
        BY <4>1, TailShifts DEF ReadLong, Types, ConnTypes
      <4> QED
        BY <4>1 DEF WireInv
    <3> QED
      BY <3>4, <3>5, <3>6, <3>7, <3>8 DEF Process
  <2>2. CASE ReadEof(c)
    <3>1. inflight[c] = 0 /\ UNCHANGED mailbox /\ Drop(c)
      BY <1>3, <2>2 DEF ReadEof, Finishes, Types, ConnTypes
    <3>2. Pending(c) = {}
      <4>1. Pending(c) \subseteq Lines /\ Cardinality(Pending(c)) = 0
        BY <1>3, <3>1 DEF Pending, Of, CountInv
      <4> QED
        BY <4>1, CountsAreBounded
    <3>3. Of(c) \cap Living = {} /\ \A i \in DOMAIN mailbox[c] : mailbox[c][i].tag # "write"
      BY <1>3, <3>2, NobodyPending
    <3>4. \A w \in Of(c) : w \in Living' => w \in Living
      BY <3>1 DEF Living, Drop
    <3> QED
      BY <3>1, <3>3, <3>4
  <2>3. CASE TakeMessage(c)
    <3>1. inflight'[c] = 0
      BY <1>3, <2>3 DEF TakeMessage
    <3>2. /\ MailInv' /\ inflight'[c] = Cardinality(Pending(c)')
          /\ \A i \in DOMAIN mailbox'[c] : mailbox'[c][i].tag = "write" =>
               mailbox'[c][i].worker \in Living' \/ Holds(c, Down(mailbox[c][i].worker))'
      BY <2>3, MailShrinks
    <3>3. Pending(c)' = {}
      <4>1. Pending(c)' \subseteq Lines
        BY DEF Pending, Of
      <4> QED
        BY <3>1, <3>2, <4>1, CountsAreBounded
    <3>4. Of(c) \cap Living' = {}
      BY <1>1, <3>3 DEF Pending
    <3>5. ASSUME NEW i \in DOMAIN mailbox'[c], mailbox'[c][i].tag = "write" PROVE FALSE
      <4>1. mailbox'[c] \in Seq(Messages) /\ mailbox'[c][i].worker \in Lines
        <5>1. mailbox'[c] \in Seq(Messages)
          BY <2>3, TailShifts, MailTyped DEF TakeMessage, Types, ConnTypes
        <5>2. mailbox'[c][i] \in Messages
          BY <3>5, <5>1
        <5>3. \A m \in Messages : m.worker \in Lines
          BY DEF Messages
        <5> QED
          BY <5>1, <5>2, <5>3
      <4>2. mailbox'[c][i].worker \in Of(c)
        BY <3>2, <3>5, <4>1 DEF MailInv, MailIsOurs, Of
      <4> QED
        BY <1>1, <3>2, <3>3, <3>5, <4>2 DEF Pending
    <3> QED
      BY <3>4, <3>5
  <2> QED
    BY <2>1, <2>2, <2>3
<1> QED
  BY <1>2, <1>3

\* The inductive invariant of the counting.
CountedInv == DispatchInv /\ MailInv /\ CountInv /\ NothingLostAtExit

LEMMA CountedHolds == Spec => []CountedInv
<1>1. Init => CountedInv
  <2>1. Init => DispatchInv
    BY InitTypes, InitWireInv, InitSessionInv, InitNamesInv DEF DispatchInv
  <2>2. Init => NothingLostAtExit
    BY DEF Init, NothingLostAtExit
  <2> QED
    BY <2>1, <2>2, InitMailInv, InitCountInv DEF CountedInv
<1>2. CountedInv /\ [Next]_vars => CountedInv'
  <2> SUFFICES ASSUME CountedInv, [Next]_vars PROVE CountedInv'
    OBVIOUS
  <2>1. /\ Types /\ WireInv /\ SessionInv /\ NamesInv
        /\ MailInv /\ CountInv /\ NothingLostAtExit
    BY DEF CountedInv, DispatchInv
  <2>2. DispatchInv'
    BY <2>1, TypesStep, WireStep, SessionStep, NamesStep DEF DispatchInv
  <2>3. MailInv' /\ CountInv'
    BY <2>1, CountStep
  <2>4. NothingLostAtExit'
    BY <2>1, ExitStep
  <2> QED
    BY <2>2, <2>3, <2>4 DEF CountedInv
<1> QED
  BY <1>1, <1>2, PTL DEF Spec

\* The variables have their types: what is killed is a request, since a cancel that found
\* nobody kills nobody (server.gleam log_cancel_notification), and inflight counts the
\* workers whose DOWN is still to come, of which there are as many as lines at most.
THEOREM DispatchTypes == Spec => []TypeOK
<1>1. CountedInv => TypeOK
  <2> SUFFICES ASSUME CountedInv PROVE TypeOK
    OBVIOUS
  <2>1. Types /\ NamesInv /\ CountInv
    BY DEF CountedInv, DispatchInv
  <2>2. \A c \in Conns : \A i \in DOMAIN wire[c] : wire[c][i] \in Lines \cup {Eof, OverLong}
    <3>1. \A c \in Conns : wire[c] \in Seq(Items)
      BY <2>1 DEF Types, ConnTypes
    <3> QED
      BY <3>1 DEF Items
  <2>3. \A c \in Conns : \A i \in DOMAIN mailbox[c] :
          mailbox[c][i] \in [tag : {"write", "done", "down"}, worker : Lines]
    <3> SUFFICES ASSUME NEW c \in Conns, NEW i \in DOMAIN mailbox[c] PROVE mailbox[c][i] \in Messages
      BY DEF Messages
    <3>1. mailbox[c] \in Seq(Messages)
      BY <2>1 DEF Types, ConnTypes
    <3> QED
      BY <3>1
  <2>4. inflight \in [Conns -> 0..Cardinality(Lines)]
    BY <2>1 DEF Types, ConnTypes, CountInv
  <2>5. kills \subseteq Lines \X Lines
    <3> SUFFICES ASSUME NEW p \in kills PROVE p \in Lines \X Lines
      OBVIOUS
    <3>1. p \in Lines \X (Lines \cup {NoLine})
      BY <2>1 DEF Types, WorkerTypes
    <3>2. p[2] \in Lines
      BY <2>1 DEF NamesInv, StopsAreNamed, Requests
    <3> QED
      BY <3>1, <3>2
  <2>6. doomed \subseteq Lines
    BY <2>1 DEF NamesInv, DoomedAreNamed
  <2> QED
    BY <2>1, <2>2, <2>3, <2>4, <2>5, <2>6 DEF TypeOK, Types, ConnTypes, WorkerTypes, Labels
<1> QED
  BY <1>1, CountedHolds, PTL

\* The stdio process ends only when every worker it started is gone and every reply has
\* been written (stdio_worker.gleam handle_eof and step_inflight): inflight is exactly the
\* number of workers whose DOWN it has not taken, a worker goes down once, and its reply
\* is in the mailbox before its DOWN.
THEOREM ExitLosesNothing == Spec => []NothingLostAtExit
<1>1. CountedInv => NothingLostAtExit
  BY DEF CountedInv
<1> QED
  BY <1>1, CountedHolds, PTL

-----------------------------------------------------------------------------
(* The table of request workers against the workers that run.              *)

\* Who is in the table although a kill signal is on its way is there because the cancel
\* that sent it has not cleared the row yet, or came after the clean-up.
DoomedRows ==
  \A k \in Keys : rows[k] \in doomed =>
    rows[k] \in missed \/ \E x \in Lines : victim[x] = rows[k] /\ pc[x] = "clearing"

\* Only the clean-up of a connection kills cancels.
DoomedCancels ==
  \A x \in doomed : x \notin Requests => Kind(x.conn) = "daemon" /\ phase[x.conn] = "finished"

\* After the clean-up there is nobody left to register but whom it missed.
LateRows ==
  \A c \in Conns : Kind(c) = "daemon" /\ phase[c] = "finished" =>
    /\ \A k \in Keys : k[1] = <<c>> /\ rows[k] # NoLine => rows[k] \in missed
    /\ \A w \in Lines : w.conn = c /\ pc[w] = "spawned" => w \in missed

\* Who ends by itself leaves the table.
DeadRows == \A k \in Keys : rows[k] # NoLine /\ pc[rows[k]] = "dead" => rows[k] \in doomed \cup crashed

\* A row is cleared for a worker that was killed.
ClearingKilled == \A x \in Lines : pc[x] = "clearing" => victim[x] \in doomed

\* The clean-up finds every request that runs and has registered.
RegisteredRows ==
  \A w \in Requests : Kind(w.conn) = "daemon" /\ phase[w.conn] # "finished" /\ w \in Living =>
    pc[w] = "spawned" \/ rows[WorkerKey(w)] = w \/ w \in doomed

TrackInv ==
  /\ DoomedRows /\ DoomedCancels /\ LateRows /\ DeadRows /\ ClearingKilled /\ RegisteredRows
  /\ LeftoversAreStopped

LEMMA InitTrackInv == Init => TrackInv
<1> SUFFICES ASSUME Init PROVE TrackInv
  OBVIOUS
<1>1. /\ \A k \in Keys : rows[k] = NoLine
      /\ doomed = {} /\ \A w \in Lines : pc[w] = "unsent"
  BY DEF Init
<1>2. Living = {}
  BY <1>1 DEF Living
<1>3. DoomedRows /\ DoomedCancels /\ LateRows /\ DeadRows /\ ClearingKilled
  BY <1>1 DEF DoomedRows, DoomedCancels, LateRows, DeadRows, ClearingKilled
<1>4. RegisteredRows /\ LeftoversAreStopped
  BY <1>2 DEF RegisteredRows, LeftoversAreStopped
<1> QED
  BY <1>3, <1>4 DEF TrackInv

\* On a daemon connection a request's key is its own.
LEMMA KeysAreOwn ==
  ASSUME NEW w \in Requests, NEW v \in Lines, Kind(w.conn) = "daemon", WorkerKey(v) = WorkerKey(w)
  PROVE  v = w
<1>1. w \in Lines /\ w.kind = "request" /\ w.id # Anonymous
  BY DEF Requests
<1>2. Scope(v.conn) = Scope(w.conn) /\ PeekId(v) = PeekId(w)
  BY DEF WorkerKey, KeyOf
<1>3. v.conn = w.conn
  BY <1>2 DEF Scope
<1>4. v.kind = "request" /\ v.id = w.id
  BY <1>1, <1>2 DEF PeekId
<1> QED
  BY <1>1, <1>3, <1>4, RequestIdsAreFresh

\* What a process does to workers and tables.
LEMMA ProcessMoves ==
  ASSUME Types, WireInv, SessionInv, NEW c \in Conns, Process(c) \/ DrainTimeout(c)
  PROVE  /\ UNCHANGED <<transport, victim, crashed>>
         /\ \A w \in Lines :
              \/ pc'[w] = pc[w]
              \/ pc[w] = "sent" /\ pc'[w] = "dropped"
              \/ /\ pc[w] = "sent" /\ w.conn = c /\ phase[c] = "serving" /\ phase'[c] = "serving"
                 /\ pc'[w] = (IF Kind(c) = "http" THEN "running" ELSE "spawned")
         /\ UNCHANGED <<rows, doomed, missed>> \/ KillLeftovers(c)
         /\ \A b \in Conns : b # c => phase'[b] = phase[b]
         /\ Kind(c) = "daemon" /\ phase'[c] = "finished" => KillLeftovers(c) \/ phase[c] \in {"hello", "finished"}
         /\ KillLeftovers(c) => UNCHANGED pc
         /\ phase[c] # "finished"
<1>0. phase[c] # "finished"
  BY DEF Process, DrainTimeout, ReadLine, ReadHello, ReadEof, ReadLong, TakeMessage, CancelCalls,
         KillLeftovers
<1>1. UNCHANGED <<transport, victim, crashed>>
  BY DEF Process, DrainTimeout, ReadLine, ReadHello, ReadEof, ReadLong, TakeMessage, CancelCalls,
         KillLeftovers, workerVars
<1>2. UNCHANGED <<rows, doomed, missed>> \/ KillLeftovers(c)
  BY DEF Process, DrainTimeout, ReadLine, ReadHello, ReadEof, ReadLong, TakeMessage, CancelCalls,
         tables, cancelVars
<1>3. \A b \in Conns : b # c => phase'[b] = phase[b]
  BY DEF Process, DrainTimeout, ReadLine, ReadHello, ReadEof, ReadLong, TakeMessage, CancelCalls,
         KillLeftovers, Finishes, Types, ConnTypes
<1>4. KillLeftovers(c) => UNCHANGED pc
  BY DEF KillLeftovers, workerVars
<1>5. ASSUME Kind(c) = "daemon", phase'[c] = "finished", phase[c] \notin {"hello", "finished"}
      PROVE  KillLeftovers(c)
  <2>1. c \in sessions
    BY <1>5 DEF SessionInv
  <2>2. ~Finishes(c)
    BY <1>5, <2>1, FinishesPhases
  <2>3. ~ReadHello(c)
    BY <1>5 DEF ReadHello
  <2> QED
    BY <1>5, <2>2, <2>3 DEF Process, DrainTimeout, ReadLine, ReadEof, ReadLong, TakeMessage, CancelCalls,
                            Types, ConnTypes
<1>6. ASSUME NEW w \in Lines
      PROVE  \/ pc'[w] = pc[w]
             \/ pc[w] = "sent" /\ pc'[w] = "dropped"
             \/ /\ pc[w] = "sent" /\ w.conn = c /\ phase[c] = "serving" /\ phase'[c] = "serving"
                /\ pc'[w] = (IF Kind(c) = "http" THEN "running" ELSE "spawned")
  <2>1. CASE ReadLine(c)
    <3>1. PICK i \in Readable(c) :
            /\ wire[c][i] \in Lines
            /\ pc' = [pc EXCEPT ![wire[c][i]] = IF Kind(c) = "http" THEN "running" ELSE "spawned"]
      BY <2>1 DEF ReadLine
    <3>2. wire[c][i].conn = c /\ pc[wire[c][i]] = "sent"
      BY <2>1, <3>1 DEF Readable, ReadLine, WireInv
    <3>3. phase[c] = "serving" /\ phase'[c] = "serving"
      BY <2>1 DEF ReadLine
    <3> QED
      BY <3>1, <3>2, <3>3 DEF Types, WorkerTypes
  <2>2. CASE ~ReadLine(c)
    <3>1. UNCHANGED pc \/ Drop(c)
      BY <2>2 DEF Process, DrainTimeout, ReadHello, ReadEof, ReadLong, TakeMessage, CancelCalls,
                  KillLeftovers, Finishes, workerVars
    <3> QED
      BY <3>1 DEF Drop
  <2> QED
    BY <2>1, <2>2
<1> QED
  BY <1>0, <1>1, <1>2, <1>3, <1>4, <1>5, <1>6

\* What a worker does to itself and the tables.
LEMMA WorkerMoves ==
  ASSUME Types, NamesInv, NEW w \in Lines,
         Works(w) \/ CallLsp(w) \/ LspAnswers(w) \/ Dies(w) \/ Panics(w) \/ Hangs(w)
  PROVE  /\ UNCHANGED <<transport, phase, missed>> /\ crashed \subseteq crashed'
         /\ \A v \in Lines : v # w => pc'[v] = pc[v] /\ victim'[v] = victim[v]
         /\ rows' = rows \/ Register(w) \/ Deregister(w) \/ ClearRow(w)
         /\ doomed' = doomed \/ Kill(w)
         /\ pc'[w] = pc[w] \/ w \in Living
         /\ pc'[w] = "dead" =>
              pc[w] = "dead" \/ w \in doomed \cup crashed' \/ Deregister(w) \/ Kind(w.conn) = "http"
         /\ pc[w] = "clearing" => (pc'[w] = "clearing" /\ victim'[w] = victim[w]) \/ ClearRow(w) \/ w \in doomed
         /\ pc'[w] = "clearing" => (pc[w] = "clearing" /\ victim'[w] = victim[w]) \/ Kill(w)
         /\ pc[w] = "spawned" => pc'[w] \in {"spawned", "dead"} \/ Register(w)
<1>1. UNCHANGED <<transport, phase, missed>> /\ crashed \subseteq crashed'
  BY DEF Works, Register, Reply, Deregister, Exits, LookUpWorker, Kill, ClearRow, CancelCall,
         CallLsp, LspAnswers, Dies, Panics, Hangs, connVars, cancelVars
<1>2. \A v \in Lines : v # w => pc'[v] = pc[v] /\ victim'[v] = victim[v]
  BY DEF Works, Register, Reply, Deregister, Exits, LookUpWorker, Kill, ClearRow, CancelCall,
         CallLsp, LspAnswers, Dies, Panics, Hangs, GoTo, Types, WorkerTypes
<1>3. /\ rows' = rows \/ Register(w) \/ Deregister(w) \/ ClearRow(w)
      /\ doomed' = doomed \/ Kill(w)
  <2>1. rows' = rows \/ Register(w) \/ Deregister(w) \/ ClearRow(w)
    BY DEF Works, Reply, LookUpWorker, Kill, CancelCall, CallLsp, LspAnswers, Dies, Panics, Hangs, tables
  <2>2. doomed' = doomed \/ Kill(w)
    BY DEF Works, Register, Reply, Deregister, LookUpWorker, ClearRow, CancelCall,
           CallLsp, LspAnswers, Dies, Panics, Hangs, cancelVars
  <2> QED
    BY <2>1, <2>2
<1>4. pc'[w] = pc[w] \/ w \in Living
  BY DEF Works, Register, Reply, Deregister, Exits, LookUpWorker, Kill, ClearRow, CancelCall,
         CallLsp, LspAnswers, Dies, Panics, Hangs, At, GoTo, Living, Types, WorkerTypes
<1>5. pc'[w] = "dead" =>
        pc[w] = "dead" \/ w \in doomed \cup crashed' \/ Deregister(w) \/ Kind(w.conn) = "http"
  <2>1. CASE Deregister(w) \/ Dies(w) \/ Panics(w)
    BY <2>1 DEF Dies, Panics
  <2>2. CASE LspAnswers(w)
    BY <2>2 DEF LspAnswers, Types, WorkerTypes
  <2>3. CASE Reply(w)
    BY <2>3 DEF Reply, GoTo, Types, WorkerTypes
  <2>4. CASE Register(w) \/ CallLsp(w) \/ LookUpWorker(w) \/ Kill(w) \/ ClearRow(w) \/ CancelCall(w) \/ Hangs(w)
    BY <2>4 DEF Register, CallLsp, LookUpWorker, Kill, ClearRow, CancelCall, Hangs, GoTo, Types, WorkerTypes
  <2> QED
    BY <2>1, <2>2, <2>3, <2>4 DEF Works
<1>6. pc[w] = "clearing" => (pc'[w] = "clearing" /\ victim'[w] = victim[w]) \/ ClearRow(w) \/ w \in doomed
  <2> SUFFICES ASSUME pc[w] = "clearing", ~ClearRow(w), ~Dies(w)
               PROVE  pc'[w] = "clearing" /\ victim'[w] = victim[w]
    BY DEF Dies
  <2>1. LspAnswers(w)
    BY DEF Works, Register, Reply, Deregister, LookUpWorker, Kill, CancelCall, CallLsp, Panics, Hangs, At
  <2> QED
    BY <2>1 DEF LspAnswers, Types, WorkerTypes
<1>7. pc'[w] = "clearing" => (pc[w] = "clearing" /\ victim'[w] = victim[w]) \/ Kill(w)
  BY DEF Works, Register, Reply, Deregister, Exits, LookUpWorker, ClearRow, CancelCall,
         CallLsp, LspAnswers, Dies, Panics, Hangs, At, GoTo, Types, WorkerTypes
<1>8. pc[w] = "spawned" => pc'[w] \in {"spawned", "dead"} \/ Register(w)
  BY DEF Works, Reply, Deregister, LookUpWorker, Kill, ClearRow, CancelCall,
         CallLsp, LspAnswers, Dies, Exits, Panics, Hangs, At, GoTo, Types, WorkerTypes
<1> QED
  BY <1>1, <1>2, <1>3, <1>4, <1>5, <1>6, <1>7, <1>8

LEMMA WorkerTracks ==
  ASSUME Types, WireInv, NamesInv, NamesInv', TrackInv, [Next]_vars, NEW w \in Lines,
         Works(w) \/ CallLsp(w) \/ LspAnswers(w) \/ Dies(w) \/ Panics(w) \/ Hangs(w)
  PROVE  TrackInv'
<1>1. /\ \A c : Kind(c)' = Kind(c)
      /\ \A v : WorkerKey(v)' = WorkerKey(v)
      /\ Keys' = Keys /\ Requests' = Requests
  BY TransportStays, KindStays DEF Keys, Ids, Requests
<1>2. UNCHANGED <<phase, missed>> /\ crashed \subseteq crashed'
  BY WorkerMoves
<1>3. \A v \in Lines : v # w => pc'[v] = pc[v] /\ victim'[v] = victim[v]
  BY WorkerMoves
<1>4. ASSUME NEW k \in Keys
      PROVE  \/ rows'[k] = rows[k]
             \/ /\ rows'[k] = w /\ k = WorkerKey(w) /\ pc[w] = "spawned" /\ pc'[w] = "running"
                /\ doomed' = doomed
             \/ rows'[k] = NoLine /\ k = WorkerKey(w) /\ pc'[w] = "dead"
             \/ rows'[k] = NoLine /\ k = KeyOf(w.conn, w.id) /\ pc[w] = "clearing"
  <2>1. CASE Register(w)
    BY <2>1 DEF Register, At, GoTo, Types, WorkerTypes, cancelVars
  <2>2. CASE Deregister(w)
    BY <2>2 DEF Deregister, Exits, GoTo, Types, WorkerTypes
  <2>3. CASE ClearRow(w)
    BY <2>3 DEF ClearRow, At, Types, WorkerTypes
  <2> QED
    BY <2>1, <2>2, <2>3, WorkerMoves
<1>5. doomed \subseteq doomed' /\ \A u \in doomed' : u \in doomed \/
        (u = victim[w] /\ pc[w] = "killing" /\ pc'[w] = "clearing" /\ victim'[w] = victim[w])
  BY WorkerMoves DEF Kill, At, GoTo, Types, WorkerTypes
<1>6. Living' \subseteq Living
  BY <1>3, WorkerMoves DEF Living
<1>7. /\ pc'[w] = "dead" => pc[w] = "dead" \/ w \in doomed \cup crashed' \/ Deregister(w) \/ Kind(w.conn) = "http"
      /\ pc[w] = "clearing" => (pc'[w] = "clearing" /\ victim'[w] = victim[w]) \/ ClearRow(w) \/ w \in doomed
      /\ pc'[w] = "clearing" => (pc[w] = "clearing" /\ victim'[w] = victim[w]) \/ Kill(w)
      /\ pc[w] = "spawned" => pc'[w] \in {"spawned", "dead"} \/ Register(w)
  BY WorkerMoves
<1>8. \A k \in Keys : rows[k] # NoLine =>
        /\ rows[k] \in Lines /\ k = WorkerKey(rows[k]) /\ Kind(rows[k].conn) # "http"
  BY DEF NamesInv, RowsAreNamed, Types, WorkerTypes
<1>9. pc[w] \in {"killing", "clearing"} =>
        /\ w \notin Requests /\ victim[w] \in Lines /\ victim[w] \in Requests
        /\ KeyOf(w.conn, w.id) = WorkerKey(victim[w])
  BY DEF NamesInv, VictimsAreNamed, Requests
<1>10. w \notin doomed \/ pc[w] # "spawned"
  BY DEF NamesInv, DoomedAreNamed, Past
<1>11. doomed' \subseteq Lines /\ NoLine \notin Lines
  BY DEF NamesInv, DoomedAreNamed
<1>12. /\ DoomedRows /\ DoomedCancels /\ LateRows /\ DeadRows /\ ClearingKilled /\ RegisteredRows
       /\ LeftoversAreStopped
  BY DEF TrackInv
<1>13. DoomedRows'
  <2> SUFFICES ASSUME NEW k \in Keys, rows'[k] \in doomed'
               PROVE  rows'[k] \in missed' \/ \E x \in Lines : victim'[x] = rows'[k] /\ pc'[x] = "clearing"
    BY <1>1 DEF DoomedRows
  <2>1. rows'[k] = rows[k] /\ rows[k] # NoLine
    BY <1>4, <1>10, <1>11
  <2>2. CASE rows[k] \notin doomed
    BY <1>5, <2>1, <2>2
  <2>3. CASE rows[k] \in doomed /\ rows[k] \notin missed
    <3>1. PICK x \in Lines : victim[x] = rows[k] /\ pc[x] = "clearing"
      BY <1>12, <2>3 DEF DoomedRows
    <3>2. CASE x # w
      BY <1>3, <2>1, <3>1, <3>2
    <3>3. CASE x = w /\ ClearRow(w)
      <4>1. rows'[KeyOf(w.conn, w.id)] = NoLine
        BY <3>3, KeysAreKeys DEF ClearRow, Types, WorkerTypes
      <4>2. k = KeyOf(w.conn, w.id)
        BY <1>8, <1>9, <2>1, <3>1, <3>3
      <4> QED
        BY <2>1, <4>1, <4>2
    <3>4. CASE x = w /\ w \in doomed
      <4>1. Kind(w.conn) = "daemon" /\ phase[w.conn] = "finished" /\ w.conn \in Conns
        BY <1>9, <1>12, <3>1, <3>4 DEF DoomedCancels
      <4>2. k = KeyOf(w.conn, w.id)
        BY <1>8, <1>9, <2>1, <3>1, <3>4
      <4>3. k[1] = <<w.conn>>
        BY <4>1, <4>2 DEF KeyOf, Scope
      <4>4. rows[k] \in missed
        BY <1>12, <2>1, <4>1, <4>3 DEF LateRows
      <4> QED
        BY <2>3, <4>4
    <3> QED
      BY <1>7, <2>1, <3>1, <3>2, <3>3, <3>4
  <2> QED
    BY <1>2, <2>1, <2>2, <2>3
<1>14. DoomedCancels'
  <2> SUFFICES ASSUME NEW x \in doomed', x \notin Requests
               PROVE  Kind(x.conn) = "daemon" /\ phase[x.conn] = "finished"
    BY <1>1, <1>2 DEF DoomedCancels
  <2> QED
    BY <1>5, <1>9, <1>12 DEF DoomedCancels
<1>15. LateRows'
  <2> SUFFICES ASSUME NEW c \in Conns, Kind(c) = "daemon", phase[c] = "finished"
               PROVE  /\ \A k \in Keys : k[1] = <<c>> /\ rows'[k] # NoLine => rows'[k] \in missed
                      /\ \A v \in Lines : v.conn = c /\ pc'[v] = "spawned" => v \in missed
    BY <1>1, <1>2 DEF LateRows
  <2>1. ASSUME NEW v \in Lines, v.conn = c, pc[v] = "spawned" PROVE v \in missed
    BY <1>12, <2>1 DEF LateRows
  <2>2. ASSUME NEW v \in Lines, pc'[v] = "spawned" PROVE pc[v] = "spawned"
    <3>1. ~Past(v)
      BY <2>2, LinesGoOn DEF Past
    <3>2. v \in Living \/ pc'[v] = pc[v]
      BY <1>3, WorkerMoves
    <3> QED
      BY <2>2, <3>1, <3>2 DEF Past, Spawned, Living
  <2>3. ASSUME NEW k \in Keys, k[1] = <<c>>, rows'[k] # NoLine PROVE rows'[k] \in missed
    <3>1. CASE rows'[k] = rows[k]
      BY <1>12, <2>3, <3>1 DEF LateRows
    <3>2. CASE rows'[k] = w /\ k = WorkerKey(w) /\ pc[w] = "spawned"
      <4>1. Scope(w.conn) = <<c>>
        BY <2>3, <3>2 DEF WorkerKey, KeyOf
      <4>2. w.conn = c
        BY <4>1 DEF Scope
      <4> QED
        BY <2>1, <3>2, <4>2
    <3> QED
      BY <1>4, <2>3, <3>1, <3>2
  <2> QED
    BY <2>1, <2>2, <2>3
<1>16. DeadRows'
  <2> SUFFICES ASSUME NEW k \in Keys, rows'[k] # NoLine, pc'[rows'[k]] = "dead"
               PROVE  rows'[k] \in doomed' \cup crashed'
    BY <1>1 DEF DeadRows
  <2>1. rows'[k] = rows[k]
    BY <1>4
  <2>2. rows[k] \in Lines /\ k = WorkerKey(rows[k]) /\ Kind(rows[k].conn) # "http"
    BY <1>8, <2>1
  <2>3. pc[rows[k]] = "dead" => rows[k] \in doomed' \cup crashed'
    BY <1>2, <1>5, <1>12, <2>1 DEF DeadRows
  <2>4. CASE rows[k] = w /\ Deregister(w)
    <3>1. rows'[WorkerKey(w)] = NoLine
      BY <2>4, KeysAreKeys DEF Deregister, Types, WorkerTypes
    <3> QED
      BY <2>2, <2>4, <3>1
  <2> QED
    BY <1>3, <1>5, <1>7, <2>1, <2>2, <2>3, <2>4
<1>17. ClearingKilled'
  <2> SUFFICES ASSUME NEW x \in Lines, pc'[x] = "clearing" PROVE victim'[x] \in doomed'
    BY DEF ClearingKilled
  <2>1. CASE x = w /\ Kill(w)
    BY <2>1 DEF Kill
  <2>2. CASE pc[x] = "clearing" /\ victim'[x] = victim[x]
    BY <1>5, <1>12, <2>2 DEF ClearingKilled
  <2> QED
    BY <1>3, <1>7, <2>1, <2>2
<1>18. RegisteredRows'
  <2> SUFFICES ASSUME NEW v \in Requests, Kind(v.conn) = "daemon", phase[v.conn] # "finished", v \in Living'
               PROVE  pc'[v] = "spawned" \/ rows'[WorkerKey(v)] = v \/ v \in doomed'
    BY <1>1, <1>2 DEF RegisteredRows
  <2>1. v \in Living /\ v \in Lines /\ pc'[v] # "dead"
    BY <1>6 DEF Living
  <2>2. pc[v] = "spawned" \/ rows[WorkerKey(v)] = v \/ v \in doomed
    BY <1>12, <2>1 DEF RegisteredRows
  <2>3. CASE pc[v] = "spawned"
    <3>1. CASE v = w /\ Register(w)
      BY <3>1, KeysAreKeys DEF Register, Types, WorkerTypes
    <3> QED
      BY <1>3, <1>7, <2>1, <2>3, <3>1
  <2>4. CASE rows[WorkerKey(v)] = v
    <3>1. \/ rows'[WorkerKey(v)] = v
          \/ rows'[WorkerKey(v)] = w /\ WorkerKey(v) = WorkerKey(w)
          \/ WorkerKey(v) = WorkerKey(w) /\ pc'[w] = "dead"
          \/ WorkerKey(v) = KeyOf(w.conn, w.id) /\ pc[w] = "clearing"
      BY <1>4, <2>1, <2>4, KeysAreKeys
    <3>2. WorkerKey(v) = WorkerKey(w) => v = w
      BY KeysAreOwn
    <3>3. CASE WorkerKey(v) = KeyOf(w.conn, w.id) /\ pc[w] = "clearing"
      <4>1. victim[w] = v
        BY <1>9, <3>3, KeysAreOwn
      <4>2. v \in doomed
        BY <1>12, <3>3, <4>1 DEF ClearingKilled
      <4> QED
        BY <1>5, <4>2
    <3> QED
      BY <2>1, <3>1, <3>2, <3>3
  <2> QED
    BY <1>5, <2>2, <2>3, <2>4
<1>19. LeftoversAreStopped'
  <2> SUFFICES ASSUME NEW c \in Conns, Kind(c) = "daemon", phase[c] = "finished"
               PROVE  Of(c) \cap Requests \cap Living' \subseteq doomed' \cup missed'
    BY <1>1, <1>2 DEF LeftoversAreStopped, Of
  <2> QED
    BY <1>2, <1>5, <1>6, <1>12 DEF LeftoversAreStopped
<1> QED
  BY <1>13, <1>14, <1>15, <1>16, <1>17, <1>18, <1>19 DEF TrackInv

LEMMA ProcessTracks ==
  ASSUME Types, WireInv, SessionInv, NamesInv, NamesInv', TrackInv, NEW c \in Conns,
         Process(c) \/ DrainTimeout(c)
  PROVE  TrackInv'
<1>1. /\ UNCHANGED <<transport, victim, crashed>> /\ phase[c] # "finished"
      /\ \A b \in Conns : b # c => phase'[b] = phase[b]
      /\ Kind(c) = "daemon" /\ phase'[c] = "finished" => KillLeftovers(c) \/ phase[c] = "hello"
      /\ UNCHANGED <<rows, doomed, missed>> \/ KillLeftovers(c)
      /\ KillLeftovers(c) => UNCHANGED pc
  BY ProcessMoves
<1>2. /\ \A b : Kind(b)' = Kind(b)
      /\ \A v : WorkerKey(v)' = WorkerKey(v)
      /\ Keys' = Keys /\ Requests' = Requests
  BY <1>1, KindStays DEF Keys, Ids, Requests
<1>3. \A w \in Lines :
        \/ pc'[w] = pc[w]
        \/ pc[w] = "sent" /\ pc'[w] = "dropped"
        \/ /\ pc[w] = "sent" /\ w.conn = c /\ phase[c] = "serving" /\ phase'[c] = "serving"
           /\ pc'[w] = (IF Kind(c) = "http" THEN "running" ELSE "spawned")
  BY ProcessMoves
<1>4. ASSUME KillLeftovers(c)
      PROVE  /\ phase[c] = "killing" /\ phase'[c] = "finished" /\ Kind(c) = "daemon" /\ Scope(c) = <<c>>
             /\ \A k \in Keys : rows'[k] = IF k[1] = <<c>> THEN NoLine ELSE rows[k]
             /\ doomed' = doomed \cup {w \in Lines : \E k \in Keys : k[1] = <<c>> /\ rows[k] = w}
             /\ missed' = missed \cup
                  ({w \in Of(c) : pc[w] = "spawned"} \ {w \in Lines : \E k \in Keys : k[1] = <<c>> /\ rows[k] = w})
  <2>1. phase[c] = "killing" /\ phase'[c] = "finished"
    BY <1>4 DEF KillLeftovers, Types, ConnTypes
  <2>2. Kind(c) = "daemon" /\ Scope(c) = <<c>>
    BY <2>1 DEF SessionInv, Scope
  <2> QED
    BY <1>4, <2>1, <2>2 DEF KillLeftovers
<1>5. /\ doomed \subseteq doomed' /\ missed \subseteq missed'
      /\ \A k \in Keys : rows'[k] \in {rows[k], NoLine}
  BY <1>1, <1>4
<1>6. \A k \in Keys : rows[k] # NoLine =>
        /\ rows[k] \in Lines /\ k = WorkerKey(rows[k]) /\ Past(rows[k])
        /\ \A b : k[1] = <<b>> => rows[k].conn = b
  <2> SUFFICES ASSUME NEW k \in Keys, rows[k] # NoLine
               PROVE  /\ rows[k] \in Lines /\ k = WorkerKey(rows[k]) /\ Past(rows[k])
                      /\ \A b : k[1] = <<b>> => rows[k].conn = b
    OBVIOUS
  <2>1. rows[k] \in Lines /\ k = WorkerKey(rows[k]) /\ Past(rows[k])
    BY DEF NamesInv, RowsAreNamed, Types, WorkerTypes
  <2>2. k[1] = Scope(rows[k].conn)
    BY <2>1 DEF WorkerKey, KeyOf
  <2> QED
    BY <2>1, <2>2 DEF Scope
<1>7. \A u \in doomed' : u \in doomed \/
        /\ KillLeftovers(c)
        /\ \E k \in Keys : k[1] = <<c>> /\ rows[k] = u /\ u \in Lines
  BY <1>1, <1>4
<1>8. doomed' \subseteq Lines /\ NoLine \notin Lines
  BY DEF NamesInv, DoomedAreNamed
<1>9. /\ DoomedRows /\ DoomedCancels /\ LateRows /\ DeadRows /\ ClearingKilled /\ RegisteredRows
      /\ LeftoversAreStopped
  BY DEF TrackInv
<1>10. \A b \in Conns : phase[b] = "finished" => phase'[b] = "finished"
  BY <1>1
<1>11. ASSUME phase[c] = "hello"
       PROVE  /\ \A w \in Lines : w.conn = c => ~Spawned(w) /\ ~Spawned(w)'
              /\ ~KillLeftovers(c)
  <2>1. \A w \in Lines : w.conn = c => ~Spawned(w)
    BY <1>11 DEF SessionInv, Of
  <2>2. ~KillLeftovers(c)
    BY <1>4, <1>11
  <2> QED
    BY <1>3, <1>11, <2>1, <2>2 DEF Spawned
<1>12. DoomedRows'
  <2> SUFFICES ASSUME NEW k \in Keys, rows'[k] \in doomed'
               PROVE  rows'[k] \in missed' \/ \E x \in Lines : victim'[x] = rows'[k] /\ pc'[x] = "clearing"
    BY <1>2 DEF DoomedRows
  <2>1. rows'[k] = rows[k] /\ rows[k] # NoLine
    BY <1>5, <1>8
  <2>2. rows[k] \in doomed
    <3>1. ASSUME KillLeftovers(c), NEW j \in Keys, j[1] = <<c>>, rows[j] = rows[k] PROVE FALSE
      <4>1. j = k
        BY <1>6, <2>1, <3>1
      <4> QED
        BY <1>4, <2>1, <3>1, <4>1
    <3> QED
      BY <1>7, <2>1, <3>1
  <2>3. \A x \in Lines : pc[x] = "clearing" => pc'[x] = "clearing" /\ victim'[x] = victim[x]
    BY <1>1, <1>3
  <2> QED
    BY <1>5, <1>9, <2>1, <2>2, <2>3 DEF DoomedRows
<1>13. DoomedCancels'
  <2> SUFFICES ASSUME NEW x \in doomed', x \notin Requests
               PROVE  Kind(x.conn) = "daemon" /\ phase'[x.conn] = "finished"
    BY <1>2 DEF DoomedCancels
  <2>1. CASE x \in doomed
    BY <1>8, <1>9, <1>10, <2>1 DEF DoomedCancels
  <2>2. CASE KillLeftovers(c) /\ \E k \in Keys : k[1] = <<c>> /\ rows[k] = x /\ x \in Lines
    BY <1>4, <1>6, <1>8, <2>2
  <2> QED
    BY <1>7, <2>1, <2>2
<1>14. LateRows'
  <2> SUFFICES ASSUME NEW b \in Conns, Kind(b) = "daemon", phase'[b] = "finished"
               PROVE  /\ \A k \in Keys : k[1] = <<b>> /\ rows'[k] # NoLine => rows'[k] \in missed'
                      /\ \A w \in Lines : w.conn = b /\ pc'[w] = "spawned" => w \in missed'
    BY <1>2 DEF LateRows
  <2>1. \A w \in Lines : w.conn = b /\ pc'[w] = "spawned" => pc[w] = "spawned"
    BY <1>3
  <2>2. CASE phase[b] = "finished"
    <3>1. /\ \A k \in Keys : k[1] = <<b>> /\ rows[k] # NoLine => rows[k] \in missed
          /\ \A w \in Lines : w.conn = b /\ pc[w] = "spawned" => w \in missed
      BY <1>9, <2>2 DEF LateRows
    <3> QED
      BY <1>5, <2>1, <3>1
  <2>3. CASE b = c /\ KillLeftovers(c)
    <3>1. \A k \in Keys : k[1] = <<b>> => rows'[k] = NoLine
      BY <1>4, <2>3
    <3>2. ASSUME NEW w \in Lines, w.conn = b, pc[w] = "spawned" PROVE w \in missed'
      <4>1. \A k \in Keys : rows[k] # w
        BY <1>6, <1>8, <3>2 DEF Past
      <4> QED
        BY <1>4, <2>3, <3>2, <4>1 DEF Of
    <3> QED
      BY <2>1, <3>1, <3>2
  <2>4. CASE b = c /\ phase[c] = "hello"
    <3>1. ASSUME NEW k \in Keys, k[1] = <<b>>, rows'[k] # NoLine PROVE FALSE
      <4>1. rows'[k] = rows[k] /\ rows[k] \in Lines /\ Past(rows[k]) /\ rows[k].conn = c
        BY <1>5, <1>6, <2>4, <3>1
      <4> QED
        BY <1>11, <2>4, <4>1 DEF Past
    <3>2. ASSUME NEW w \in Lines, w.conn = b, pc[w] = "spawned" PROVE FALSE
      BY <1>11, <2>4, <3>2 DEF Spawned
    <3> QED
      BY <2>1, <3>1, <3>2
  <2> QED
    BY <1>1, <2>2, <2>3, <2>4
<1>15. DeadRows'
  <2> SUFFICES ASSUME NEW k \in Keys, rows'[k] # NoLine, pc'[rows'[k]] = "dead"
               PROVE  rows'[k] \in doomed' \cup crashed'
    BY <1>2 DEF DeadRows
  <2>1. rows'[k] = rows[k] /\ rows[k] \in Lines /\ rows[k] # NoLine
    BY <1>5, <1>6
  <2>2. pc[rows[k]] = "dead"
    BY <1>3, <2>1
  <2> QED
    BY <1>1, <1>5, <1>9, <2>1, <2>2 DEF DeadRows
<1>16. ClearingKilled'
  <2> SUFFICES ASSUME NEW x \in Lines, pc'[x] = "clearing" PROVE victim'[x] \in doomed'
    BY DEF ClearingKilled
  <2>1. pc[x] = "clearing" /\ victim'[x] = victim[x]
    BY <1>1, <1>3
  <2> QED
    BY <1>5, <1>9, <2>1 DEF ClearingKilled
<1>17. RegisteredRows'
  <2> SUFFICES ASSUME NEW v \in Requests, Kind(v.conn) = "daemon", phase'[v.conn] # "finished", v \in Living'
               PROVE  pc'[v] = "spawned" \/ rows'[WorkerKey(v)] = v \/ v \in doomed'
    BY <1>2 DEF RegisteredRows
  <2>1. v \in Lines /\ v.conn \in Conns /\ phase[v.conn] # "finished"
    BY <1>10, KeysAreKeys DEF Requests
  <2>2. CASE v \notin Living
    BY <1>3, <2>1, <2>2 DEF Living
  <2>3. CASE v \in Living
    <3>1. pc'[v] = pc[v]
      BY <1>3, <2>1, <2>3 DEF Living
    <3>2. pc[v] = "spawned" \/ rows[WorkerKey(v)] = v \/ v \in doomed
      BY <1>9, <2>1, <2>3 DEF RegisteredRows
    <3>3. CASE rows[WorkerKey(v)] = v
      <4>1. CASE KillLeftovers(c)
        <5>1. v.conn # c
          BY <1>4, <4>1
        <5>2. WorkerKey(v)[1] # <<c>>
          BY <5>1 DEF WorkerKey, KeyOf, Scope
        <5> QED
          BY <1>4, <2>1, <3>3, <4>1, <5>2, KeysAreKeys
      <4> QED
        BY <1>1, <3>3, <4>1
    <3> QED
      BY <1>5, <3>1, <3>2, <3>3
  <2> QED
    BY <2>2, <2>3
<1>18. LeftoversAreStopped'
  <2> SUFFICES ASSUME NEW b \in Conns, Kind(b) = "daemon", phase'[b] = "finished",
                      NEW w \in Requests, w.conn = b, w \in Living'
               PROVE  w \in doomed' \cup missed'
    BY <1>2 DEF LeftoversAreStopped, Of
  <2>1. w \in Lines /\ w \in Living /\ pc'[w] = pc[w]
    BY <1>3 DEF Living, Requests
  <2>2. CASE phase[b] = "finished"
    <3>1. w \in Of(b)
      BY <2>1 DEF Of
    <3>2. w \in doomed \cup missed
      BY <1>9, <2>1, <2>2, <3>1 DEF LeftoversAreStopped
    <3> QED
      BY <1>5, <3>2
  <2>3. CASE b = c /\ KillLeftovers(c)
    <3>1. pc[w] = "spawned" \/ rows[WorkerKey(w)] = w \/ w \in doomed
      BY <1>4, <1>9, <2>1, <2>3 DEF RegisteredRows
    <3>2. CASE pc[w] = "spawned"
      BY <1>4, <2>1, <2>3, <3>2 DEF Of
    <3>3. CASE rows[WorkerKey(w)] = w
      <4>1. WorkerKey(w) \in Keys /\ WorkerKey(w)[1] = <<c>>
        BY <1>4, <2>1, <2>3, KeysAreKeys DEF WorkerKey, KeyOf
      <4> QED
        BY <1>4, <2>1, <2>3, <3>3, <4>1
    <3> QED
      BY <1>5, <3>1, <3>2, <3>3
  <2>4. CASE b = c /\ phase[c] = "hello"
    BY <1>11, <2>1, <2>4 DEF Spawned, Living
  <2> QED
    BY <1>1, <2>2, <2>3, <2>4
<1> QED
  BY <1>12, <1>13, <1>14, <1>15, <1>16, <1>17, <1>18 DEF TrackInv

LEMMA ClientTracks ==
  ASSUME Types, TrackInv, transport' = transport, Client \/ UNCHANGED vars
  PROVE  TrackInv'
<1>1. UNCHANGED <<phase, victim, rows, doomed, missed, crashed>>
  BY DEF Client, Send, End, vars, connVars, workerVars, tables, cancelVars
<1>2. \A w \in Lines : pc'[w] = pc[w] \/ (pc[w] = "unsent" /\ pc'[w] = "sent")
  BY DEF Client, Send, End, vars, workerVars, Types, WorkerTypes
<1>3. /\ \A c : Kind(c)' = Kind(c)
      /\ \A c : Of(c)' = Of(c)
      /\ \A v : WorkerKey(v)' = WorkerKey(v)
      /\ Keys' = Keys /\ Requests' = Requests
  BY KindStays DEF Keys, Ids, Requests, Of
<1>4. Living' = Living
  BY <1>2 DEF Living
<1>5. /\ DoomedRows /\ DoomedCancels /\ LateRows /\ DeadRows /\ ClearingKilled /\ RegisteredRows
      /\ LeftoversAreStopped
  BY DEF TrackInv
<1>6. \A k \in Keys : rows[k] \in Lines \cup {NoLine}
  BY DEF Types, WorkerTypes
<1>7. DoomedRows'
  <2>1. \A x \in Lines : pc'[x] = "clearing" <=> pc[x] = "clearing"
    BY <1>2
  <2> QED
    BY <1>1, <1>3, <1>5, <2>1 DEF DoomedRows
<1>8. DoomedCancels' /\ ClearingKilled'
  BY <1>1, <1>2, <1>3, <1>5 DEF DoomedCancels, ClearingKilled
<1>9. LateRows'
  BY <1>1, <1>2, <1>3, <1>5 DEF LateRows
<1>10. DeadRows'
  BY <1>1, <1>2, <1>3, <1>5, <1>6 DEF DeadRows
<1>11. RegisteredRows'
  <2>1. \A w \in Requests : w \in Lines
    BY DEF Requests
  <2> QED
    BY <1>1, <1>2, <1>3, <1>4, <1>5, <2>1 DEF RegisteredRows
<1>12. LeftoversAreStopped'
  BY <1>1, <1>3, <1>4, <1>5 DEF LeftoversAreStopped
<1> QED
  BY <1>7, <1>8, <1>9, <1>10, <1>11, <1>12 DEF TrackInv

\* The inductive invariant of the tracking.
TrackedInv == DispatchInv /\ TrackInv

LEMMA TrackedHolds == Spec => []TrackedInv
<1>1. Init => TrackedInv
  BY InitTypes, InitWireInv, InitSessionInv, InitNamesInv, InitTrackInv DEF TrackedInv, DispatchInv
<1>2. TrackedInv /\ [Next]_vars => TrackedInv'
  <2> SUFFICES ASSUME TrackedInv, [Next]_vars PROVE TrackedInv'
    OBVIOUS
  <2>1. Types /\ WireInv /\ SessionInv /\ NamesInv /\ TrackInv
    BY DEF TrackedInv, DispatchInv
  <2>2. Types' /\ WireInv' /\ SessionInv' /\ NamesInv'
    BY <2>1, TypesStep, WireStep, SessionStep, NamesStep
  <2>3. TrackInv'
    BY <2>1, <2>2, TransportStays, ClientTracks, ProcessTracks, WorkerTracks DEF Next
  <2> QED
    BY <2>2, <2>3 DEF TrackedInv, DispatchInv
<1> QED
  BY <1>1, <1>2, PTL DEF Spec

\* The rows of pharos_request_workers and the workers that run agree, as far as the code
\* makes them: a row outlives its worker only while the cancel that killed it is at work, or
\* after a panic, or when it came after its connection's clean-up; and a connection that has
\* finished leaves no request running but those its clean-up missed (conn.gleam cancel_leftovers).
THEOREM TableMatchesWorkers == Spec => []RequestsAreTracked
<1>1. TrackedInv => RequestsAreTracked
  <2> SUFFICES ASSUME TrackedInv PROVE RequestsAreTracked
    OBVIOUS
  <2>1. Types /\ NamesInv /\ DoomedRows /\ DoomedCancels /\ LateRows /\ DeadRows /\ LeftoversAreStopped
    BY DEF TrackedInv, DispatchInv, TrackInv
  <2>2. ASSUME NEW k \in Keys, rows[k] # NoLine, rows[k] \notin Living, rows[k] \notin crashed \cup missed
        PROVE  \E w \in Living : victim[w] = rows[k] /\ pc[w] \in {"killing", "clearing"}
    <3>1. rows[k] \in Lines /\ Past(rows[k])
      BY <2>1, <2>2 DEF NamesInv, RowsAreNamed, Types, WorkerTypes
    <3>2. pc[rows[k]] = "dead"
      BY <2>2, <3>1 DEF Past, Spawned, Living
    <3>3. rows[k] \in doomed
      BY <2>1, <2>2, <3>2 DEF DeadRows
    <3>4. PICK x \in Lines : victim[x] = rows[k] /\ pc[x] = "clearing"
      BY <2>1, <2>2, <3>3 DEF DoomedRows
    <3> QED
      BY <3>4 DEF Living
  <2>3. RowsAreCurrent
    BY <2>2 DEF RowsAreCurrent
  <2> QED
    BY <2>1, <2>3 DEF RequestsAreTracked
<1> QED
  BY <1>1, TrackedHolds, PTL
=============================================================================
