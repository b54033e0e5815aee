----------------------------- MODULE LspProc_proofs -----------------------------
(***************************************************************************)
(* Theorems about LspProc, for every number of clients, calls and frames,  *)
(* every budget and every choice of faults.                                *)
(***************************************************************************)
EXTENDS LspProc, Integers, SequenceTheorems, WellFoundedInduction, TLAPS

-----------------------------------------------------------------------------
(* Facts about data.                                                        *)

\* Every nonempty set of numbers has a least element.
LEMMA LeastElement ==
  ASSUME NEW T, T \subseteq Nat, T # {}
  PROVE  \E m \in T : \A k \in T : m <= k
<1> DEFINE Below == OpToRel(<, Nat)
<1>1. IsWellFoundedOn(Below, Nat)
  BY NatLessThanWellFounded
<1>2. \A y, x \in Nat : y < x => <<y, x>> \in Below
  BY DEF OpToRel
<1> HIDE DEF Below
<1>3. PICK x \in T : \A y \in T : ~ (<<y, x>> \in Below)
  BY <1>1, WFMin
<1>4. \A y \in T : ~ (y < x)
  BY <1>2, <1>3
<1>5. QED
  BY <1>4

\* A set that holds 0 and with each number the next holds them all.
LEMMA SetInduction ==
  ASSUME NEW n \in Nat, NEW T, 0 \in T, \A i \in 1..n : i - 1 \in T => i \in T
  PROVE  \A i \in 0..n : i \in T
<1> DEFINE Bad == {i \in 0..n : i \notin T}
<1>1. SUFFICES ASSUME Bad # {} PROVE FALSE
  OBVIOUS
<1>2. PICK m \in Bad : \A k \in Bad : m <= k
  <2>1. Bad \subseteq Nat
    OBVIOUS
  <2> HIDE DEF Bad
  <2>2. QED
    BY <1>1, <2>1, LeastElement
<1>3. m - 1 \in 0..n /\ m - 1 \in T
  BY <1>2
<1>4. QED
  BY <1>2, <1>3

\* What Min finds.
LEMMA MinIsLeast ==
  ASSUME NEW T, T \subseteq Nat, T # {}
  PROVE  Min(T) \in T /\ \A k \in T : Min(T) <= k
<1>1. \E m \in T : \A k \in T : m <= k
  BY LeastElement
<1>2. QED
  BY <1>1 DEF Min

\* What Max finds in a bounded set.
LEMMA MaxIsGreatest ==
  ASSUME NEW n \in Nat, NEW T, T \subseteq 0..n, T # {}
  PROVE  Max(T) \in T /\ \A k \in T : k <= Max(T)
<1> DEFINE U == {n - k : k \in T}
<1>1. U \subseteq Nat /\ U # {}
  <2>1. \A k \in T : n - k \in Nat
    OBVIOUS
  <2>2. QED
    BY <2>1
<1>2. \E m \in U : \A k \in U : m <= k
  <2> HIDE DEF U
  <2>1. QED
    BY <1>1, LeastElement
<1>3. PICK m \in U : \A k \in U : m <= k
  BY <1>2
<1>4. PICK x \in T : m = n - x
  OBVIOUS
<1>5. ASSUME NEW k \in T PROVE x >= k
  <2>1. n - k \in U
    OBVIOUS
  <2>2. n - x <= n - k
    BY <2>1, <1>3, <1>4
  <2>3. QED
    BY <2>2
<1>6. QED
  BY <1>5 DEF Max

\* What RemoveAt returns.
LEMMA Removed ==
  ASSUME NEW S, NEW s \in Seq(S), NEW k \in 1..Len(s)
  PROVE  /\ RemoveAt(s, k) \in Seq(S)
         /\ Len(RemoveAt(s, k)) = Len(s) - 1
         /\ \A i \in 1..(Len(s) - 1) : RemoveAt(s, k)[i] = IF i < k THEN s[i] ELSE s[i + 1]
<1> DEFINE a == SubSeq(s, 1, k - 1)
           b == SubSeq(s, k + 1, Len(s))
<1>1. /\ a \in Seq(S) /\ Len(a) = k - 1
      /\ \A i \in 1..(k - 1) : a[i] = s[i]
  OBVIOUS
<1>2. /\ b \in Seq(S) /\ Len(b) = Len(s) - k
      /\ \A i \in 1..(Len(s) - k) : b[i] = s[k + i]
  OBVIOUS
<1>3. RemoveAt(s, k) = a \o b
  BY DEF RemoveAt
<1> HIDE DEF a, b
<1>4. /\ a \o b \in Seq(S)
      /\ Len(a \o b) = Len(s) - 1
  <2>1. a \o b \in Seq(S) /\ Len(a \o b) = Len(a) + Len(b)
    BY <1>1, <1>2, ConcatProperties
  <2>2. Len(s) \in Nat
    OBVIOUS
  <2>3. QED
    BY <2>1, <2>2, <1>1, <1>2
<1>5. ASSUME NEW i \in 1..(Len(s) - 1) PROVE (a \o b)[i] = IF i < k THEN s[i] ELSE s[i + 1]
  <2>1. CASE i < k
    BY <2>1, <1>1, <1>2
  <2>2. CASE i >= k
    <3>1. (a \o b)[i] = b[i - (k - 1)]
      BY <2>2, <1>1, <1>2
    <3>2. i - (k - 1) \in 1..(Len(s) - k)
      BY <2>2
    <3>3. b[i - (k - 1)] = s[k + (i - (k - 1))]
      BY <3>2, <1>2
    <3>4. k + (i - (k - 1)) = i + 1
      BY <2>2
    <3>5. QED
      BY <2>2, <3>1, <3>3, <3>4
  <2>3. i < k \/ i >= k
    OBVIOUS
  <2>4. QED
    BY <2>1, <2>2, <2>3
<1>6. QED
  BY <1>3, <1>4, <1>5

\* What \o returns.
LEMMA Concatenated ==
  ASSUME NEW S, NEW s \in Seq(S), NEW t \in Seq(S)
  PROVE  /\ Len(s \o t) = Len(s) + Len(t) /\ Len(s) \in Nat /\ Len(t) \in Nat
         /\ DOMAIN (s \o t) = 1..(Len(s) + Len(t)) /\ DOMAIN s = 1..Len(s) /\ DOMAIN t = 1..Len(t)
         /\ \A k \in 1..Len(s) : (s \o t)[k] = s[k]
         /\ \A k \in 1..Len(t) : (s \o t)[Len(s) + k] = t[k]
BY ConcatProperties

-----------------------------------------------------------------------------
(* The inductive invariants.                                                *)

Once(s) ==
  \A i, j \in DOMAIN s :
    s[i].tag = "call" /\ s[j].tag = "call" /\ s[i].ticket = s[j].ticket => i = j

Holds(s, t) == \E i \in DOMAIN s : s[i].tag = "call" /\ s[i].ticket = t

\* A ticket belongs to one call, which is installed, in line, or served, and
\* never two of these at once.
TicketsInv ==
  /\ \A c \in Clients : calls[c].ticket <= issued
  /\ \A c \in Clients : calls[c].phase \in {"installed", "waiting"} => calls[c].ticket # 0
  /\ \A c, d \in Clients : c # d /\ calls[c].ticket = calls[d].ticket => calls[c].ticket = 0
  /\ \A t \in Tickets : Holds(mailbox, t) => t <= issued
  /\ serving.ticket <= issued
  /\ Once(mailbox)
  /\ serving.job = "none" => serving = Idle
  /\ serving.job # "none" => serving.ticket # 0 /\ ~Holds(mailbox, serving.ticket)
  /\ \A c \in Clients : calls[c].phase = "installed" =>
       ~Holds(mailbox, calls[c].ticket) /\ serving.ticket # calls[c].ticket

LineInv ==
  alive => \A c \in Clients : Waiting(c) =>
    serving.ticket = calls[c].ticket \/ Holds(mailbox, calls[c].ticket)

ProcInv == TypeOK /\ TicketsInv /\ LineInv /\ InflightIsCurrent /\ AnswersAreOwn

-----------------------------------------------------------------------------
(* Sequences.                                                               *)

\* Lines of calls: what is appended ...
LEMMA HoldsAppend ==
  ASSUME NEW S, NEW s \in Seq(S), NEW m \in S, NEW t
  PROVE  Holds(Append(s, m), t) <=> Holds(s, t) \/ (m.tag = "call" /\ m.ticket = t)
<1> DEFINE r == Append(s, m)
<1>1. /\ DOMAIN r = 1..(Len(s) + 1) /\ DOMAIN s = 1..Len(s)
      /\ \A i \in 1..Len(s) : r[i] = s[i]
      /\ r[Len(s) + 1] = m
  OBVIOUS
<1> HIDE DEF r
<1>2. Holds(s, t) => Holds(r, t)
  BY <1>1 DEF Holds
<1>3. m.tag = "call" /\ m.ticket = t => Holds(r, t)
  BY <1>1 DEF Holds
<1>4. Holds(r, t) => Holds(s, t) \/ (m.tag = "call" /\ m.ticket = t)
  BY <1>1 DEF Holds
<1>5. QED
  BY <1>2, <1>3, <1>4 DEF r

LEMMA OnceAppend ==
  ASSUME NEW S, NEW s \in Seq(S), NEW m \in S, Once(s),
         m.tag = "call" => ~Holds(s, m.ticket)
  PROVE  Once(Append(s, m))
<1> DEFINE r == Append(s, m)
<1>1. /\ DOMAIN r = 1..(Len(s) + 1) /\ DOMAIN s = 1..Len(s)
      /\ \A i \in 1..Len(s) : r[i] = s[i]
      /\ r[Len(s) + 1] = m
  OBVIOUS
<1> HIDE DEF r
<1>2. Once(r)
  BY <1>1 DEF Holds, Once
<1>3. QED
  BY <1>2 DEF r

\* ... and what is taken out.
LEMMA HoldsRemove ==
  ASSUME NEW S, NEW s \in Seq(S), NEW k \in 1..Len(s), Once(s), NEW t
  PROVE  Holds(RemoveAt(s, k), t) <=> Holds(s, t) /\ ~(s[k].tag = "call" /\ s[k].ticket = t)
<1> DEFINE r == RemoveAt(s, k)
<1>1. /\ DOMAIN r = 1..(Len(s) - 1) /\ DOMAIN s = 1..Len(s)
      /\ \A i \in 1..(Len(s) - 1) : r[i] = IF i < k THEN s[i] ELSE s[i + 1]
  BY Removed
<1> HIDE DEF r
<1>2. ASSUME Holds(r, t) PROVE Holds(s, t) /\ ~(s[k].tag = "call" /\ s[k].ticket = t)
  <2>1. PICK i \in DOMAIN r : r[i].tag = "call" /\ r[i].ticket = t
    BY <1>2 DEF Holds
  <2> DEFINE j == IF i < k THEN i ELSE i + 1
  <2>2. j \in DOMAIN s /\ j # k /\ s[j] = r[i]
    BY <2>1, <1>1
  <2> HIDE DEF j
  <2>3. Holds(s, t)
    BY <2>1, <2>2 DEF Holds
  <2>4. ~(s[k].tag = "call" /\ s[k].ticket = t)
    BY <2>1, <2>2, <1>1 DEF Once
  <2>5. QED
    BY <2>3, <2>4
<1>3. ASSUME Holds(s, t), ~(s[k].tag = "call" /\ s[k].ticket = t) PROVE Holds(r, t)
  <2>1. PICK j \in DOMAIN s : s[j].tag = "call" /\ s[j].ticket = t
    BY <1>3 DEF Holds
  <2>2. j # k
    BY <2>1, <1>3
  <2> DEFINE i == IF j < k THEN j ELSE j - 1
  <2>3. i \in DOMAIN r /\ r[i] = s[j]
    BY <2>1, <2>2, <1>1
  <2> HIDE DEF i
  <2>4. QED
    BY <2>1, <2>3 DEF Holds
<1>4. QED
  BY <1>2, <1>3 DEF r

LEMMA OnceRemove ==
  ASSUME NEW S, NEW s \in Seq(S), NEW k \in 1..Len(s), Once(s)
  PROVE  Once(RemoveAt(s, k))
<1> DEFINE r == RemoveAt(s, k)
           at(i) == IF i < k THEN i ELSE i + 1
<1>1. /\ DOMAIN r = 1..(Len(s) - 1) /\ DOMAIN s = 1..Len(s)
      /\ \A i \in 1..(Len(s) - 1) : r[i] = s[at(i)]
      /\ \A i \in 1..(Len(s) - 1) : at(i) \in DOMAIN s
  <2>1. /\ DOMAIN r = 1..(Len(s) - 1) /\ DOMAIN s = 1..Len(s)
        /\ \A i \in 1..(Len(s) - 1) : r[i] = IF i < k THEN s[i] ELSE s[i + 1]
    BY Removed
  <2> HIDE DEF r
  <2>2. \A i \in 1..(Len(s) - 1) : r[i] = s[at(i)]
    BY <2>1
  <2>3. \A i \in 1..(Len(s) - 1) : at(i) \in DOMAIN s
    BY <2>1
  <2>4. QED
    BY <2>1, <2>2, <2>3
<1>2. \A i, j \in 1..(Len(s) - 1) : at(i) = at(j) => i = j
  OBVIOUS
<1> HIDE DEF r, at
<1>3. Once(r)
  BY <1>1, <1>2 DEF Once
<1>4. QED
  BY <1>3 DEF r

-----------------------------------------------------------------------------
(* The parser.                                                              *)

Reads(s, n, g) ==
  g = [i \in 0..n |->
        IF i = 0 THEN <<>>
        ELSE IF IsLast(s[i]) THEN Append(g[i - 1], s[i].frame) ELSE g[i - 1]]

\* The recursion of Frames defines a function.
LEMMA FramesDefined ==
  ASSUME NEW s, Len(s) \in Nat
  PROVE  \E g : Reads(s, Len(s), g) /\ Frames(s) = g[Len(s)]
<1> DEFINE T == {n \in 0..Len(s) : \E g : Reads(s, n, g)}
<1>1. 0 \in T
  <2>1. Reads(s, 0, [i \in 0..0 |-> <<>>])
    BY DEF Reads
  <2>2. QED
    BY <2>1
<1>2. ASSUME NEW n \in 1..Len(s), n - 1 \in T PROVE n \in T
  <2>1. PICK g : Reads(s, n - 1, g)
    BY <1>2
  <2> DEFINE last == IF IsLast(s[n]) THEN Append(g[n - 1], s[n].frame) ELSE g[n - 1]
             h == [i \in 0..n |-> IF i = n THEN last ELSE g[i]]
  <2> HIDE DEF last
  <2>2. \A i \in 0..(n - 1) : h[i] = g[i]
    OBVIOUS
  <2>3. h[n] = last
    OBVIOUS
  <2>4. ASSUME NEW i \in 0..n
        PROVE  h[i] = IF i = 0 THEN <<>>
                      ELSE IF IsLast(s[i]) THEN Append(h[i - 1], s[i].frame) ELSE h[i - 1]
    <3>1. CASE i = n
      <4>1. n # 0 /\ n - 1 \in 0..(n - 1)
        OBVIOUS
      <4>2. h[n - 1] = g[n - 1]
        BY <4>1, <2>2
      <4> HIDE DEF h
      <4>3. QED
        BY <3>1, <4>1, <4>2, <2>3 DEF last
    <3>2. CASE i # n
      <4>1. i \in 0..(n - 1) /\ (i # 0 => i - 1 \in 0..(n - 1))
        BY <3>2
      <4>2. g[i] = IF i = 0 THEN <<>>
                   ELSE IF IsLast(s[i]) THEN Append(g[i - 1], s[i].frame) ELSE g[i - 1]
        BY <4>1, <2>1 DEF Reads
      <4> HIDE DEF h
      <4>3. QED
        BY <4>1, <4>2, <2>2
    <3>3. QED
      BY <3>1, <3>2
  <2>5. Reads(s, n, h)
    BY <2>4 DEF Reads
  <2>6. QED
    BY <2>5
<1>3. Len(s) \in T
  <2> HIDE DEF T
  <2>1. \A i \in 0..Len(s) : i \in T
    BY <1>1, <1>2, SetInduction
  <2>2. QED
    BY <2>1
<1>4. \E g : Reads(s, Len(s), g)
  BY <1>3
<1>5. QED
  BY <1>4 DEF Frames, Reads

\* Frames reads one piece after the other.
LEMMA FramesStep ==
  ASSUME NEW s, Len(s) \in Nat
  PROVE  \E g : /\ Frames(s) = g[Len(s)]
                /\ g[0] = <<>>
                /\ \A i \in 1..Len(s) :
                     g[i] = IF IsLast(s[i]) THEN Append(g[i - 1], s[i].frame) ELSE g[i - 1]
<1>1. PICK g : Reads(s, Len(s), g) /\ Frames(s) = g[Len(s)]
  BY FramesDefined
<1>2. g[0] = <<>>
  BY <1>1 DEF Reads
<1>3. ASSUME NEW i \in 1..Len(s)
      PROVE  g[i] = IF IsLast(s[i]) THEN Append(g[i - 1], s[i].frame) ELSE g[i - 1]
  <2>1. i \in 0..Len(s) /\ i # 0
    OBVIOUS
  <2>2. QED
    BY <2>1, <1>1 DEF Reads
<1>4. QED
  BY <1>1, <1>2, <1>3

LEMMA FramesType ==
  ASSUME NEW s \in Seq(Piece)
  PROVE  Frames(s) \in Seq(Frame)
<1>1. Len(s) \in Nat
  OBVIOUS
<1>2. PICK g : /\ Frames(s) = g[Len(s)]
               /\ g[0] = <<>>
               /\ \A i \in 1..Len(s) :
                    g[i] = IF IsLast(s[i]) THEN Append(g[i - 1], s[i].frame) ELSE g[i - 1]
  BY <1>1, FramesStep
<1> DEFINE T == {i \in 0..Len(s) : g[i] \in Seq(Frame)}
<1>3. 0 \in T
  <2>1. g[0] \in Seq(Frame)
    BY <1>2, EmptySeq
  <2>2. 0 \in 0..Len(s)
    BY <1>1
  <2>3. QED
    BY <2>1, <2>2
<1>4. ASSUME NEW i \in 1..Len(s), i - 1 \in T PROVE i \in T
  <2>1. s[i] \in Piece
    OBVIOUS
  <2>2. s[i].frame \in Frame
    BY <2>1 DEF Piece
  <2>3. g[i - 1] \in Seq(Frame)
    BY <1>4
  <2>4. g[i] \in {Append(g[i - 1], s[i].frame), g[i - 1]}
    BY <1>2
  <2>5. Append(g[i - 1], s[i].frame) \in Seq(Frame)
    BY <2>2, <2>3, AppendProperties
  <2>6. g[i] \in Seq(Frame)
    BY <2>3, <2>4, <2>5
  <2>7. QED
    BY <2>6
<1> HIDE DEF T
<1>5. \A i \in 0..Len(s) : i \in T
  BY <1>1, <1>3, <1>4, SetInduction
<1>6. QED
  BY <1>1, <1>2, <1>5 DEF T

LEMMA CompleteType ==
  ASSUME NEW s \in Seq(Piece)
  PROVE  Complete(s) \in Seq(Frame)
BY FramesType DEF Complete

LEMMA LeftoverType ==
  ASSUME NEW s \in Seq(Piece)
  PROVE  Leftover(s) \in Seq(Piece)
<1>1. s # <<>> => s[Len(s)] \in Piece
  OBVIOUS
<1>2. QED
  BY <1>1 DEF Leftover

-----------------------------------------------------------------------------
(* Types.                                                                   *)

\* What the messages of each kind carry.
LEMMA Messages ==
  ASSUME NEW m \in Message
  PROVE  /\ m.tag \in {"call", "handler", "cancel", "data", "exit"}
         /\ m.tag = "call" => m.from \in Clients
         /\ m.tag = "call" => m.method \in {"request", "rename", "publish"}
         /\ m.tag = "call" => m.ticket \in Tickets
         /\ m.tag \in {"handler", "cancel"} => m.ticket \in Tickets
         /\ m.tag = "data" => m.pieces \in Seq(Piece)
<1>1. CASE m \in [tag : {"call"}, from : Clients, method : {"request", "rename", "publish"}, ticket : Tickets]
  BY <1>1
<1>2. CASE m \in [tag : {"handler", "cancel"}, ticket : Tickets]
  BY <1>2
<1>3. CASE m \in [tag : {"data"}, pieces : Seq(Piece)]
  BY <1>3
<1>4. CASE m \in [tag : {"exit"}]
  BY <1>4
<1>5. QED
  BY <1>1, <1>2, <1>3, <1>4 DEF Message

\* The messages there are.
LEMMA MessageTypes ==
  /\ \A c \in Clients, n \in {"request", "rename", "publish"}, t \in Tickets :
       CallMessage(c, n, t) \in Message
  /\ \A t \in Tickets : [tag |-> "handler", ticket |-> t] \in Message
  /\ \A t \in Tickets : [tag |-> "cancel", ticket |-> t] \in Message
  /\ \A s \in Seq(Piece) : [tag |-> "data", pieces |-> s] \in Message
  /\ [tag |-> "exit"] \in Message
BY DEF Message, CallMessage

CallType == [phase : Resting \cup {"installed", "waiting"},
             method : {"request", "rename", "publish"},
             ticket : 0..MaxCalls, waited : 0..(Budget + Slack), got : 0..MaxCalls]
ServingType == [job : {"none", "request", "publish"}, from : Clients \cup {NoClient},
                ticket : 0..MaxCalls, silence : Nat, left : Nat, found : BOOLEAN]

\* The variables a receive loop works on.
LoopTypes ==
  /\ calls \in [Clients -> CallType]
  /\ client \in ClientType /\ work \in ClientType
  /\ serving \in ServingType
  /\ reading \in Seq(Piece)
  /\ inflight \in [Clients -> 0..MaxCalls]
  /\ cache \in 0..MaxFrames
  /\ edits \subseteq [by : Tickets, frame : Frame]
  /\ clean \in BOOLEAN

\* The others.
WorldTypes ==
  /\ issued \in 0..MaxCalls
  /\ mailbox \in Seq(Message)
  /\ alive \in BOOLEAN
  /\ port \in {"up", "dying", "closed"}
  /\ wire \in Seq(Piece)
  /\ owed \subseteq [ticket : Tickets, method : {"request", "rename"}]
  /\ told \subseteq Tickets
  /\ emitted \in Seq(Frame)

LEMMA TypesSplit == TypeOK <=> LoopTypes /\ WorldTypes /\ handled \in Seq(Frame)
BY DEF TypeOK, LoopTypes, WorldTypes, CallType, ServingType

LEMMA FreshTypes == Fresh \in ClientType /\ Idle \in ServingType
<1>1. <<>> \in Seq(Piece) /\ <<>> \in Seq(Frame)
  BY EmptySeq
<1>2. 0 \in 0..MaxCalls
  BY ConstantsAssumption
<1>3. QED
  BY <1>1, <1>2 DEF Fresh, Idle, ClientType, ServingType

-----------------------------------------------------------------------------
(* What a step may do to the calls and to the one being served.             *)

\* Nobody gets a ticket, takes a place in line, or a wrong answer.
Settles ==
  /\ \A c \in Clients : calls'[c].ticket = calls[c].ticket
  /\ \A c \in Clients :
       \/ calls'[c].phase = calls[c].phase
       \/ calls[c].phase = "waiting" /\ calls'[c].phase \in {"ok", "error", "panic"}
  /\ \A c \in Clients :
       calls'[c].phase = "ok" => calls'[c].got = calls'[c].ticket

\* The call being served stays, or has ended with nobody waiting for it.
ServesOn ==
  \/ serving' = serving
  \/ /\ serving' # Idle /\ serving.job # "none"
     /\ serving'.job = serving.job /\ serving'.from = serving.from
     /\ serving'.ticket = serving.ticket
  \/ /\ serving' = Idle
     /\ alive' => \A c \in Clients :
          calls'[c].phase = "waiting" => calls[c].ticket # serving.ticket

\* No call comes into the mailbox, none leaves it while the proc lives.
SameLine ==
  /\ Once(mailbox')
  /\ \A t \in Tickets : Holds(mailbox', t) => Holds(mailbox, t)
  /\ alive' => \A t \in Tickets : Holds(mailbox, t) => Holds(mailbox', t)

LEMMA IdleFields == Idle.job = "none" /\ Idle.ticket = 0 /\ Idle.from = NoClient
BY DEF Idle

\* A step that lets nobody in keeps every place.
LEMMA PlacesKept ==
  ASSUME TypeOK, TypeOK', TicketsInv, LineInv,
         Settles, ServesOn, SameLine, issued' = issued, alive' => alive
  PROVE  TicketsInv' /\ LineInv'
<1> USE DEF Settles
<1>t. /\ \A c \in Clients : calls[c].ticket \in 0..MaxCalls
      /\ \A c \in Clients : calls'[c].ticket \in 0..MaxCalls
      /\ serving.ticket \in 0..MaxCalls /\ serving'.ticket \in 0..MaxCalls
      /\ issued \in Nat
      /\ Idle.job = "none" /\ Idle.ticket = 0
  <2>1. calls \in [Clients -> CallType] /\ calls' \in [Clients -> CallType]
    BY DEF TypeOK, CallType
  <2>2. serving \in ServingType /\ serving' \in ServingType
    BY DEF TypeOK, ServingType
  <2>3. issued \in Nat
    BY DEF TypeOK
  <2>4. \A c \in Clients : calls[c].ticket \in 0..MaxCalls
    BY <2>1 DEF CallType
  <2>5. \A c \in Clients : calls'[c].ticket \in 0..MaxCalls
    BY <2>1 DEF CallType
  <2>6. serving.ticket \in 0..MaxCalls /\ serving'.ticket \in 0..MaxCalls
    BY <2>2 DEF ServingType
  <2>7. QED
    BY <2>3, <2>4, <2>5, <2>6, IdleFields
<1>s. \/ serving' = serving
      \/ /\ serving' # Idle /\ serving.job # "none"
         /\ serving'.job = serving.job
         /\ serving'.ticket = serving.ticket
      \/ /\ serving' = Idle
         /\ alive' => \A c \in Clients :
              calls'[c].phase = "waiting" => calls[c].ticket # serving.ticket
  BY DEF ServesOn
<1>1. \A c \in Clients : calls'[c].ticket <= issued'
  BY DEF TicketsInv
<1>2. \A c \in Clients : calls'[c].phase \in {"installed", "waiting"} => calls'[c].ticket # 0
  BY DEF TicketsInv
<1>3. \A c, d \in Clients : c # d /\ calls'[c].ticket = calls'[d].ticket => calls'[c].ticket = 0
  BY DEF TicketsInv
<1>4. \A t \in Tickets : Holds(mailbox', t) => t <= issued'
  BY DEF TicketsInv, SameLine
<1>5. serving'.ticket <= issued'
  BY <1>s, <1>t DEF TicketsInv
<1>6. serving'.job = "none" => serving' = Idle
  BY <1>s, <1>t DEF TicketsInv
<1>7. serving'.job # "none" => serving'.ticket # 0
  BY <1>s, <1>t DEF TicketsInv
<1>8. serving'.job # "none" => ~Holds(mailbox', serving'.ticket)
  <2>1. serving'.job # "none" => serving'.ticket \in Tickets
    BY <1>7, <1>t DEF Tickets
  <2>2. serving'.job # "none" => serving.job # "none" /\ serving'.ticket = serving.ticket
    BY <1>s, <1>t
  <2>3. QED
    BY <2>1, <2>2 DEF TicketsInv, SameLine
<1>9. ASSUME NEW c \in Clients, calls'[c].phase = "installed"
      PROVE  ~Holds(mailbox', calls'[c].ticket) /\ serving'.ticket # calls'[c].ticket
  <2>1. calls[c].phase = "installed" /\ calls'[c].ticket = calls[c].ticket
    BY <1>9
  <2>2. calls[c].ticket # 0 /\ calls[c].ticket \in Tickets
    BY <2>1, <1>t DEF TicketsInv, Tickets
  <2>3. ~Holds(mailbox', calls[c].ticket)
    BY <2>1, <2>2 DEF TicketsInv, SameLine
  <2>4. serving'.ticket # calls[c].ticket
    BY <2>1, <2>2, <1>s, <1>t DEF TicketsInv
  <2>5. QED
    BY <2>1, <2>3, <2>4
<1>10. Once(mailbox')
  BY DEF SameLine
<1>11. TicketsInv'
  BY <1>1, <1>2, <1>3, <1>4, <1>5, <1>6, <1>7, <1>8, <1>9, <1>10 DEF TicketsInv
<1>12. ASSUME alive', NEW c \in Clients, calls'[c].phase = "waiting"
       PROVE  serving'.ticket = calls'[c].ticket \/ Holds(mailbox', calls'[c].ticket)
  <2>1. calls[c].phase = "waiting" /\ calls'[c].ticket = calls[c].ticket
    BY <1>12
  <2>2. calls[c].ticket # 0 /\ calls[c].ticket \in Tickets
    BY <2>1, <1>t DEF TicketsInv, Tickets
  <2>3. serving.ticket = calls[c].ticket \/ Holds(mailbox, calls[c].ticket)
    BY <1>12, <2>1 DEF LineInv, Waiting
  <2>4. Holds(mailbox, calls[c].ticket) => Holds(mailbox', calls[c].ticket)
    BY <1>12, <2>2 DEF SameLine
  <2>5. serving.ticket = calls[c].ticket => serving'.ticket = calls[c].ticket
    BY <1>12, <1>s
  <2>6. QED
    BY <2>1, <2>3, <2>4, <2>5
<1>13. LineInv'
  BY <1>12 DEF LineInv, Waiting
<1>14. QED
  BY <1>11, <1>13

\* Rows follow what is served.
LEMMA RowsFollow ==
  ASSUME TypeOK, TicketsInv, InflightIsCurrent, alive' => alive,
         \/ serving'.job = serving.job /\ serving'.from = serving.from
            /\ serving'.ticket = serving.ticket /\ inflight' = inflight
         \/ serving' = Idle /\ inflight' = [inflight EXCEPT ![serving.from] = 0]
         \/ serving' = Idle /\ serving.job = "publish" /\ inflight' = inflight
         \/ ~alive'
  PROVE  InflightIsCurrent'
<1>1. SUFFICES ASSUME alive', NEW c \in Clients
               PROVE  inflight'[c] = IF serving'.job = "request" /\ serving'.from = c
                                     THEN serving'.ticket ELSE 0
  BY DEF InflightIsCurrent
<1>2. inflight[c] = IF serving.job = "request" /\ serving.from = c THEN serving.ticket ELSE 0
  BY <1>1 DEF InflightIsCurrent
<1>3. inflight \in [Clients -> 0..MaxCalls]
  BY DEF TypeOK
<1>4. CASE serving'.job = serving.job /\ serving'.from = serving.from
           /\ serving'.ticket = serving.ticket /\ inflight' = inflight
  BY <1>2, <1>4
<1>5. CASE serving' = Idle /\ inflight' = [inflight EXCEPT ![serving.from] = 0]
  BY <1>2, <1>3, <1>5, IdleFields
<1>6. CASE serving' = Idle /\ serving.job = "publish" /\ inflight' = inflight
  BY <1>2, <1>6, IdleFields
<1>7. QED
  BY <1>1, <1>4, <1>5, <1>6

\* The reply to a call ends the wait for it.
LEMMA ReplySettles ==
  ASSUME TypeOK, AnswersAreOwn, NEW t, NEW phase \in {"ok", "error"}, NEW got \in 0..MaxCalls,
         phase = "ok" => got = t, Reply(t, phase, got)
  PROVE  /\ calls' \in [Clients -> CallType]
         /\ Settles
         /\ \A c \in Clients : calls'[c].phase = "waiting" => calls[c].ticket # t
<1>1. calls \in [Clients -> CallType]
  BY TypesSplit DEF LoopTypes
<1>2. \A c \in Clients : calls'[c] = IF calls[c].phase = "waiting" /\ calls[c].ticket = t
        THEN [calls[c] EXCEPT !.phase = phase, !.got = got, !.waited = 0] ELSE calls[c]
  BY DEF Reply
<1>3. 0 \in 0..(Budget + Slack) /\ phase \in Resting
  BY ConstantsAssumption DEF Resting
<1>4. ASSUME NEW c \in Clients
      PROVE  /\ calls'[c] \in CallType
             /\ calls'[c].ticket = calls[c].ticket
             /\ \/ calls'[c].phase = calls[c].phase
                \/ calls[c].phase = "waiting" /\ calls'[c].phase \in {"ok", "error", "panic"}
             /\ calls'[c].phase = "ok" => calls'[c].got = calls'[c].ticket
             /\ calls'[c].phase = "waiting" => calls[c].ticket # t
  <2>1. calls[c] \in CallType
    BY <1>1
  <2>2. CASE calls[c].phase = "waiting" /\ calls[c].ticket = t
    <3>1. calls'[c] = [calls[c] EXCEPT !.phase = phase, !.got = got, !.waited = 0]
      BY <1>2, <2>2
    <3>2. calls'[c] \in CallType
      BY <3>1, <2>1, <1>3 DEF CallType
    <3>3. /\ calls'[c].ticket = calls[c].ticket
          /\ calls'[c].phase = phase
          /\ calls'[c].got = got
      BY <3>1, <2>1 DEF CallType
    <3>4. QED
      BY <3>2, <3>3, <2>2
  <2>3. CASE ~(calls[c].phase = "waiting" /\ calls[c].ticket = t)
    <3>1. calls'[c] = calls[c]
      BY <1>2, <2>3
    <3>2. QED
      BY <3>1, <2>1, <2>3 DEF AnswersAreOwn
  <2>4. QED
    BY <2>2, <2>3
<1>5. calls' \in [Clients -> CallType]
  <2>1. calls' = [c \in Clients |-> calls'[c]]
    BY DEF Reply
  <2>2. QED
    BY <2>1, <1>4
<1>6. QED
  BY <1>4, <1>5 DEF Settles

-----------------------------------------------------------------------------
(* The receive loop.                                                        *)

RowsKept ==
  \/ serving'.job = serving.job /\ serving'.from = serving.from
     /\ serving'.ticket = serving.ticket /\ inflight' = inflight
  \/ serving' = Idle /\ inflight' = [inflight EXCEPT ![serving.from] = 0]
  \/ serving' = Idle /\ serving.job = "publish" /\ inflight' = inflight

\* What every step of a receive loop observes.
Orderly == LoopTypes' /\ Settles /\ ServesOn /\ RowsKept

LEMMA DispatchTypes ==
  ASSUME TypeOK, NEW fs \in Seq(Frame), NEW capture \in 0..MaxCalls, Dispatch(fs, capture)
  PROVE  /\ handled' \in Seq(Frame)
         /\ cache' \in 0..MaxFrames
         /\ edits' \subseteq [by : Tickets, frame : Frame]
<1>1. handled' \in Seq(Frame)
  BY ConcatProperties DEF Dispatch, TypeOK
<1>2. \A i \in DOMAIN fs : fs[i] \in Frame
  OBVIOUS
<1>3. cache' \in 0..MaxFrames
  <2>1. CASE Published(fs) = {}
    BY <2>1 DEF Dispatch, TypeOK
  <2>2. CASE Published(fs) # {}
    <3>1. Published(fs) \subseteq 0..Len(fs) /\ Len(fs) \in Nat
      BY DEF Published
    <3>2. Max(Published(fs)) \in Published(fs)
      BY <3>1, <2>2, MaxIsGreatest
    <3>3. fs[Max(Published(fs))] \in Frame
      BY <3>2, <1>2 DEF Published
    <3>4. \A f \in Frame : f.n \in 0..MaxFrames
      BY ConstantsAssumption DEF Frame
    <3>5. cache' = fs[Max(Published(fs))].n
      BY <2>2 DEF Dispatch
    <3>6. QED
      BY <3>3, <3>4, <3>5
  <2>3. QED
    BY <2>1, <2>2
<1>4. edits' \subseteq [by : Tickets, frame : Frame]
  <2>1. CASE capture = 0
    BY <2>1 DEF Dispatch, TypeOK
  <2>2. CASE capture # 0
    <3>1. capture \in Tickets
      BY <2>2 DEF Tickets
    <3>2. \A i \in DOMAIN fs : [by |-> capture, frame |-> fs[i]] \in [by : Tickets, frame : Frame]
      BY <3>1, <1>2
    <3>3. edits' = edits \cup {[by |-> capture, frame |-> fs[i]] :
                                 i \in {j \in DOMAIN fs : fs[j].kind = "applyEdit"}}
      BY <2>2 DEF Dispatch
    <3>4. edits \subseteq [by : Tickets, frame : Frame]
      BY DEF TypeOK
    <3>5. QED
      BY <3>2, <3>3, <3>4
  <2>3. QED
    BY <2>1, <2>2
<1>5. QED
  BY <1>1, <1>3, <1>4

\* A call that ends with a reply to it.
LEMMA EndsOrderly ==
  ASSUME ProcInv, NEW phase \in {"ok", "error"}, NEW got \in 0..MaxCalls,
         phase = "ok" => got = serving.ticket,
         Reply(serving.ticket, phase, got), Rest,
         \/ inflight' = [inflight EXCEPT ![serving.from] = 0]
         \/ serving.job = "publish" /\ inflight' = inflight,
         client' \in ClientType, cache' \in 0..MaxFrames, clean' \in BOOLEAN,
         edits' \subseteq [by : Tickets, frame : Frame]
  PROVE  Orderly
<1>1. TypeOK /\ AnswersAreOwn
  BY DEF ProcInv
<1>2. /\ calls' \in [Clients -> CallType]
      /\ Settles
      /\ \A c \in Clients : calls'[c].phase = "waiting" => calls[c].ticket # serving.ticket
  BY <1>1, ReplySettles
<1>3. serving' = Idle /\ work' = Fresh /\ reading' = <<>>
  BY DEF Rest
<1>4. ServesOn
  BY <1>2, <1>3 DEF ServesOn
<1>5. RowsKept
  BY <1>3 DEF RowsKept
<1>6. inflight' \in [Clients -> 0..MaxCalls]
  <2>1. inflight \in [Clients -> 0..MaxCalls] /\ 0 \in 0..MaxCalls
    BY <1>1, ConstantsAssumption DEF TypeOK
  <2>2. [inflight EXCEPT ![serving.from] = 0] \in [Clients -> 0..MaxCalls]
    BY <2>1
  <2>3. QED
    BY <2>1, <2>2
<1>7. reading' \in Seq(Piece)
  BY <1>3, EmptySeq
<1>8. work' \in ClientType /\ serving' \in ServingType
  BY <1>3, FreshTypes
<1>9. LoopTypes'
  BY <1>2, <1>6, <1>7, <1>8 DEF LoopTypes
<1>10. QED
  BY <1>2, <1>4, <1>5, <1>9 DEF Orderly

LEMMA FailOrderly ==
  ASSUME ProcInv, Fail
  PROVE  Orderly
<1>1. Reply(serving.ticket, "error", 0) /\ Rest
  BY DEF Fail
<1>2. inflight' = [inflight EXCEPT ![serving.from] = 0]
  BY DEF Fail, Untrack
<1>3. /\ client' \in ClientType /\ cache' \in 0..MaxFrames /\ clean' \in BOOLEAN
      /\ edits' \subseteq [by : Tickets, frame : Frame]
  BY DEF Fail, ProcInv, TypeOK
<1>4. 0 \in 0..MaxCalls
  BY ConstantsAssumption
<1>5. QED
  BY <1>1, <1>2, <1>3, <1>4, EndsOrderly

\* A call that goes on.
LEMMA GoesOnOrderly ==
  ASSUME ProcInv, serving.job # "none",
         serving' \in ServingType, serving'.job = serving.job,
         serving'.from = serving.from, serving'.ticket = serving.ticket,
         UNCHANGED <<calls, client, inflight>>,
         work' \in ClientType, reading' \in Seq(Piece), cache' \in 0..MaxFrames,
         clean' \in BOOLEAN, edits' \subseteq [by : Tickets, frame : Frame]
  PROVE  Orderly
<1>1. calls' = calls /\ client' = client /\ inflight' = inflight
  OBVIOUS
<1>2. LoopTypes /\ AnswersAreOwn
  BY TypesSplit DEF ProcInv
<1>3. Settles
  BY <1>1, <1>2 DEF Settles, AnswersAreOwn
<1>4. serving' # Idle
  BY IdleFields
<1>5. ServesOn
  BY <1>4 DEF ServesOn
<1>6. RowsKept
  BY <1>1 DEF RowsKept
<1>7. LoopTypes'
  BY <1>1, <1>2 DEF LoopTypes
<1>8. QED
  BY <1>3, <1>5, <1>6, <1>7 DEF Orderly

LEMMA PassStepOrderly ==
  ASSUME ProcInv, serving.job = "publish", serving.left # 0, PassStep
  PROVE  Orderly
<1>1. serving \in ServingType
  BY DEF ProcInv, TypeOK, ServingType
<1>2. serving' = [serving EXCEPT !.left = @ - 1, !.silence = 0]
  BY DEF PassStep
<1>3. serving.left - 1 \in Nat
  BY <1>1 DEF ServingType
<1>4. serving' \in ServingType /\ serving'.job = serving.job
      /\ serving'.from = serving.from /\ serving'.ticket = serving.ticket
  BY <1>1, <1>2, <1>3 DEF ServingType
<1>5. /\ UNCHANGED <<calls, client, inflight>> /\ clean' \in BOOLEAN
      /\ work' \in ClientType /\ cache' \in 0..MaxFrames
      /\ edits' \subseteq [by : Tickets, frame : Frame]
  BY DEF PassStep, ProcInv, TypeOK
<1>6. reading' \in Seq(Piece)
  BY EmptySeq DEF PassStep
<1>7. QED
  BY <1>4, <1>5, <1>6, GoesOnOrderly

LEMMA ServeOrderly ==
  ASSUME ProcInv, Looping, NEW f \in Frame, NEW w \in ClientType, Serve(f, w)
  PROVE  Orderly /\ handled' \in Seq(Frame)
<1>1. TypeOK /\ AnswersAreOwn
  BY DEF ProcInv
<1>2. serving \in ServingType
  BY <1>1 DEF TypeOK, ServingType
<1>3. w.capture \in 0..MaxCalls
  BY DEF ClientType
<1>4. <<f>> \in Seq(Frame) /\ Append(handled, f) \in Seq(Frame)
  BY <1>1 DEF TypeOK
<1>5. serving.ticket \in 0..MaxCalls
  BY <1>2 DEF ServingType
<1>6. CASE Expected(f) /\ f.kind = "response" /\ serving.job = "request" /\ ServeRequest(f, w)
  <2>1. Reply(serving.ticket, "ok", f.ticket) /\ f.ticket = serving.ticket
    BY <1>6 DEF ServeRequest, Expected
  <2>2. Rest /\ inflight' = [inflight EXCEPT ![serving.from] = 0]
    BY <1>6 DEF ServeRequest, Untrack
  <2>3. client' = w /\ UNCHANGED <<cache, edits, clean>> /\ handled' = Append(handled, f)
    BY <1>6 DEF ServeRequest
  <2>4. /\ client' \in ClientType /\ cache' \in 0..MaxFrames /\ clean' \in BOOLEAN
        /\ edits' \subseteq [by : Tickets, frame : Frame]
    BY <2>3, <1>1 DEF TypeOK
  <2>5. QED
    BY <2>1, <2>2, <2>3, <2>4, <1>4, <1>5, EndsOrderly
<1>7. CASE Expected(f) /\ f.kind = "error" /\ serving.job = "request" /\ ServeRequest(f, w)
  <2>1. Fail /\ handled' = Append(handled, f)
    BY <1>7 DEF ServeRequest
  <2>2. QED
    BY <2>1, <1>4, FailOrderly
<1>8. CASE ~Expected(f) /\ serving.job = "request" /\ ServeRequest(f, w)
  <2>1. /\ Dispatch(<<f>>, w.capture) /\ work' = w /\ reading' = <<>>
        /\ serving' = [serving EXCEPT !.silence = 0]
        /\ UNCHANGED <<calls, client, inflight, clean>>
    BY <1>8 DEF ServeRequest
  <2>2. /\ handled' \in Seq(Frame) /\ cache' \in 0..MaxFrames
        /\ edits' \subseteq [by : Tickets, frame : Frame]
    BY <2>1, <1>1, <1>3, <1>4, DispatchTypes
  <2>3. serving' \in ServingType /\ serving'.job = serving.job
        /\ serving'.from = serving.from /\ serving'.ticket = serving.ticket
    BY <2>1, <1>2 DEF ServingType
  <2>4. reading' \in Seq(Piece) /\ clean' \in BOOLEAN /\ work' \in ClientType
    BY <2>1, <1>1, EmptySeq DEF TypeOK
  <2>5. QED
    BY <2>1, <2>2, <2>3, <2>4, <1>8, GoesOnOrderly
<1>9. CASE serving.job = "publish" /\ ServePublish(f, w)
  <2>1. /\ Dispatch(<<f>>, w.capture) /\ work' = w /\ reading' = <<>>
        /\ serving' = [serving EXCEPT !.left = @ - 1, !.silence = 0, !.found = @ \/ cache' # 0]
        /\ UNCHANGED <<calls, client, inflight, clean>>
    BY <1>9 DEF ServePublish
  <2>2. /\ handled' \in Seq(Frame) /\ cache' \in 0..MaxFrames
        /\ edits' \subseteq [by : Tickets, frame : Frame]
    BY <2>1, <1>1, <1>3, <1>4, DispatchTypes
  <2>3. serving.left - 1 \in Nat
    BY <1>2, <1>9 DEF Looping, PublishDone, ServingType
  <2>4. (serving.found \/ cache' # 0) \in BOOLEAN
    OBVIOUS
  <2>5. serving' \in ServingType /\ serving'.job = serving.job
        /\ serving'.from = serving.from /\ serving'.ticket = serving.ticket
    BY <2>1, <2>3, <2>4, <1>2 DEF ServingType
  <2>6. reading' \in Seq(Piece) /\ clean' \in BOOLEAN /\ work' \in ClientType
    BY <2>1, <1>1, EmptySeq DEF TypeOK
  <2>7. QED
    BY <2>1, <2>2, <2>5, <2>6, <1>9, GoesOnOrderly
<1>10. \/ Expected(f) /\ f.kind = "response"
       \/ Expected(f) /\ f.kind = "error"
       \/ ~Expected(f)
  BY DEF Expected
<1>11. QED
  BY <1>6, <1>7, <1>8, <1>9, <1>10 DEF Serve

-----------------------------------------------------------------------------
(* The mailbox.                                                             *)

LEMMA MailKept ==
  ASSUME ProcInv, mailbox' = mailbox
  PROVE  SameLine
BY DEF SameLine, ProcInv, TicketsInv

LEMMA MailAppended ==
  ASSUME ProcInv, NEW m \in Message, m.tag # "call", mailbox' = Append(mailbox, m)
  PROVE  SameLine /\ mailbox' \in Seq(Message)
<1>1. mailbox \in Seq(Message) /\ Once(mailbox)
  BY DEF ProcInv, TypeOK, TicketsInv
<1>2. Once(mailbox')
  BY <1>1, OnceAppend
<1>3. \A t : Holds(mailbox', t) <=> Holds(mailbox, t)
  BY <1>1, HoldsAppend
<1>4. mailbox' \in Seq(Message)
  BY <1>1, AppendProperties
<1>5. QED
  BY <1>2, <1>3, <1>4 DEF SameLine

LEMMA MailTaken ==
  ASSUME ProcInv, NEW k \in 1..Len(mailbox), mailbox[k].tag # "call",
         mailbox' = RemoveAt(mailbox, k)
  PROVE  SameLine /\ mailbox' \in Seq(Message)
<1>1. mailbox \in Seq(Message) /\ Once(mailbox)
  BY DEF ProcInv, TypeOK, TicketsInv
<1>2. Once(mailbox')
  BY <1>1, OnceRemove
<1>3. \A t : Holds(mailbox', t) <=> Holds(mailbox, t)
  BY <1>1, HoldsRemove
<1>4. mailbox' \in Seq(Message)
  BY <1>1, Removed
<1>5. QED
  BY <1>2, <1>3, <1>4 DEF SameLine

\* Post to a proc that may be gone.
LEMMA MailPosted ==
  ASSUME ProcInv, NEW m \in Message, m.tag # "call", Post(m)
  PROVE  SameLine /\ mailbox' \in Seq(Message)
<1>1. CASE alive
  <2>1. mailbox' = Append(mailbox, m)
    BY <1>1 DEF Post
  <2>2. QED
    BY <2>1, MailAppended
<1>2. CASE ~alive
  <2>1. mailbox' = mailbox
    BY <1>2 DEF Post
  <2>2. QED
    BY <2>1, MailKept DEF ProcInv, TypeOK
<1>3. QED
  BY <1>1, <1>2

\* What the actor takes next, between handlers ...
LEMMA HeadTaken ==
  ASSUME ProcInv, NEW tag, Takes(tag)
  PROVE  /\ alive /\ serving = Idle
         /\ 1 \in 1..Len(mailbox)
         /\ mailbox[1] \in Message /\ mailbox[1].tag = tag
         /\ mailbox' = RemoveAt(mailbox, 1)
<1>1. mailbox \in Seq(Message)
  BY DEF ProcInv, TypeOK
<1>2. 1 \in 1..Len(mailbox)
  BY <1>1 DEF Takes
<1>3. mailbox[1] \in Message
  BY <1>1, <1>2, ElementOfSeq
<1>4. QED
  BY <1>2, <1>3 DEF Takes, Turn

\* ... and inside one.
LEMMA PortTaken ==
  ASSUME ProcInv, NEW tag, Receives(tag)
  PROVE  /\ Looping /\ work.queue = <<>>
         /\ FirstPort \in 1..Len(mailbox)
         /\ mailbox[FirstPort] \in Message /\ mailbox[FirstPort].tag = tag
         /\ tag \in {"data", "exit"}
         /\ \A i \in 1..Len(mailbox) : i < FirstPort => mailbox[i].tag \notin {"data", "exit"}
         /\ mailbox' = RemoveAt(mailbox, FirstPort)
<1>1. mailbox \in Seq(Message)
  BY DEF ProcInv, TypeOK
<1>2. DOMAIN mailbox = 1..Len(mailbox) /\ Len(mailbox) \in Nat
  BY <1>1
<1>3. PortMail \subseteq Nat /\ PortMail # {}
  BY <1>2 DEF PortMail, Receives
<1>4. FirstPort \in PortMail /\ \A k \in PortMail : FirstPort <= k
  BY <1>3, MinIsLeast DEF FirstPort
<1>5. FirstPort \in 1..Len(mailbox) /\ mailbox[FirstPort].tag \in {"data", "exit"}
  BY <1>2, <1>4 DEF PortMail
<1>6. mailbox[FirstPort] \in Message
  BY <1>1, <1>5, ElementOfSeq
<1>7. ASSUME NEW i \in 1..Len(mailbox), i < FirstPort PROVE mailbox[i].tag \notin {"data", "exit"}
  <2>1. i \notin PortMail
    BY <1>4, <1>5, <1>7
  <2>2. QED
    BY <1>2, <2>1 DEF PortMail
<1>8. /\ Looping /\ work.queue = <<>> /\ mailbox[FirstPort].tag = tag
      /\ mailbox' = RemoveAt(mailbox, FirstPort)
  BY DEF Receives
<1>9. QED
  BY <1>5, <1>6, <1>7, <1>8

-----------------------------------------------------------------------------
(* Every step keeps ProcInv.                                                *)

\* The steps that give no ticket and start no call.
LEMMA OrderlySteps ==
  ASSUME ProcInv, Orderly \/ (LoopTypes' /\ Settles /\ ServesOn /\ ~alive'),
         WorldTypes', handled' \in Seq(Frame), SameLine,
         issued' = issued, alive' => alive
  PROVE  ProcInv'
<1>1. LoopTypes' /\ Settles /\ ServesOn /\ (RowsKept \/ ~alive')
  BY DEF Orderly
<1>2. TypeOK'
  BY <1>1 DEF TypeOK, LoopTypes, WorldTypes, CallType, ServingType
<1>3. TicketsInv' /\ LineInv'
  BY <1>1, <1>2, PlacesKept DEF ProcInv
<1>4. InflightIsCurrent'
  BY <1>1, RowsFollow DEF RowsKept, ProcInv
<1>5. AnswersAreOwn'
  BY <1>1 DEF Settles, AnswersAreOwn
<1>6. QED
  BY <1>2, <1>3, <1>4, <1>5 DEF ProcInv

\* The steps that leave callers and the call being served alone.
LEMMA AloneOrderly ==
  ASSUME ProcInv, LoopTypes', UNCHANGED <<calls, serving, inflight>>
  PROVE  Orderly
BY DEF Orderly, ProcInv, AnswersAreOwn, Settles, ServesOn, RowsKept

LEMMA UntouchedOrderly ==
  ASSUME ProcInv, UNCHANGED <<calls, procVars>>
  PROVE  Orderly /\ handled' \in Seq(Frame)
<1>1. UNCHANGED <<calls, client, serving, work, reading, inflight, cache, edits, handled, clean>>
  BY DEF procVars
<1>2. LoopTypes'
  BY <1>1 DEF ProcInv, TypeOK, LoopTypes, CallType, ServingType
<1>3. handled' \in Seq(Frame)
  BY <1>1 DEF ProcInv, TypeOK
<1>4. QED
  BY <1>1, <1>2, <1>3, AloneOrderly

LEMMA World == ASSUME ProcInv PROVE LoopTypes /\ WorldTypes /\ handled \in Seq(Frame)
BY TypesSplit DEF ProcInv

LEMMA GiveUpStep ==
  ASSUME ProcInv, NEW c \in Clients, GiveUp(c)
  PROVE  ProcInv'
<1> USE World
<1>1. /\ calls[c].phase = "waiting"
      /\ calls' = [calls EXCEPT ![c].phase = "panic"]
      /\ UNCHANGED <<issued, mailbox>> /\ UNCHANGED <<procVars, serverVars>>
  BY DEF GiveUp
<1>2. UNCHANGED <<alive, client, serving, work, reading, inflight, cache, edits, handled, clean, port, wire, owed, told, emitted>>
  BY <1>1 DEF procVars, serverVars
<1>3. calls \in [Clients -> CallType]
  BY DEF LoopTypes
<1>4. \A d \in Clients : calls'[d] = IF d = c THEN [calls[c] EXCEPT !.phase = "panic"] ELSE calls[d]
  BY <1>1, <1>3
<1>5. [calls[c] EXCEPT !.phase = "panic"] \in CallType
  BY <1>3 DEF CallType, Resting
<1>6. calls' \in [Clients -> CallType]
  BY <1>1, <1>3, <1>5
<1>7. Settles
  <2>1. [calls[c] EXCEPT !.phase = "panic"].ticket = calls[c].ticket
        /\ [calls[c] EXCEPT !.phase = "panic"].phase = "panic"
    BY <1>3 DEF CallType
  <2>2. QED
    BY <1>1, <1>4, <2>1 DEF Settles, ProcInv, AnswersAreOwn
<1>8. LoopTypes'
  BY <1>2, <1>6 DEF LoopTypes
<1>9. Orderly
  BY <1>2, <1>7, <1>8 DEF Orderly, ServesOn, RowsKept
<1>10. WorldTypes' /\ handled' \in Seq(Frame)
  BY <1>1, <1>2 DEF WorldTypes
<1>11. SameLine
  BY <1>1, MailKept
<1>12. QED
  BY <1>1, <1>2, <1>9, <1>10, <1>11, OrderlySteps

LEMMA CancelStep ==
  ASSUME ProcInv, NEW c \in Clients, Cancel(c)
  PROVE  ProcInv'
<1> USE World
<1> DEFINE m == [tag |-> "cancel", ticket |-> inflight[c]]
<1>1. m \in Message /\ m.tag # "call"
  <2>1. inflight[c] \in Tickets
    BY DEF Cancel, LoopTypes, Tickets
  <2>2. QED
    BY <2>1, MessageTypes
<1>2. Post(m) /\ UNCHANGED <<callVars, procVars, serverVars>>
  BY DEF Cancel
<1> HIDE DEF m
<1>3. SameLine /\ mailbox' \in Seq(Message)
  BY <1>1, <1>2, MailPosted
<1>4. UNCHANGED <<calls, issued, alive, port, wire, owed, told, emitted, procVars>>
  BY <1>2 DEF callVars, procVars, serverVars
<1>5. Orderly /\ handled' \in Seq(Frame)
  BY <1>4, UntouchedOrderly
<1>6. WorldTypes'
  BY <1>3, <1>4 DEF WorldTypes
<1>7. QED
  BY <1>3, <1>4, <1>5, <1>6, OrderlySteps

LEMMA TakeHandlerStep ==
  ASSUME ProcInv, TakeHandler
  PROVE  ProcInv'
<1> USE World
<1>1. /\ Takes("handler")
      /\ client' = [client EXCEPT !.capture = mailbox[1].ticket]
      /\ UNCHANGED <<callVars, alive, serving, work, reading, inflight, cache, edits, handled, clean, serverVars>>
  BY DEF TakeHandler, Turn
<1>2. /\ 1 \in 1..Len(mailbox) /\ mailbox[1] \in Message /\ mailbox[1].tag = "handler"
      /\ mailbox' = RemoveAt(mailbox, 1)
  BY <1>1, HeadTaken
<1>3. SameLine /\ mailbox' \in Seq(Message)
  BY <1>2, MailTaken
<1>4. mailbox[1].ticket \in 0..MaxCalls
  BY <1>2, Messages DEF Tickets
<1>5. client' \in ClientType
  BY <1>1, <1>4 DEF LoopTypes, ClientType
<1>6. UNCHANGED <<calls, issued, alive, serving, work, reading, inflight, cache, edits, handled, clean, port, wire, owed, told, emitted>>
  BY <1>1 DEF callVars, serverVars
<1>7. LoopTypes'
  BY <1>5, <1>6 DEF LoopTypes
<1>8. Orderly
  BY <1>6, <1>7, AloneOrderly
<1>9. WorldTypes' /\ handled' \in Seq(Frame)
  BY <1>3, <1>6 DEF WorldTypes
<1>10. QED
  BY <1>3, <1>6, <1>8, <1>9, OrderlySteps

LEMMA TakeCancelStep ==
  ASSUME ProcInv, TakeCancel
  PROVE  ProcInv'
<1> USE World
<1>1. /\ Takes("cancel")
      /\ told' \in {told \cup {mailbox[1].ticket}, told}
      /\ UNCHANGED <<callVars, procVars, port, wire, owed, emitted>>
  BY DEF TakeCancel, Turn
<1>2. /\ 1 \in 1..Len(mailbox) /\ mailbox[1] \in Message /\ mailbox[1].tag = "cancel"
      /\ mailbox' = RemoveAt(mailbox, 1)
  BY <1>1, HeadTaken
<1>3. SameLine /\ mailbox' \in Seq(Message)
  BY <1>2, MailTaken
<1>4. mailbox[1].ticket \in Tickets
  BY <1>2, Messages
<1>5. UNCHANGED <<calls, issued, alive, port, wire, owed, emitted, procVars>>
  BY <1>1 DEF callVars, procVars
<1>6. told' \subseteq Tickets
  BY <1>1, <1>4 DEF WorldTypes
<1>7. Orderly /\ handled' \in Seq(Frame)
  BY <1>5, UntouchedOrderly
<1>8. WorldTypes'
  BY <1>3, <1>5, <1>6 DEF WorldTypes
<1>9. QED
  BY <1>3, <1>5, <1>7, <1>8, OrderlySteps

LEMMA TakeExitStep ==
  ASSUME ProcInv, TakeExit
  PROVE  ProcInv'
<1> USE World
<1>1. Takes("exit") /\ UNCHANGED <<callVars, procVars, serverVars>>
  BY DEF TakeExit
<1>2. /\ 1 \in 1..Len(mailbox) /\ mailbox[1] \in Message /\ mailbox[1].tag = "exit"
      /\ mailbox' = RemoveAt(mailbox, 1)
  BY <1>1, HeadTaken
<1>3. SameLine /\ mailbox' \in Seq(Message)
  BY <1>2, MailTaken
<1>4. UNCHANGED <<calls, issued, alive, port, wire, owed, told, emitted, procVars>>
  BY <1>1 DEF callVars, procVars, serverVars
<1>5. Orderly /\ handled' \in Seq(Frame)
  BY <1>4, UntouchedOrderly
<1>6. WorldTypes'
  BY <1>3, <1>4 DEF WorldTypes
<1>7. QED
  BY <1>3, <1>4, <1>5, <1>6, OrderlySteps

LEMMA TakeDataStep ==
  ASSUME ProcInv, TakeData
  PROVE  ProcInv'
<1> USE World
<1> DEFINE s == client.buffer \o mailbox[1].pieces
           fs == client.queue \o Complete(s)
<1>1. /\ Takes("data")
      /\ client' = [client EXCEPT !.buffer = Leftover(s), !.queue = <<>>]
      /\ Dispatch(fs, client.capture)
      /\ UNCHANGED <<callVars, alive, serving, work, reading, inflight, clean, serverVars>>
  BY DEF TakeData, Turn
<1>2. /\ 1 \in 1..Len(mailbox) /\ mailbox[1] \in Message /\ mailbox[1].tag = "data"
      /\ mailbox' = RemoveAt(mailbox, 1)
  BY <1>1, HeadTaken
<1>3. SameLine /\ mailbox' \in Seq(Message)
  BY <1>2, MailTaken
<1>4. mailbox[1].pieces \in Seq(Piece)
  BY <1>2, Messages
<1>5. client.buffer \in Seq(Piece) /\ client.queue \in Seq(Frame) /\ client.capture \in 0..MaxCalls
  BY DEF LoopTypes, ClientType
<1>6. s \in Seq(Piece)
  BY <1>4, <1>5, ConcatProperties
<1>7. Complete(s) \in Seq(Frame) /\ Leftover(s) \in Seq(Piece)
  BY <1>6, CompleteType, LeftoverType
<1>8. fs \in Seq(Frame)
  BY <1>5, <1>7, ConcatProperties
<1> HIDE DEF s, fs
<1>9. client' \in ClientType
  BY <1>1, <1>7, EmptySeq DEF LoopTypes, ClientType
<1>10. /\ handled' \in Seq(Frame) /\ cache' \in 0..MaxFrames
       /\ edits' \subseteq [by : Tickets, frame : Frame]
  BY <1>1, <1>5, <1>8, DispatchTypes DEF ProcInv
<1>11. UNCHANGED <<calls, issued, alive, serving, work, reading, inflight, clean, port, wire, owed, told, emitted>>
  BY <1>1 DEF callVars, serverVars
<1>12. LoopTypes'
  BY <1>9, <1>10, <1>11 DEF LoopTypes
<1>13. Orderly
  BY <1>11, <1>12, AloneOrderly
<1>14. WorldTypes'
  BY <1>3, <1>11 DEF WorldTypes
<1>15. QED
  BY <1>3, <1>10, <1>11, <1>13, <1>14, OrderlySteps

LEMMA EndPublishStep ==
  ASSUME ProcInv, EndPublish
  PROVE  ProcInv'
<1> USE World
<1>1. /\ Reply(serving.ticket, "ok", serving.ticket) /\ client' = work /\ Rest
      /\ serving.job = "publish"
      /\ UNCHANGED <<issued, mailbox, alive, inflight, cache, edits, handled, clean, serverVars>>
  BY DEF EndPublish, PublishDone
<1>2. /\ client' \in ClientType /\ cache' \in 0..MaxFrames /\ clean' \in BOOLEAN
      /\ edits' \subseteq [by : Tickets, frame : Frame] /\ inflight' = inflight
  BY <1>1 DEF LoopTypes
<1>3. serving.ticket \in 0..MaxCalls
  BY DEF LoopTypes, ServingType
<1>4. Orderly
  BY <1>1, <1>2, <1>3, EndsOrderly
<1>5. WorldTypes' /\ handled' \in Seq(Frame)
  BY <1>1 DEF WorldTypes, serverVars
<1>6. SameLine
  BY <1>1, MailKept
<1>7. QED
  BY <1>1, <1>4, <1>5, <1>6, OrderlySteps

LEMMA ServeQueuedStep ==
  ASSUME ProcInv, ServeQueued
  PROVE  ProcInv'
<1> USE World
<1> DEFINE w == [work EXCEPT !.queue = Tail(@)]
<1>1. /\ Looping /\ work.queue # <<>> /\ Serve(Head(work.queue), w)
      /\ UNCHANGED <<issued, mailbox, alive, serverVars>>
  BY DEF ServeQueued
<1>2. work.queue \in Seq(Frame)
  BY DEF LoopTypes, ClientType
<1>3. Head(work.queue) \in Frame /\ Tail(work.queue) \in Seq(Frame)
  BY <1>1, <1>2, HeadTailProperties
<1>4. w \in ClientType
  BY <1>3 DEF LoopTypes, ClientType
<1> HIDE DEF w
<1>5. Orderly /\ handled' \in Seq(Frame)
  BY <1>1, <1>3, <1>4, ServeOrderly
<1>6. WorldTypes'
  BY <1>1 DEF WorldTypes, serverVars
<1>7. SameLine
  BY <1>1, MailKept
<1>8. QED
  BY <1>1, <1>5, <1>6, <1>7, OrderlySteps

\* What a read in the receive loop works on.
LEMMA ChunkTypes ==
  ASSUME ProcInv, Receives("data")
  PROVE  /\ mailbox[FirstPort].pieces \in Seq(Piece)
         /\ reading \o mailbox[FirstPort].pieces \in Seq(Piece)
         /\ work.buffer \o reading \o mailbox[FirstPort].pieces \in Seq(Piece)
<1> USE World
<1>1. mailbox[FirstPort] \in Message /\ mailbox[FirstPort].tag = "data"
  BY PortTaken
<1>2. mailbox[FirstPort].pieces \in Seq(Piece)
  BY <1>1, Messages
<1>3. reading \in Seq(Piece) /\ work.buffer \in Seq(Piece)
  BY DEF LoopTypes, ClientType
<1>4. QED
  BY <1>2, <1>3, ConcatProperties

LEMMA ServeDataStep ==
  ASSUME ProcInv, ServeData
  PROVE  ProcInv'
<1> USE World
<1> DEFINE chunk == mailbox[FirstPort].pieces
           s == work.buffer \o reading \o chunk
           w == [work EXCEPT !.buffer = Leftover(s), !.queue = Tail(Complete(s))]
<1>1. /\ Receives("data")
      /\ \/ /\ Complete(s) # <<>>
            /\ Serve(Head(Complete(s)), w)
         \/ /\ reading' = reading \o chunk
            /\ serving' = [serving EXCEPT !.silence = 0]
            /\ UNCHANGED <<calls, client, work, inflight, cache, edits, handled, clean>>
         \/ /\ Fail
            /\ UNCHANGED handled
      /\ UNCHANGED <<issued, alive, serverVars>>
  BY DEF ServeData
<1>2. /\ Looping /\ FirstPort \in 1..Len(mailbox) /\ mailbox[FirstPort].tag # "call"
      /\ mailbox' = RemoveAt(mailbox, FirstPort)
  BY <1>1, PortTaken
<1>3. SameLine /\ mailbox' \in Seq(Message)
  BY <1>2, MailTaken
<1>4. s \in Seq(Piece) /\ reading \o chunk \in Seq(Piece)
  BY <1>1, ChunkTypes
<1>5. Complete(s) \in Seq(Frame) /\ Leftover(s) \in Seq(Piece)
  BY <1>4, CompleteType, LeftoverType
<1>6. serving.job # "none"
  BY <1>2 DEF Looping, ProcInv, TicketsInv
<1> HIDE DEF s, chunk
<1>7. ASSUME Complete(s) # <<>>, Serve(Head(Complete(s)), w)
      PROVE  Orderly /\ handled' \in Seq(Frame)
  <2>1. Head(Complete(s)) \in Frame /\ Tail(Complete(s)) \in Seq(Frame)
    BY <1>5, <1>7, HeadTailProperties
  <2>2. w \in ClientType
    BY <1>5, <2>1 DEF LoopTypes, ClientType
  <2> HIDE DEF w
  <2>3. QED
    BY <1>2, <1>7, <2>1, <2>2, ServeOrderly
<1>8. ASSUME reading' = reading \o chunk,
             serving' = [serving EXCEPT !.silence = 0],
             UNCHANGED <<calls, client, work, inflight, cache, edits, handled, clean>>
      PROVE  Orderly /\ handled' \in Seq(Frame)
  <2>1. serving' \in ServingType /\ serving'.job = serving.job
        /\ serving'.from = serving.from /\ serving'.ticket = serving.ticket
    BY <1>8 DEF LoopTypes, ServingType
  <2>2. /\ work' \in ClientType /\ reading' \in Seq(Piece) /\ cache' \in 0..MaxFrames
        /\ clean' \in BOOLEAN /\ edits' \subseteq [by : Tickets, frame : Frame]
        /\ handled' \in Seq(Frame) /\ UNCHANGED <<calls, client, inflight>>
    BY <1>4, <1>8 DEF LoopTypes
  <2>3. QED
    BY <1>6, <2>1, <2>2, GoesOnOrderly
<1>9. ASSUME Fail, UNCHANGED handled
      PROVE  Orderly /\ handled' \in Seq(Frame)
  BY <1>9, FailOrderly
<1>10. Orderly /\ handled' \in Seq(Frame)
  BY <1>1, <1>7, <1>8, <1>9
<1>11. WorldTypes'
  BY <1>1, <1>3 DEF WorldTypes, serverVars
<1>12. QED
  BY <1>1, <1>3, <1>10, <1>11, OrderlySteps

LEMMA UnreceivedOrderly ==
  ASSUME ProcInv, Looping, Unreceived
  PROVE  Orderly
<1>1. serving.job = "publish" => serving.left # 0
  BY DEF Looping, PublishDone
<1>2. QED
  BY <1>1, FailOrderly, PassStepOrderly DEF Unreceived

LEMMA ServeExitStep ==
  ASSUME ProcInv, ServeExit
  PROVE  ProcInv'
<1> USE World
<1>1. Receives("exit") /\ Unreceived /\ UNCHANGED <<issued, alive, handled, serverVars>>
  BY DEF ServeExit
<1>2. /\ Looping /\ FirstPort \in 1..Len(mailbox) /\ mailbox[FirstPort].tag # "call"
      /\ mailbox' = RemoveAt(mailbox, FirstPort)
  BY <1>1, PortTaken
<1>3. SameLine /\ mailbox' \in Seq(Message)
  BY <1>2, MailTaken
<1>4. Orderly
  BY <1>1, <1>2, UnreceivedOrderly
<1>5. WorldTypes' /\ handled' \in Seq(Frame)
  BY <1>1, <1>3 DEF WorldTypes, serverVars
<1>6. QED
  BY <1>1, <1>3, <1>4, <1>5, OrderlySteps

LEMMA ServeTimeoutStep ==
  ASSUME ProcInv, ServeTimeout
  PROVE  ProcInv'
<1> USE World
<1>1. Looping /\ Unreceived /\ UNCHANGED <<issued, mailbox, alive, handled, serverVars>>
  BY DEF ServeTimeout, TimedOut
<1>2. Orderly
  BY <1>1, UnreceivedOrderly
<1>3. SameLine
  BY <1>1, MailKept
<1>4. WorldTypes' /\ handled' \in Seq(Frame)
  BY <1>1 DEF WorldTypes, serverVars
<1>5. QED
  BY <1>1, <1>2, <1>3, <1>4, OrderlySteps

LEMMA TerminateStep ==
  ASSUME ProcInv, Terminate
  PROVE  ProcInv'
<1> USE World
<1>1. /\ alive' = FALSE /\ mailbox' = <<>> /\ wire' = <<>> /\ port' = "closed"
      /\ client' = Fresh /\ serving' = Idle /\ work' = Fresh /\ reading' = <<>>
      /\ UNCHANGED <<calls, issued, inflight, cache, edits, handled, clean, owed, told, emitted>>
  BY DEF Terminate, Rest, callVars
<1>2. <<>> \in Seq(Piece) /\ <<>> \in Seq(Message)
  BY EmptySeq
<1>3. LoopTypes'
  BY <1>1, <1>2, FreshTypes DEF LoopTypes
<1>4. WorldTypes' /\ handled' \in Seq(Frame)
  BY <1>1, <1>2 DEF WorldTypes
<1>5. Settles
  BY <1>1 DEF Settles, ProcInv, AnswersAreOwn
<1>6. ServesOn
  BY <1>1 DEF ServesOn
<1>7. SameLine
  <2>1. DOMAIN mailbox' = {}
    BY <1>1
  <2>2. Once(mailbox') /\ \A t : ~Holds(mailbox', t)
    BY <2>1 DEF Once, Holds
  <2>3. QED
    BY <1>1, <2>2 DEF SameLine
<1>8. QED
  BY <1>1, <1>3, <1>4, <1>5, <1>6, <1>7, OrderlySteps

\* What the server writes.
LEMMA SendTypes ==
  ASSUME ProcInv, NEW f \in Frame, Send(f)
  PROVE  emitted' \in Seq(Frame) /\ wire' \in Seq(Piece)
<1> USE World
<1>1. \A part \in {"whole", "head", "tail"} : [part |-> part, frame |-> f] \in Piece
  BY DEF Piece
<1>2. <<[part |-> "head", frame |-> f], [part |-> "tail", frame |-> f]>> \in Seq(Piece)
  BY <1>1
<1>3. wire \in Seq(Piece) /\ emitted \in Seq(Frame)
  BY DEF WorldTypes
<1>4. Append(wire, [part |-> "whole", frame |-> f]) \in Seq(Piece)
  BY <1>1, <1>3, AppendProperties
<1>5. wire \o <<[part |-> "head", frame |-> f], [part |-> "tail", frame |-> f]>> \in Seq(Piece)
  BY <1>2, <1>3, ConcatProperties
<1>6. Append(emitted, f) \in Seq(Frame)
  BY <1>3, AppendProperties
<1>7. QED
  BY <1>4, <1>5, <1>6 DEF Send

LEMMA FrameTypes ==
  ASSUME ProcInv, Len(emitted) < MaxFrames, NEW t \in 0..MaxCalls,
         NEW kind \in {"response", "error", "publish", "configuration", "applyEdit"}
  PROVE  [kind |-> kind, ticket |-> t, n |-> Len(emitted) + 1] \in Frame
<1>1. Len(emitted) \in Nat
  BY World DEF WorldTypes
<1>2. Len(emitted) + 1 \in 1..MaxFrames
  BY <1>1, ConstantsAssumption
<1>3. QED
  BY <1>2 DEF Frame, ServerRequests

\* Steps of the server and its pipe.
LEMMA WorldSteps ==
  ASSUME ProcInv, WorldTypes', SameLine, UNCHANGED <<callVars, procVars>>
  PROVE  ProcInv'
<1>1. UNCHANGED <<calls, procVars>> /\ issued' = issued /\ alive' = alive
  BY DEF callVars, procVars
<1>2. Orderly /\ handled' \in Seq(Frame)
  BY <1>1, UntouchedOrderly
<1>3. QED
  BY <1>1, <1>2, OrderlySteps

LEMMA ServerSteps ==
  ASSUME ProcInv, ServerStep
  PROVE  ProcInv'
<1> USE World
<1>1. SUFFICES WorldTypes' /\ mailbox' = mailbox /\ UNCHANGED <<callVars, procVars>>
  BY MailKept, WorldSteps
<1>2. ASSUME NEW r \in owed, Answer(r) PROVE WorldTypes' /\ mailbox' = mailbox /\ UNCHANGED <<callVars, procVars>>
  <2>1. r.ticket \in 0..MaxCalls
    BY DEF WorldTypes, Tickets
  <2>2. PICK kind \in {"response", "error"} :
          Send([kind |-> kind, ticket |-> r.ticket, n |-> Len(emitted) + 1])
    BY <1>2 DEF Answer
  <2>3. [kind |-> kind, ticket |-> r.ticket, n |-> Len(emitted) + 1] \in Frame
    BY <1>2, <2>1, FrameTypes DEF Answer
  <2>4. emitted' \in Seq(Frame) /\ wire' \in Seq(Piece)
    BY <2>2, <2>3, SendTypes
  <2>5. owed' = owed \ {r} /\ UNCHANGED <<callVars, mailbox, procVars, port, told>>
    BY <1>2 DEF Answer
  <2>6. UNCHANGED <<issued, alive>>
    BY <2>5 DEF callVars, procVars
  <2>7. QED
    BY <2>4, <2>5, <2>6 DEF WorldTypes
<1>3. ASSUME NEW r \in owed, AskToApply(r) PROVE WorldTypes' /\ mailbox' = mailbox /\ UNCHANGED <<callVars, procVars>>
  <2>1. r.ticket \in 0..MaxCalls
    BY DEF WorldTypes, Tickets
  <2>2. /\ Send([kind |-> "applyEdit", ticket |-> r.ticket, n |-> Len(emitted) + 1])
        /\ UNCHANGED <<callVars, mailbox, procVars, port, owed, told>>
    BY <1>3 DEF AskToApply
  <2>3. [kind |-> "applyEdit", ticket |-> r.ticket, n |-> Len(emitted) + 1] \in Frame
    BY <1>3, <2>1, FrameTypes DEF AskToApply
  <2>4. emitted' \in Seq(Frame) /\ wire' \in Seq(Piece)
    BY <2>2, <2>3, SendTypes
  <2>5. UNCHANGED <<issued, alive>>
    BY <2>2 DEF callVars, procVars
  <2>6. QED
    BY <2>2, <2>4, <2>5 DEF WorldTypes
<1>4. ASSUME NEW kind \in Chatter, Chat(kind) PROVE WorldTypes' /\ mailbox' = mailbox /\ UNCHANGED <<callVars, procVars>>
  <2>1. kind \in {"response", "error", "publish", "configuration", "applyEdit"} /\ 0 \in 0..MaxCalls
    BY ConstantsAssumption
  <2>2. /\ Send([kind |-> kind, ticket |-> 0, n |-> Len(emitted) + 1])
        /\ UNCHANGED <<callVars, mailbox, procVars, port, owed, told>>
    BY <1>4 DEF Chat
  <2>3. [kind |-> kind, ticket |-> 0, n |-> Len(emitted) + 1] \in Frame
    BY <1>4, <2>1, FrameTypes DEF Chat
  <2>4. emitted' \in Seq(Frame) /\ wire' \in Seq(Piece)
    BY <2>2, <2>3, SendTypes
  <2>5. UNCHANGED <<issued, alive>>
    BY <2>2 DEF callVars, procVars
  <2>6. QED
    BY <2>2, <2>4, <2>5 DEF WorldTypes
<1>5. ASSUME ServerExits PROVE WorldTypes' /\ mailbox' = mailbox /\ UNCHANGED <<callVars, procVars>>
  <2>1. /\ port' = "dying" /\ owed' = {}
        /\ UNCHANGED <<callVars, mailbox, procVars, wire, told, emitted>>
    BY <1>5 DEF ServerExits
  <2>2. UNCHANGED <<issued, alive>>
    BY <2>1 DEF callVars, procVars
  <2>3. QED
    BY <2>1, <2>2 DEF WorldTypes
<1>6. QED
  BY <1>2, <1>3, <1>4, <1>5 DEF ServerStep

LEMMA PipeSteps ==
  ASSUME ProcInv, PipeStep
  PROVE  ProcInv'
<1> USE World
<1>1. ASSUME NEW n \in 1..Len(wire), Deliver(n) PROVE ProcInv'
  <2>1. wire \in Seq(Piece)
    BY DEF WorldTypes
  <2>2. SubSeq(wire, 1, n) \in Seq(Piece) /\ SubSeq(wire, n + 1, Len(wire)) \in Seq(Piece)
    BY <2>1, <1>1
  <2> DEFINE m == [tag |-> "data", pieces |-> SubSeq(wire, 1, n)]
  <2>3. m \in Message /\ m.tag # "call"
    BY <2>2, MessageTypes
  <2>4. /\ mailbox' = Append(mailbox, m) /\ wire' = SubSeq(wire, n + 1, Len(wire))
        /\ UNCHANGED <<callVars, procVars, port, owed, told, emitted>>
    BY <1>1 DEF Deliver
  <2> HIDE DEF m
  <2>5. SameLine /\ mailbox' \in Seq(Message)
    BY <2>3, <2>4, MailAppended
  <2>6. UNCHANGED <<issued, alive>>
    BY <2>4 DEF callVars, procVars
  <2>7. WorldTypes'
    BY <2>2, <2>4, <2>5, <2>6 DEF WorldTypes
  <2>8. QED
    BY <2>4, <2>5, <2>7, WorldSteps
<1>2. ASSUME PortCloses PROVE ProcInv'
  <2> DEFINE m == [tag |-> "exit"]
  <2>1. m \in Message /\ m.tag # "call"
    BY MessageTypes
  <2>2. /\ mailbox' = Append(mailbox, m) /\ port' = "closed"
        /\ UNCHANGED <<callVars, procVars, wire, owed, told, emitted>>
    BY <1>2 DEF PortCloses
  <2> HIDE DEF m
  <2>3. SameLine /\ mailbox' \in Seq(Message)
    BY <2>1, <2>2, MailAppended
  <2>4. UNCHANGED <<issued, alive>>
    BY <2>2 DEF callVars, procVars
  <2>5. WorldTypes'
    BY <2>2, <2>3, <2>4 DEF WorldTypes
  <2>6. QED
    BY <2>2, <2>3, <2>5, WorldSteps
<1>3. QED
  BY <1>1, <1>2 DEF PipeStep

LEMMA TickStep ==
  ASSUME ProcInv, Tick
  PROVE  ProcInv'
<1> USE World
<1>1. /\ calls' = [c \in Clients |->
            IF Waiting(c) THEN [calls[c] EXCEPT !.waited = @ + 1] ELSE calls[c]]
      /\ \A c \in Clients : Waiting(c) => calls[c].waited < Budget + Slack
      /\ UNCHANGED <<issued, mailbox, alive, client, work, reading, inflight, cache, edits,
                     handled, clean, serverVars>>
  BY DEF Tick
<1>2. calls \in [Clients -> CallType] /\ serving \in ServingType
  BY DEF LoopTypes
<1>3. ASSUME NEW c \in Clients
      PROVE  /\ calls'[c] \in CallType
             /\ calls'[c].ticket = calls[c].ticket /\ calls'[c].phase = calls[c].phase
             /\ calls'[c].got = calls[c].got
  <2>1. calls'[c] = IF Waiting(c) THEN [calls[c] EXCEPT !.waited = @ + 1] ELSE calls[c]
    BY <1>1
  <2>2. calls[c] \in CallType
    BY <1>2
  <2>3. Waiting(c) => calls[c].waited + 1 \in 0..(Budget + Slack)
    <3>1. calls[c].waited \in 0..(Budget + Slack)
      BY <2>2 DEF CallType
    <3>2. QED
      BY <1>1, <3>1, ConstantsAssumption
  <2>4. QED
    BY <2>1, <2>2, <2>3 DEF CallType
<1>4. calls' \in [Clients -> CallType]
  <2>1. calls' = [c \in Clients |-> calls'[c]]
    BY <1>1
  <2>2. QED
    BY <2>1, <1>3
<1>5. Settles
  BY <1>3 DEF Settles, ProcInv, AnswersAreOwn
<1>6. /\ serving' \in ServingType
      /\ serving'.job = serving.job /\ serving'.from = serving.from
      /\ serving'.ticket = serving.ticket
      /\ serving = Idle => serving' = serving
  <2>1. CASE serving = Idle
    BY <1>2, <2>1 DEF Tick
  <2>2. CASE serving # Idle
    <3>1. serving' = [serving EXCEPT !.silence = IF @ < Budget THEN @ + 1 ELSE @]
      BY <2>2 DEF Tick
    <3> DEFINE x == IF serving.silence < Budget THEN serving.silence + 1 ELSE serving.silence
    <3>2. serving' = [serving EXCEPT !.silence = x]
      BY <3>1
    <3>3. x \in Nat
      BY <1>2 DEF ServingType
    <3> HIDE DEF x
    <3>4. QED
      BY <2>2, <3>2, <3>3, <1>2 DEF ServingType
  <2>3. QED
    BY <2>1, <2>2
<1>7. ServesOn
  <2>1. serving # Idle => serving.job # "none"
    BY DEF ProcInv, TicketsInv
  <2>2. serving # Idle => serving' # Idle
    BY <2>1, <1>6, IdleFields
  <2>3. QED
    BY <2>1, <2>2, <1>6 DEF ServesOn
<1>8. UNCHANGED <<issued, mailbox, alive, client, work, reading, inflight, cache, edits, handled, clean, port, wire, owed, told, emitted>>
  BY <1>1 DEF serverVars
<1>9. Orderly
  BY <1>4, <1>5, <1>6, <1>7, <1>8 DEF Orderly, LoopTypes, RowsKept
<1>10. WorldTypes' /\ handled' \in Seq(Frame)
  BY <1>8 DEF WorldTypes
<1>11. QED
  BY <1>8, <1>9, <1>10, MailKept, OrderlySteps

\* Numbers used below.
LEMMA TicketFacts ==
  ASSUME ProcInv
  PROVE  /\ \A c \in Clients : calls[c] \in CallType /\ calls[c].ticket \in 0..MaxCalls
         /\ serving \in ServingType /\ serving.ticket \in 0..MaxCalls
         /\ issued \in 0..MaxCalls /\ issued \in Nat
         /\ \A c \in Clients : calls[c].ticket <= issued
         /\ serving.ticket <= issued
         /\ \A t \in Tickets : Holds(mailbox, t) => t <= issued
         /\ mailbox \in Seq(Message) /\ Once(mailbox)
<1> USE World
<1>1. calls \in [Clients -> CallType] /\ serving \in ServingType
  BY DEF LoopTypes
<1>2. \A c \in Clients : calls[c] \in CallType /\ calls[c].ticket \in 0..MaxCalls
  BY <1>1 DEF CallType
<1>3. serving.ticket \in 0..MaxCalls
  BY <1>1 DEF ServingType
<1>4. issued \in 0..MaxCalls /\ issued \in Nat /\ mailbox \in Seq(Message)
  BY ConstantsAssumption DEF WorldTypes
<1>5. QED
  BY <1>1, <1>2, <1>3, <1>4 DEF ProcInv, TicketsInv

\* A new call, or the handler that precedes one, with its message.
NewCall(c, phase, method) ==
  /\ issued' = issued + 1
  /\ calls' = [calls EXCEPT ![c] =
       [phase |-> phase, method |-> method, ticket |-> issued', waited |-> 0, got |-> 0]]
  /\ UNCHANGED <<procVars, serverVars>>

LEMMA NewCallStep ==
  ASSUME ProcInv, NEW c \in Clients, NEW phase \in {"installed", "waiting"},
         NEW method \in {"request", "rename", "publish"}, NewCall(c, phase, method),
         issued < MaxCalls,
         mailbox' \in Seq(Message), Once(mailbox'),
         \A t \in Tickets : Holds(mailbox', t) =>
           Holds(mailbox, t) \/ (phase = "waiting" /\ t = issued + 1),
         \A t \in Tickets : Holds(mailbox, t) => Holds(mailbox', t),
         alive /\ phase = "waiting" => Holds(mailbox', issued + 1)
  PROVE  ProcInv'
<1> USE World, TicketFacts
<1> DEFINE new == [phase |-> phase, method |-> method, ticket |-> issued + 1, waited |-> 0, got |-> 0]
<1>1. /\ issued' = issued + 1
      /\ calls' = [calls EXCEPT ![c] = new]
      /\ UNCHANGED <<alive, client, serving, work, reading, inflight, cache, edits, handled, clean, port, wire, owed, told, emitted>>
  BY DEF NewCall, procVars, serverVars
<1>2. issued + 1 \in Tickets /\ issued + 1 \in 0..MaxCalls /\ issued' \in 0..MaxCalls
  BY <1>1, ConstantsAssumption DEF Tickets
<1>3. new \in CallType
  BY <1>2, ConstantsAssumption DEF CallType
<1>4. calls \in [Clients -> CallType]
  BY DEF LoopTypes
<1>5. /\ calls'[c].ticket = issued + 1 /\ calls'[c].phase = phase
      /\ \A d \in Clients : d # c => calls'[d] = calls[d]
  BY <1>1, <1>4
<1>6. calls' \in [Clients -> CallType]
  BY <1>1, <1>3, <1>4
<1> HIDE DEF new
<1>7. LoopTypes'
  BY <1>1, <1>6 DEF LoopTypes
<1>8. WorldTypes' /\ handled' \in Seq(Frame)
  BY <1>1, <1>2 DEF WorldTypes
<1>9. TypeOK'
  BY <1>7, <1>8 DEF TypeOK, LoopTypes, WorldTypes, CallType, ServingType
<1>10. serving' = serving /\ alive' = alive /\ inflight' = inflight
  BY <1>1
<1>11. \A d \in Clients : calls'[d].ticket <= issued'
  BY <1>1, <1>5
<1>12. \A d \in Clients : calls'[d].phase \in {"installed", "waiting"} => calls'[d].ticket # 0
  BY SMTT(30), <1>5 DEF ProcInv, TicketsInv
<1>13. \A d, e \in Clients : d # e /\ calls'[d].ticket = calls'[e].ticket => calls'[d].ticket = 0
  <2>1. \A d \in Clients : d # c => calls'[d].ticket # issued + 1
    BY <1>5
  <2>2. QED
    BY SMTT(30), <2>1, <1>5 DEF ProcInv, TicketsInv
<1>14. \A t \in Tickets : Holds(mailbox', t) => t <= issued'
  BY <1>1, <1>2 DEF Tickets
<1>15. serving'.ticket <= issued'
  BY <1>1, <1>10
<1>16. serving'.job # "none" => ~Holds(mailbox', serving'.ticket)
  <2>1. serving.job # "none" => serving.ticket \in Tickets /\ serving.ticket # issued + 1
    BY DEF ProcInv, TicketsInv, Tickets
  <2>2. QED
    BY <2>1, <1>10 DEF ProcInv, TicketsInv
<1>17. ASSUME NEW d \in Clients, calls'[d].phase = "installed"
       PROVE  ~Holds(mailbox', calls'[d].ticket) /\ serving'.ticket # calls'[d].ticket
  <2>1. CASE d = c
    <3>1. ~Holds(mailbox, issued + 1)
      BY <1>2
    <3>2. phase = "installed"
      BY <2>1, <1>17, <1>5
    <3>3. QED
      BY <2>1, <3>1, <3>2, <1>2, <1>5, <1>10
  <2>2. CASE d # c
    <3>1. calls'[d] = calls[d] /\ calls[d].phase = "installed"
      BY <2>2, <1>17, <1>5
    <3>2. calls[d].ticket \in Tickets /\ calls[d].ticket # issued + 1
      BY <3>1 DEF ProcInv, TicketsInv, Tickets
    <3>3. QED
      BY <3>1, <3>2, <1>10 DEF ProcInv, TicketsInv
  <2>3. QED
    BY <2>1, <2>2
<1>18. TicketsInv'
  BY <1>10, <1>11, <1>12, <1>13, <1>14, <1>15, <1>16, <1>17 DEF TicketsInv, ProcInv
<1>19. ASSUME alive', NEW d \in Clients, calls'[d].phase = "waiting"
       PROVE  serving'.ticket = calls'[d].ticket \/ Holds(mailbox', calls'[d].ticket)
  <2>1. CASE d = c
    BY <2>1, <1>5, <1>10, <1>19
  <2>2. CASE d # c
    <3>1. calls'[d] = calls[d] /\ calls[d].phase = "waiting"
      BY <2>2, <1>19, <1>5
    <3>2. calls[d].ticket \in Tickets
      BY <3>1 DEF ProcInv, TicketsInv, Tickets
    <3>3. QED
      BY <3>1, <3>2, <1>10, <1>19 DEF ProcInv, LineInv, Waiting
  <2>3. QED
    BY <2>1, <2>2
<1>20. LineInv'
  BY <1>19 DEF LineInv, Waiting
<1>21. InflightIsCurrent'
  BY <1>10 DEF InflightIsCurrent, ProcInv
<1>22. AnswersAreOwn'
  BY <1>5 DEF AnswersAreOwn, ProcInv
<1>23. QED
  BY <1>9, <1>18, <1>20, <1>21, <1>22 DEF ProcInv

LEMMA CallStep ==
  ASSUME ProcInv, NEW c \in Clients, NEW m \in Methods, Call(c, m)
  PROVE  ProcInv'
<1> USE World, TicketFacts
<1>1. m \in {"request", "rename", "publish"} /\ issued < MaxCalls /\ NewCall(c, "waiting", m)
  BY ConstantsAssumption DEF Call, NewCall
<1>2. issued + 1 \in Tickets
  BY <1>1, ConstantsAssumption DEF Tickets
<1> DEFINE msg == CallMessage(c, m, issued + 1)
<1>3. msg \in Message /\ msg.tag = "call" /\ msg.ticket = issued + 1
  BY <1>1, <1>2, MessageTypes DEF CallMessage
<1>4. Post(msg)
  BY DEF Call
<1> HIDE DEF msg
<1>5. CASE alive
  <2>1. mailbox' = Append(mailbox, msg)
    BY <1>4, <1>5 DEF Post
  <2>2. ~Holds(mailbox, issued + 1)
    BY <1>2
  <2>3. mailbox' \in Seq(Message) /\ Once(mailbox')
    BY <2>1, <2>2, <1>3, OnceAppend, AppendProperties
  <2>4. \A t : Holds(mailbox', t) <=> Holds(mailbox, t) \/ t = issued + 1
    BY <2>1, <1>3, HoldsAppend
  <2>5. QED
    BY <1>1, <2>3, <2>4, NewCallStep
<1>6. CASE ~alive
  <2>1. mailbox' = mailbox
    BY <1>4, <1>6 DEF Post
  <2>2. QED
    BY <1>1, <1>6, <2>1, NewCallStep
<1>7. QED
  BY <1>5, <1>6

LEMMA InstallStep ==
  ASSUME ProcInv, NEW c \in Clients, Install(c)
  PROVE  ProcInv'
<1> USE World, TicketFacts
<1>1. issued < MaxCalls /\ NewCall(c, "installed", "rename")
  BY DEF Install, NewCall
<1>2. issued + 1 \in Tickets
  BY <1>1, ConstantsAssumption DEF Tickets
<1> DEFINE msg == [tag |-> "handler", ticket |-> issued + 1]
<1>3. msg \in Message /\ msg.tag # "call"
  BY <1>2, MessageTypes
<1>4. Post(msg)
  BY DEF Install
<1> HIDE DEF msg
<1>5. CASE alive
  <2>1. mailbox' = Append(mailbox, msg)
    BY <1>4, <1>5 DEF Post
  <2>2. mailbox' \in Seq(Message) /\ Once(mailbox')
    BY <2>1, <1>3, OnceAppend, AppendProperties
  <2>3. \A t : Holds(mailbox', t) <=> Holds(mailbox, t)
    BY <2>1, <1>3, HoldsAppend
  <2>4. QED
    BY <1>1, <2>2, <2>3, NewCallStep
<1>6. CASE ~alive
  <2>1. mailbox' = mailbox
    BY <1>4, <1>6 DEF Post
  <2>2. QED
    BY <1>1, <2>1, NewCallStep
<1>7. QED
  BY <1>5, <1>6

LEMMA CallRenameStep ==
  ASSUME ProcInv, NEW c \in Clients, CallRename(c)
  PROVE  ProcInv'
<1> USE World, TicketFacts
<1>1. /\ calls[c].phase = "installed"
      /\ calls' = [calls EXCEPT ![c].phase = "waiting"]
      /\ UNCHANGED <<issued, alive, client, serving, work, reading, inflight, cache, edits, handled, clean, port, wire, owed, told, emitted>>
  BY DEF CallRename, procVars, serverVars
<1> DEFINE t == calls[c].ticket
           msg == CallMessage(c, "rename", t)
<1>2. t \in Tickets /\ ~Holds(mailbox, t) /\ serving.ticket # t
  BY <1>1 DEF ProcInv, TicketsInv, Tickets
<1>3. msg \in Message /\ msg.tag = "call" /\ msg.ticket = t
  BY <1>2, MessageTypes DEF CallMessage
<1>4. mailbox' = IF alive THEN Append(mailbox, msg) ELSE mailbox
  BY DEF CallRename, Post
<1>5. calls \in [Clients -> CallType]
  BY DEF LoopTypes
<1>6. \A d \in Clients : d # c => calls'[d] = calls[d]
  BY <1>1, <1>5
<1>7. calls'[c] = [calls[c] EXCEPT !.phase = "waiting"]
  BY <1>1, <1>5
<1>8. calls'[c] \in CallType /\ calls'[c].ticket = calls[c].ticket /\ calls'[c].phase = "waiting"
  BY <1>5, <1>7 DEF CallType
<1>9. calls' \in [Clients -> CallType]
  <2>1. calls' = [d \in Clients |-> calls'[d]]
    BY <1>1, <1>5
  <2>2. QED
    BY <2>1, <1>5, <1>6, <1>8
<1> HIDE DEF t, msg
<1>10. /\ mailbox' \in Seq(Message) /\ Once(mailbox')
       /\ \A u : Holds(mailbox', u) => Holds(mailbox, u) \/ u = t
       /\ \A u : Holds(mailbox, u) => Holds(mailbox', u)
       /\ alive => Holds(mailbox', t)
  <2>1. CASE alive
    <3>1. mailbox' = Append(mailbox, msg)
      BY <1>4, <2>1
    <3>2. mailbox' \in Seq(Message) /\ Once(mailbox')
      BY <3>1, <1>2, <1>3, OnceAppend, AppendProperties
    <3>3. \A u : Holds(mailbox', u) <=> Holds(mailbox, u) \/ u = t
      BY <3>1, <1>3, HoldsAppend
    <3>4. QED
      BY <3>2, <3>3
  <2>2. CASE ~alive
    BY <1>4, <2>2
  <2>3. QED
    BY <2>1, <2>2
<1>11. t = calls[c].ticket
  BY DEF t
<1>12. LoopTypes'
  BY <1>1, <1>9 DEF LoopTypes
<1>13. WorldTypes' /\ handled' \in Seq(Frame)
  BY <1>1, <1>10 DEF WorldTypes
<1>14. TypeOK'
  BY <1>12, <1>13 DEF TypeOK, LoopTypes, WorldTypes, CallType, ServingType
<1>15. \A d \in Clients : calls'[d].ticket = calls[d].ticket
  BY <1>6, <1>8
<1>16. \A d \in Clients : calls'[d].phase \in {"installed", "waiting"} => calls'[d].ticket # 0
  BY <1>1, <1>6, <1>15 DEF ProcInv, TicketsInv
<1>17. \A u \in Tickets : Holds(mailbox', u) => u <= issued'
  BY <1>1, <1>10, <1>11
<1>18. serving'.job # "none" => ~Holds(mailbox', serving'.ticket)
  BY <1>1, <1>2, <1>10 DEF ProcInv, TicketsInv
<1>19. ASSUME NEW d \in Clients, calls'[d].phase = "installed"
       PROVE  ~Holds(mailbox', calls'[d].ticket) /\ serving'.ticket # calls'[d].ticket
  <2>1. d # c /\ calls[d].phase = "installed"
    BY <1>19, <1>6, <1>8
  <2>2. calls[d].ticket # calls[c].ticket
    BY <2>1, <1>2, <1>11 DEF ProcInv, TicketsInv, Tickets
  <2>3. QED
    BY <2>1, <2>2, <1>1, <1>10, <1>11, <1>15 DEF ProcInv, TicketsInv
<1>20. TicketsInv'
  <2>1. /\ \A d \in Clients : calls'[d].ticket <= issued'
        /\ \A d, e \in Clients : d # e /\ calls'[d].ticket = calls'[e].ticket => calls'[d].ticket = 0
    BY <1>1, <1>15 DEF ProcInv, TicketsInv
  <2>2. /\ serving'.ticket <= issued'
        /\ serving'.job = "none" => serving' = Idle
        /\ serving'.job # "none" => serving'.ticket # 0
    BY <1>1 DEF ProcInv, TicketsInv
  <2>3. QED
    BY <2>1, <2>2, <1>10, <1>16, <1>17, <1>18, <1>19 DEF TicketsInv
<1>21. ASSUME alive', NEW d \in Clients, calls'[d].phase = "waiting"
       PROVE  serving'.ticket = calls'[d].ticket \/ Holds(mailbox', calls'[d].ticket)
  <2>1. CASE d = c
    BY <2>1, <1>1, <1>10, <1>11, <1>15, <1>21
  <2>2. CASE d # c
    BY <2>2, <1>1, <1>6, <1>10, <1>21 DEF ProcInv, LineInv, Waiting
  <2>3. QED
    BY <2>1, <2>2
<1>22. LineInv'
  BY <1>21 DEF LineInv, Waiting
<1>23. InflightIsCurrent'
  BY <1>1 DEF InflightIsCurrent, ProcInv
<1>24. AnswersAreOwn'
  BY <1>6, <1>8 DEF AnswersAreOwn, ProcInv
<1>25. QED
  BY <1>14, <1>20, <1>22, <1>23, <1>24 DEF ProcInv

\* The call at the head of the mailbox leaves the line.
LEMMA CallTaken ==
  ASSUME ProcInv, Takes("call")
  PROVE  /\ mailbox[1].from \in Clients /\ mailbox[1].ticket \in Tickets
         /\ mailbox[1].method \in {"request", "rename", "publish"}
         /\ alive /\ serving = Idle
         /\ mailbox' \in Seq(Message) /\ Once(mailbox')
         /\ Holds(mailbox, mailbox[1].ticket)
         /\ \A t : Holds(mailbox', t) <=> Holds(mailbox, t) /\ mailbox[1].ticket # t
<1> USE TicketFacts
<1>1. /\ alive /\ serving = Idle /\ 1 \in 1..Len(mailbox)
      /\ mailbox[1] \in Message /\ mailbox[1].tag = "call"
      /\ mailbox' = RemoveAt(mailbox, 1)
  BY HeadTaken
<1>2. /\ mailbox[1].from \in Clients /\ mailbox[1].ticket \in Tickets
      /\ mailbox[1].method \in {"request", "rename", "publish"}
  BY <1>1, Messages
<1>3. mailbox' \in Seq(Message) /\ Once(mailbox')
  BY <1>1, Removed, OnceRemove
<1>4. \A t : Holds(mailbox', t) <=> Holds(mailbox, t) /\ ~(mailbox[1].tag = "call" /\ mailbox[1].ticket = t)
  BY <1>1, HoldsRemove
<1>5. 1 \in DOMAIN mailbox
  BY <1>1
<1>6. Holds(mailbox, mailbox[1].ticket)
  BY <1>1, <1>5 DEF Holds
<1>7. QED
  BY <1>1, <1>2, <1>3, <1>4, <1>6

\* It is served from now on ...
LEMMA ServingStarts ==
  ASSUME ProcInv, Takes("call"), NEW job \in {"request", "publish"},
         serving' \in ServingType, serving'.job = job,
         serving'.from = mailbox[1].from, serving'.ticket = mailbox[1].ticket,
         work' = client,
         \/ job = "request" /\ inflight' = [inflight EXCEPT ![mailbox[1].from] = mailbox[1].ticket]
         \/ job = "publish" /\ inflight' = inflight,
         UNCHANGED <<callVars, alive, client, reading, cache, edits, handled, clean>>, WorldTypes'
  PROVE  ProcInv'
<1> USE World, TicketFacts
<1> DEFINE m == mailbox[1]
<1>1. /\ m.from \in Clients /\ m.ticket \in Tickets
      /\ alive /\ serving = Idle
      /\ mailbox' \in Seq(Message) /\ Once(mailbox')
      /\ Holds(mailbox, m.ticket)
      /\ \A t : Holds(mailbox', t) <=> Holds(mailbox, t) /\ m.ticket # t
  BY CallTaken
<1>2. UNCHANGED <<calls, issued, alive, client, reading, cache, edits, handled, clean>>
  BY DEF callVars
<1>3. /\ serving' \in ServingType /\ serving'.job = job /\ serving'.ticket = m.ticket
      /\ serving'.from = m.from
  OBVIOUS
<1>4. inflight' = [inflight EXCEPT ![m.from] = m.ticket] \/ inflight' = inflight
  OBVIOUS
<1>5. /\ job = "request" => inflight' = [inflight EXCEPT ![m.from] = m.ticket]
      /\ job = "publish" => inflight' = inflight
  OBVIOUS
<1> HIDE DEF m
<1>6. m.ticket \in 0..MaxCalls /\ m.ticket # 0
  BY <1>1 DEF Tickets
<1>7. /\ serving' \in ServingType /\ serving'.job = job /\ serving'.ticket = m.ticket
      /\ serving'.from = m.from
  BY <1>3
<1>8. inflight' \in [Clients -> 0..MaxCalls]
  BY <1>1, <1>4, <1>6 DEF LoopTypes
<1>9. LoopTypes'
  BY <1>2, <1>7, <1>8 DEF LoopTypes
<1>10. handled' \in Seq(Frame)
  BY <1>2
<1>11. TypeOK'
  BY <1>9, <1>10 DEF TypeOK, LoopTypes, WorldTypes, CallType, ServingType
<1>12. TicketsInv'
  <2>1. /\ \A c \in Clients : calls'[c].ticket <= issued'
        /\ \A c \in Clients : calls'[c].phase \in {"installed", "waiting"} => calls'[c].ticket # 0
        /\ \A c, d \in Clients : c # d /\ calls'[c].ticket = calls'[d].ticket => calls'[c].ticket = 0
    BY <1>2 DEF ProcInv, TicketsInv
  <2>2. \A t \in Tickets : Holds(mailbox', t) => t <= issued'
    BY <1>1, <1>2
  <2>3. /\ serving'.ticket <= issued'
        /\ serving'.job # "none"
        /\ serving'.ticket # 0 /\ ~Holds(mailbox', serving'.ticket)
    BY <1>1, <1>2, <1>6, <1>7
  <2>4. ASSUME NEW c \in Clients, calls'[c].phase = "installed"
        PROVE  ~Holds(mailbox', calls'[c].ticket) /\ serving'.ticket # calls'[c].ticket
    <3>1. ~Holds(mailbox, calls[c].ticket)
      BY <2>4, <1>2 DEF ProcInv, TicketsInv
    <3>2. QED
      BY <3>1, <1>1, <1>2, <1>7
  <2>5. QED
    BY <1>1, <2>1, <2>2, <2>3, <2>4 DEF TicketsInv
<1>13. LineInv'
  <2>1. ASSUME NEW c \in Clients, calls[c].phase = "waiting"
        PROVE  serving'.ticket = calls[c].ticket \/ Holds(mailbox', calls[c].ticket)
    <3>1. serving.ticket = 0 /\ calls[c].ticket # 0
      BY <1>1, <2>1, IdleFields DEF ProcInv, TicketsInv
    <3>2. Holds(mailbox, calls[c].ticket)
      BY <3>1, <1>1, <2>1 DEF ProcInv, LineInv, Waiting
    <3>3. QED
      BY <3>2, <1>1, <1>7
  <2>2. QED
    BY <2>1, <1>2 DEF LineInv, Waiting
<1>14. InflightIsCurrent'
  <2>1. \A c \in Clients : inflight[c] = 0
    BY <1>1, IdleFields DEF ProcInv, InflightIsCurrent
  <2>2. ASSUME NEW c \in Clients
        PROVE  inflight'[c] = IF serving'.job = "request" /\ serving'.from = c
                              THEN serving'.ticket ELSE 0
    <3>1. CASE job = "request"
      BY <3>1, <2>1, <1>5, <1>7 DEF LoopTypes
    <3>2. CASE job = "publish"
      BY <3>2, <2>1, <1>5, <1>7
    <3>3. QED
      BY <3>1, <3>2
  <2>3. QED
    BY <2>2 DEF InflightIsCurrent
<1>15. AnswersAreOwn'
  BY <1>2 DEF ProcInv, AnswersAreOwn
<1>16. QED
  BY <1>11, <1>12, <1>13, <1>14, <1>15 DEF ProcInv

\* ... or refused, the port being closed.
LEMMA CallRefused ==
  ASSUME ProcInv, Takes("call"), Reply(mailbox[1].ticket, "error", 0),
         UNCHANGED <<issued, inflight, serving, work, alive, client, reading, cache, edits, handled, clean>>,
         WorldTypes'
  PROVE  ProcInv'
<1> USE World, TicketFacts
<1> DEFINE t == mailbox[1].ticket
<1>1. /\ t \in Tickets
      /\ alive /\ serving = Idle
      /\ mailbox' \in Seq(Message) /\ Once(mailbox')
      /\ \A u : Holds(mailbox', u) <=> Holds(mailbox, u) /\ t # u
  BY CallTaken
<1>2. /\ calls' \in [Clients -> CallType]
      /\ Settles
      /\ \A c \in Clients : calls'[c].phase = "waiting" => calls[c].ticket # t
  <2>1. TypeOK /\ AnswersAreOwn /\ 0 \in 0..MaxCalls /\ Reply(t, "error", 0)
    BY ConstantsAssumption DEF ProcInv
  <2> HIDE DEF t
  <2>2. QED
    BY <2>1, ReplySettles
<1> HIDE DEF t
<1>3. UNCHANGED <<issued, inflight, serving, work, alive, client, reading, cache, edits, handled, clean>>
  OBVIOUS
<1>4. LoopTypes'
  BY <1>2, <1>3 DEF LoopTypes
<1>5. handled' \in Seq(Frame)
  BY <1>3
<1>6. TypeOK'
  BY <1>4, <1>5 DEF TypeOK, LoopTypes, WorldTypes, CallType, ServingType
<1>7. /\ \A c \in Clients : calls'[c].ticket = calls[c].ticket
      /\ \A c \in Clients : calls'[c].phase \in {"installed", "waiting"} => calls'[c].phase = calls[c].phase
  BY <1>2 DEF Settles
<1>8. serving.job = "none"
  BY <1>1, IdleFields
<1>9. TicketsInv'
  <2>1. /\ \A c \in Clients : calls'[c].ticket <= issued'
        /\ \A c \in Clients : calls'[c].phase \in {"installed", "waiting"} => calls'[c].ticket # 0
        /\ \A c, d \in Clients : c # d /\ calls'[c].ticket = calls'[d].ticket => calls'[c].ticket = 0
    BY <1>3, <1>7 DEF ProcInv, TicketsInv
  <2>2. /\ \A u \in Tickets : Holds(mailbox', u) => u <= issued'
        /\ serving'.ticket <= issued'
    BY <1>1, <1>3
  <2>3. serving'.job = "none" /\ serving' = Idle
    BY <1>1, <1>3, <1>8
  <2>4. \A c \in Clients : calls'[c].phase = "installed" =>
          ~Holds(mailbox', calls'[c].ticket) /\ serving'.ticket # calls'[c].ticket
    BY <1>1, <1>3, <1>7 DEF ProcInv, TicketsInv
  <2>5. QED
    BY <1>1, <2>1, <2>2, <2>3, <2>4 DEF TicketsInv
<1>10. LineInv'
  <2>1. \A c \in Clients : calls'[c].phase = "waiting" => Holds(mailbox', calls'[c].ticket) \/ serving'.ticket = calls'[c].ticket
    BY <1>1, <1>2, <1>3, <1>7 DEF ProcInv, LineInv, Waiting
  <2>2. QED
    BY <2>1 DEF LineInv, Waiting
<1>11. InflightIsCurrent'
  BY <1>3 DEF ProcInv, InflightIsCurrent
<1>12. AnswersAreOwn'
  BY <1>2 DEF Settles, AnswersAreOwn
<1>13. QED
  BY <1>6, <1>9, <1>10, <1>11, <1>12 DEF ProcInv

LEMMA TakeRequestStep ==
  ASSUME ProcInv, TakeRequest
  PROVE  ProcInv'
<1> USE World
<1> DEFINE m == mailbox[1]
<1>1. /\ Takes("call") /\ m.method # "publish"
      /\ UNCHANGED <<issued, alive, client, reading, cache, edits, handled, clean, port, wire, told, emitted>>
      /\ \/ /\ inflight' = [inflight EXCEPT ![m.from] = m.ticket]
            /\ serving' = [Idle EXCEPT !.job = "request", !.from = m.from, !.ticket = m.ticket]
            /\ work' = client
            /\ owed' \in {owed \cup {[ticket |-> m.ticket, method |-> m.method]}, owed}
            /\ UNCHANGED calls
         \/ /\ Reply(m.ticket, "error", 0)
            /\ UNCHANGED <<inflight, serving, work, owed>>
  BY DEF TakeRequest, Turn
<1>2. /\ m.ticket \in Tickets /\ m.method \in {"request", "rename", "publish"}
      /\ mailbox' \in Seq(Message)
  BY <1>1, CallTaken
<1>3. [ticket |-> m.ticket, method |-> m.method] \in [ticket : Tickets, method : {"request", "rename"}]
  BY <1>1, <1>2
<1>4. CASE /\ inflight' = [inflight EXCEPT ![m.from] = m.ticket]
           /\ serving' = [Idle EXCEPT !.job = "request", !.from = m.from, !.ticket = m.ticket]
           /\ work' = client
           /\ owed' \in {owed \cup {[ticket |-> m.ticket, method |-> m.method]}, owed}
           /\ UNCHANGED calls
  <2>1. WorldTypes'
    BY <1>1, <1>2, <1>3, <1>4 DEF WorldTypes
  <2>2. /\ serving' \in ServingType /\ serving'.job = "request" /\ serving'.ticket = m.ticket
        /\ serving'.from = m.from
    <3>1. Idle \in ServingType /\ m.from \in Clients /\ m.ticket \in 0..MaxCalls
      BY <1>1, <1>2, CallTaken, FreshTypes DEF Tickets
    <3> HIDE DEF m
    <3>2. QED
      BY <1>4, <3>1 DEF ServingType
  <2>3. UNCHANGED <<callVars, alive, client, reading, cache, edits, handled, clean>>
    BY <1>1, <1>4 DEF callVars
  <2>4. QED
    BY <1>1, <1>4, <2>1, <2>2, <2>3, ServingStarts
<1>5. CASE /\ Reply(m.ticket, "error", 0)
           /\ UNCHANGED <<inflight, serving, work, owed>>
  <2>1. WorldTypes'
    BY <1>1, <1>2, <1>5 DEF WorldTypes
  <2>2. QED
    BY <1>1, <1>5, <2>1, CallRefused
<1>6. QED
  BY <1>1, <1>4, <1>5

LEMMA TakePublishStep ==
  ASSUME ProcInv, TakePublish
  PROVE  ProcInv'
<1> USE World
<1>1. /\ Takes("call")
      /\ serving' = [Idle EXCEPT !.job = "publish", !.from = mailbox[1].from,
                                 !.ticket = mailbox[1].ticket, !.left = Budget]
      /\ work' = client
      /\ UNCHANGED <<callVars, alive, client, reading, inflight, cache, edits, handled, clean, serverVars>>
  BY DEF TakePublish, Turn
<1>2. /\ mailbox' \in Seq(Message) /\ mailbox[1].from \in Clients
      /\ mailbox[1].ticket \in 0..MaxCalls
  BY <1>1, CallTaken DEF Tickets
<1>3. WorldTypes'
  BY <1>1, <1>2 DEF WorldTypes, callVars, serverVars
<1>4. Budget \in Nat /\ Idle \in ServingType
  BY ConstantsAssumption, FreshTypes
<1>5. /\ serving' \in ServingType /\ serving'.job = "publish"
      /\ serving'.ticket = mailbox[1].ticket /\ serving'.from = mailbox[1].from
  BY <1>1, <1>2, <1>4 DEF ServingType
<1>6. QED
  BY <1>1, <1>3, <1>5, ServingStarts

LEMMA ProcInit == Init => ProcInv
<1> SUFFICES ASSUME Init PROVE ProcInv
  OBVIOUS
<1>1. 0 \in 0..MaxCalls /\ 0 \in 0..(Budget + Slack) /\ 0 \in 0..MaxFrames
  BY ConstantsAssumption
<1>2. /\ <<>> \in Seq(Piece) /\ <<>> \in Seq(Frame) /\ <<>> \in Seq(Message)
  BY EmptySeq
<1> DEFINE none == [phase |-> "idle", method |-> "request", ticket |-> 0, waited |-> 0, got |-> 0]
<1>3. none \in CallType
  BY <1>1 DEF CallType, Resting
<1>4. calls = [c \in Clients |-> none]
  BY DEF Init
<1> HIDE DEF none
<1>5. calls \in [Clients -> CallType]
  BY <1>3, <1>4
<1>6. LoopTypes
  BY <1>1, <1>2, <1>5, FreshTypes DEF LoopTypes, Init
<1>7. WorldTypes /\ handled \in Seq(Frame)
  BY <1>1, <1>2 DEF WorldTypes, Init
<1>8. TypeOK
  BY <1>6, <1>7, TypesSplit
<1>9. \A c \in Clients : calls[c].ticket = 0 /\ calls[c].phase = "idle"
  BY <1>4 DEF none
<1>10. mailbox = <<>> /\ serving = Idle /\ issued = 0
  BY DEF Init
<1>11. Once(mailbox) /\ \A t : ~Holds(mailbox, t)
  BY <1>10 DEF Once, Holds
<1>12. TicketsInv
  BY <1>9, <1>10, <1>11, IdleFields DEF TicketsInv
<1>13. LineInv
  BY <1>9 DEF LineInv, Waiting
<1>14. InflightIsCurrent
  BY <1>10, IdleFields DEF InflightIsCurrent, Init
<1>15. AnswersAreOwn
  BY <1>9 DEF AnswersAreOwn
<1>16. QED
  BY <1>8, <1>12, <1>13, <1>14, <1>15 DEF ProcInv

LEMMA ProcStep == ProcInv /\ [Next]_vars => ProcInv'
<1> SUFFICES ASSUME ProcInv, [Next]_vars PROVE ProcInv'
  OBVIOUS
<1>1. CASE \E c \in Clients :
             (\E m \in Methods : Call(c, m)) \/ Install(c) \/ CallRename(c) \/ GiveUp(c) \/ Cancel(c)
  BY <1>1, CallStep, InstallStep, CallRenameStep, GiveUpStep, CancelStep
<1>2. CASE TakeMessage
  BY <1>2, TakeRequestStep, TakePublishStep, TakeHandlerStep, TakeCancelStep, TakeDataStep,
     TakeExitStep DEF TakeMessage
<1>3. CASE Loop
  BY <1>3, EndPublishStep, ServeQueuedStep, ServeDataStep, ServeExitStep, ServeTimeoutStep DEF Loop
<1>4. CASE Terminate \/ ServerStep \/ PipeStep \/ Tick
  BY <1>4, TerminateStep, ServerSteps, PipeSteps, TickStep
<1>5. CASE UNCHANGED vars
  <2>1. UNCHANGED <<callVars, procVars, serverVars, mailbox>>
    BY <1>5 DEF vars
  <2>2. WorldTypes'
    BY <2>1, World DEF WorldTypes, callVars, procVars, serverVars
  <2>3. QED
    BY <2>1, <2>2, MailKept, WorldSteps
<1>6. QED
  BY <1>1, <1>2, <1>3, <1>4, <1>5 DEF Next

LEMMA ProcAlways == Spec => []ProcInv
BY ProcInit, ProcStep, PTL DEF Spec

\* Every variable of the proc keeps its type.
THEOREM ProcTypes == Spec => []TypeOK
<1>1. ProcInv => TypeOK
  BY DEF ProcInv
<1>2. QED
  BY <1>1, ProcAlways, PTL

\* The line has one place for each ticket.
LEMMA OnePlace ==
  ASSUME ProcInv
  PROVE  WaitersAreInLine
<1> USE TicketFacts
<1>1. SUFFICES ASSUME alive, NEW c \in Clients, Waiting(c)
               PROVE  \/ serving.ticket = calls[c].ticket /\ InLine(calls[c].ticket) = {}
                      \/ serving.ticket # calls[c].ticket
                         /\ \E i \in DOMAIN mailbox : InLine(calls[c].ticket) = {i}
  BY DEF WaitersAreInLine
<1> DEFINE t == calls[c].ticket
<1>2. t # 0
  BY <1>1 DEF ProcInv, TicketsInv, Waiting
<1>3. CASE serving.ticket = t
  <2>1. serving.job # "none"
    BY <1>2, <1>3, IdleFields DEF ProcInv, TicketsInv
  <2>2. ~Holds(mailbox, t)
    BY <1>3, <2>1 DEF ProcInv, TicketsInv
  <2>3. InLine(t) = {}
    BY <2>2 DEF InLine, Holds
  <2>4. QED
    BY <1>3, <2>3
<1>4. CASE serving.ticket # t
  <2>1. Holds(mailbox, t)
    BY <1>1, <1>4 DEF ProcInv, LineInv
  <2>2. PICK i \in DOMAIN mailbox : mailbox[i].tag = "call" /\ mailbox[i].ticket = t
    BY <2>1 DEF Holds
  <2>3. InLine(t) = {i}
    BY <2>2 DEF InLine, Once
  <2>4. QED
    BY <1>4, <2>3
<1>5. QED
  BY <1>3, <1>4

\* An answer goes to the call it answers, whoever waits has one place in line,
\* and the in-flight rows name what is being served: whatever has timed out,
\* failed or been abandoned meanwhile.
THEOREM CallsAreKept == Spec => []CallsKeepTheirPlace
<1>1. ProcInv => CallsKeepTheirPlace
  BY OnePlace DEF ProcInv, CallsKeepTheirPlace
<1>2. QED
  BY <1>1, ProcAlways, PTL

-----------------------------------------------------------------------------
(* The byte stream: until a call fails, every frame the server sent is        *)
(* dispatched once and in order, however reads split and coalesce them. What   *)
(* follows is about its inductive invariant.                                   *)

\* The stream is counted in halves of a frame: a piece covers the halves after
\* its start up to its stop.
Start(p) == IF p.part = "tail" THEN 2 * p.frame.n - 1 ELSE 2 * p.frame.n - 2
Stop(p) == IF p.part = "head" THEN 2 * p.frame.n - 1 ELSE 2 * p.frame.n

\* The pieces of s are those of the frames e from half a up to half b.
Spans(e, s, a, b) ==
  /\ \A i \in DOMAIN s :
       /\ s[i].frame.n \in DOMAIN e /\ s[i].frame = e[s[i].frame.n]
       /\ Start(s[i]) = IF i = 1 THEN a ELSE Stop(s[i - 1])
  /\ b = IF s = <<>> THEN a ELSE Stop(s[Len(s)])

\* The reads in the mailbox follow each other from mark to mark.
Fills(e, m, a, b) == IF m.tag = "data" THEN Spans(e, m.pieces, a, b) ELSE b = a
Chained(e, box, mark) == \A i \in DOMAIN box : Fills(e, box[i], mark[i - 1], mark[i])
Linked(e, box, a, z) ==
  \E mark \in [0..Len(box) -> Nat] :
    mark[0] = a /\ mark[Len(box)] = z /\ Chained(e, box, mark)

\* Nothing of the stream e is missing, doubled or out of place: after the h
\* frames handled come the queue q, the pieces r the parser holds, the reads in
\* the mailbox, and what is in the pipe.
Queued(e, h, q) == h + Len(q) <= Len(e) /\ \A k \in DOMAIN q : q[k] = e[h + k]
Stream(e, h, q, r, box, w) ==
  /\ Queued(e, h, q)
  /\ \E a, z \in Nat :
       /\ Spans(e, r, 2 * (h + Len(q)), a)
       /\ Linked(e, box, a, z)
       /\ Spans(e, w, z, 2 * Len(e))

Current == IF serving = Idle THEN client ELSE work

StreamInv ==
  clean /\ alive =>
    Stream(emitted, Len(handled), Current.queue, Current.buffer \o reading, mailbox, wire)

ReadingInv == serving = Idle \/ PublishDone \/ work.queue # <<>> => reading = <<>>

PrefixInv ==
  clean => /\ Len(handled) <= Len(emitted)
           /\ \A k \in DOMAIN handled : handled[k] = emitted[k]

FifoInv == ReadingInv /\ PrefixInv /\ StreamInv

-----------------------------------------------------------------------------
(* Spans.                                                                   *)

LEMMA PieceFacts ==
  ASSUME NEW p \in Piece
  PROVE  /\ p.part \in {"whole", "head", "tail"}
         /\ p.frame \in Frame /\ p.frame.n \in Nat /\ p.frame.n >= 1
         /\ Start(p) \in Nat /\ Stop(p) \in Nat
<1>1. p.part \in {"whole", "head", "tail"} /\ p.frame \in Frame
  BY DEF Piece
<1>2. p.frame.n \in 1..MaxFrames
  BY <1>1 DEF Frame
<1>3. MaxFrames \in Nat
  BY ConstantsAssumption
<1>4. p.frame.n \in Nat /\ p.frame.n >= 1
  BY <1>2, <1>3
<1>5. QED
  BY <1>1, <1>4 DEF Start, Stop

\* Nothing lies between a point and itself.
LEMMA SpansEmpty ==
  ASSUME NEW e, NEW a
  PROVE  Spans(e, <<>>, a, a)
BY EmptySeq DEF Spans

\* Two stretches that meet are one.
LEMMA SpansConcat ==
  ASSUME NEW e, NEW s \in Seq(Piece), NEW t \in Seq(Piece), NEW a, NEW b, NEW c,
         Spans(e, s, a, b), Spans(e, t, b, c)
  PROVE  Spans(e, s \o t, a, c)
<1> DEFINE r == s \o t
<1>1. /\ r \in Seq(Piece) /\ Len(r) = Len(s) + Len(t)
      /\ Len(s) \in Nat /\ Len(t) \in Nat
      /\ \A i \in 1..Len(s) : r[i] = s[i]
      /\ \A i \in 1..Len(t) : r[Len(s) + i] = t[i]
  BY ConcatProperties
<1>2. DOMAIN r = 1..Len(r) /\ DOMAIN s = 1..Len(s) /\ DOMAIN t = 1..Len(t)
  BY <1>1
<1>3. (s = <<>> <=> Len(s) = 0) /\ (t = <<>> <=> Len(t) = 0) /\ (r = <<>> <=> Len(r) = 0)
  BY <1>1
<1> HIDE DEF r
<1>4. ASSUME NEW i \in 1..Len(r)
      PROVE  /\ r[i].frame.n \in DOMAIN e /\ r[i].frame = e[r[i].frame.n]
             /\ Start(r[i]) = IF i = 1 THEN a ELSE Stop(r[i - 1])
  <2>1. CASE i <= Len(s)
    <3>1. i \in 1..Len(s) /\ (i # 1 => i - 1 \in 1..Len(s))
      BY <2>1
    <3>2. r[i] = s[i] /\ (i # 1 => r[i - 1] = s[i - 1])
      BY <1>1, <3>1
    <3>3. QED
      BY <1>2, <3>1, <3>2 DEF Spans
  <2>2. CASE i > Len(s)
    <3> DEFINE j == i - Len(s)
    <3>1. j \in 1..Len(t) /\ i = Len(s) + j /\ (j # 1 => j - 1 \in 1..Len(t) /\ i - 1 = Len(s) + (j - 1))
      BY <1>1, <2>2
    <3>2. r[i] = t[j] /\ (j # 1 => r[i - 1] = t[j - 1])
      BY <1>1, <3>1
    <3>3. r[i].frame.n \in DOMAIN e /\ r[i].frame = e[r[i].frame.n]
      BY <1>2, <3>1, <3>2 DEF Spans
    <3>4. Start(r[i]) = IF j = 1 THEN b ELSE Stop(t[j - 1])
      BY <1>2, <3>1, <3>2 DEF Spans
    <3>5. CASE j # 1
      <4>1. i # 1
        BY <1>1, <3>1, <3>5
      <4>2. QED
        BY <3>2, <3>3, <3>4, <3>5, <4>1
    <3>6. CASE j = 1 /\ Len(s) = 0
      <4>1. i = 1 /\ b = a
        BY <1>3, <3>1, <3>6 DEF Spans
      <4>2. QED
        BY <3>3, <3>4, <3>6, <4>1
    <3>7. CASE j = 1 /\ Len(s) # 0
      <4>1. i # 1 /\ i - 1 = Len(s) /\ Len(s) \in 1..Len(s)
        BY <1>1, <3>1, <3>7
      <4>2. b = Stop(s[Len(s)])
        BY <1>3, <3>7 DEF Spans
      <4>3. r[i - 1] = s[Len(s)]
        BY <1>1, <4>1
      <4>4. QED
        BY <3>3, <3>4, <3>7, <4>1, <4>2, <4>3
    <3>8. QED
      BY <3>5, <3>6, <3>7
  <2>3. QED
    BY <1>1, <2>1, <2>2
<1>5. c = IF r = <<>> THEN a ELSE Stop(r[Len(r)])
  <2>1. CASE Len(t) = 0
    <3>1. c = b /\ Len(r) = Len(s)
      BY <1>1, <1>3, <2>1 DEF Spans
    <3>2. Len(s) # 0 => r[Len(r)] = s[Len(s)]
      BY <1>1, <3>1
    <3>3. QED
      BY <1>3, <3>1, <3>2 DEF Spans
  <2>2. CASE Len(t) # 0
    <3>1. c = Stop(t[Len(t)])
      BY <1>3, <2>2 DEF Spans
    <3>2. Len(t) \in 1..Len(t) /\ Len(r) # 0
      BY <1>1, <2>2
    <3>3. r[Len(r)] = t[Len(t)]
      BY <1>1, <3>2
    <3>4. QED
      BY <1>3, <3>1, <3>2, <3>3
  <2>3. QED
    BY <2>1, <2>2
<1>6. QED
  BY <1>2, <1>4, <1>5 DEF Spans, r

\* A stretch can be cut after any piece.
LEMMA SpansCut ==
  ASSUME NEW e, NEW s \in Seq(Piece), NEW a, NEW b, Spans(e, s, a, b), NEW n \in 1..Len(s)
  PROVE  /\ Spans(e, SubSeq(s, 1, n), a, Stop(s[n]))
         /\ Spans(e, SubSeq(s, n + 1, Len(s)), Stop(s[n]), b)
<1> DEFINE x == SubSeq(s, 1, n)
           y == SubSeq(s, n + 1, Len(s))
<1>1. Len(s) \in Nat /\ DOMAIN s = 1..Len(s) /\ s # <<>>
  OBVIOUS
<1>2. /\ x \in Seq(Piece) /\ Len(x) = n /\ DOMAIN x = 1..n
      /\ \A i \in 1..n : x[i] = s[i]
  OBVIOUS
<1>3. /\ y \in Seq(Piece) /\ Len(y) = Len(s) - n /\ DOMAIN y = 1..(Len(s) - n)
      /\ \A i \in 1..(Len(s) - n) : y[i] = s[n + i]
  OBVIOUS
<1>4. n \in Nat /\ 1 <= n /\ n <= Len(s)
  BY <1>1
<1>10. x # <<>>
  <2>1. Len(x) # 0
    BY <1>2, <1>4
  <2>2. QED
    BY <2>1
<1>11. y = <<>> <=> n = Len(s)
  <2>1. Len(y) = 0 <=> n = Len(s)
    <3> DEFINE l == Len(s)
    <3>1. l \in Nat /\ Len(y) = l - n
      BY <1>1, <1>3
    <3> HIDE DEF l
    <3>2. l - n = 0 <=> n = l
      BY <1>4, <3>1
    <3>3. QED
      BY <3>1, <3>2, SMTT(30) DEF l
  <2>2. y = <<>> <=> Len(y) = 0
    BY <1>3, EmptySeq
  <2>3. QED
    BY <2>1, <2>2
<1> HIDE DEF x, y
<1>5. ASSUME NEW i \in 1..n
      PROVE  /\ x[i].frame.n \in DOMAIN e /\ x[i].frame = e[x[i].frame.n]
             /\ Start(x[i]) = IF i = 1 THEN a ELSE Stop(x[i - 1])
  <2>1. i \in DOMAIN s /\ (i # 1 => i - 1 \in 1..n)
    BY <1>1
  <2>2. QED
    BY <1>2, <2>1 DEF Spans
<1>6. Spans(e, x, a, Stop(s[n]))
  <2>1. x[Len(x)] = s[n]
    BY <1>2
  <2>2. QED
    BY <1>2, <1>10, <1>5, <2>1 DEF Spans
<1>7. ASSUME NEW i \in 1..(Len(s) - n)
      PROVE  /\ y[i].frame.n \in DOMAIN e /\ y[i].frame = e[y[i].frame.n]
             /\ Start(y[i]) = IF i = 1 THEN Stop(s[n]) ELSE Stop(y[i - 1])
  <2>1. n + i \in DOMAIN s /\ n + i # 1 /\ y[i] = s[n + i]
    BY <1>1, <1>3
  <2>2. Start(y[i]) = Stop(s[(n + i) - 1]) /\ y[i].frame.n \in DOMAIN e /\ y[i].frame = e[y[i].frame.n]
    BY <2>1 DEF Spans
  <2>3. CASE i = 1
    <3>1. (n + i) - 1 = n
      BY <2>3
    <3>2. QED
      BY <2>2, <2>3, <3>1
  <2>4. CASE i # 1
    <3>1. i - 1 \in 1..(Len(s) - n) /\ n + (i - 1) = (n + i) - 1
      BY <2>4, <1>1
    <3>2. y[i - 1] = s[(n + i) - 1]
      BY <1>3, <3>1
    <3>3. QED
      BY <2>2, <2>4, <3>2
  <2>5. QED
    BY <2>3, <2>4
<1>8. b = IF y = <<>> THEN Stop(s[n]) ELSE Stop(y[Len(y)])
  <2>1. b = Stop(s[Len(s)])
    BY <1>1 DEF Spans
  <2>2. CASE n = Len(s)
    BY <1>11, <2>1, <2>2
  <2>3. CASE n # Len(s)
    <3> DEFINE l == Len(s)
    <3> HIDE DEF l
    <3>1. l - n \in 1..(l - n) /\ n + (l - n) = l
      <4>1. l \in Nat /\ n \in Nat /\ n <= l /\ n # l
        BY <1>1, <1>4, <2>3 DEF l
      <4>2. QED
        BY <4>1, SMTT(30)
    <3>2. y[Len(y)] = s[Len(s)]
      BY <1>3, <3>1 DEF l
    <3>3. QED
      BY <1>11, <2>1, <2>3, <3>2
  <2>4. QED
    BY <2>2, <2>3
<1>9. Spans(e, y, Stop(s[n]), b)
  BY <1>3, <1>7, <1>8 DEF Spans
<1>12. QED
  BY <1>6, <1>9 DEF x, y

\* What was sent stays sent.
LEMMA SpansGrow ==
  ASSUME NEW e \in Seq(Frame), NEW f \in Frame, NEW s, NEW a, NEW b, Spans(e, s, a, b)
  PROVE  Spans(Append(e, f), s, a, b)
<1>1. \A k \in DOMAIN e : k \in DOMAIN Append(e, f) /\ Append(e, f)[k] = e[k]
  OBVIOUS
<1>2. QED
  BY <1>1 DEF Spans

-----------------------------------------------------------------------------
(* The parser and the stream.                                               *)

\* Halves of numbers.
LEMMA Halves ==
  ASSUME NEW m \in Nat, NEW n \in Nat
  PROVE  /\ 2 * m = 2 * n => m = n
         /\ 2 * m - 1 = 2 * n - 1 => m = n
         /\ 2 * n - 1 = 2 * m - 1 => m = n
         /\ 2 * m - 1 # 2 * n /\ 2 * m # 2 * n - 1
         /\ 2 * m - 2 # 2 * n - 1 /\ 2 * n - 1 # 2 * m - 2
OBVIOUS

\* Pieces that follow each other from between two frames belong together.
LEMMA SpansJoined ==
  ASSUME NEW e, NEW s \in Seq(Piece), NEW x \in Nat, NEW b, Spans(e, s, 2 * x, b)
  PROVE  Joined(s)
<1>1. DOMAIN s = 1..Len(s) /\ Len(s) \in Nat
  OBVIOUS
<1>2. ASSUME NEW i \in 1..Len(s), s[i].part = "tail"
      PROVE  i > 1 /\ s[i - 1] = [part |-> "head", frame |-> s[i].frame]
  <2>1. Start(s[i]) = 2 * s[i].frame.n - 1 /\ s[i].frame.n \in Nat
    BY <1>2, PieceFacts, ElementOfSeq DEF Start
  <2>2. i # 1
    <3>1. SUFFICES ASSUME i = 1 PROVE FALSE
      OBVIOUS
    <3>2. Start(s[i]) = 2 * x
      BY <1>1, <3>1 DEF Spans
    <3>3. QED
      BY <2>1, <3>2
  <2>3. i - 1 \in 1..Len(s)
    BY <1>1, <2>2
  <2>4. Start(s[i]) = Stop(s[i - 1])
    BY <1>1, <2>2 DEF Spans
  <2>5. s[i - 1] \in Piece /\ s[i - 1].frame.n \in Nat
    BY <2>3, PieceFacts, ElementOfSeq
  <2>6. s[i - 1].part = "head" /\ s[i - 1].frame.n = s[i].frame.n
    <3>1. CASE s[i - 1].part = "head"
      <4>1. Stop(s[i - 1]) = 2 * s[i - 1].frame.n - 1
        BY <3>1 DEF Stop
      <4>2. QED
        BY <2>1, <2>4, <2>5, <3>1, <4>1, Halves
    <3>2. CASE s[i - 1].part # "head"
      <4>1. Stop(s[i - 1]) = 2 * s[i - 1].frame.n
        BY <3>2 DEF Stop
      <4>2. QED
        BY <2>1, <2>4, <2>5, <4>1, Halves
    <3>3. QED
      BY <3>1, <3>2
  <2>7. s[i - 1].frame = s[i].frame
    BY <1>1, <2>3, <2>6 DEF Spans
  <2>8. s[i - 1] = [part |-> "head", frame |-> s[i].frame]
    BY <2>5, <2>6, <2>7 DEF Piece
  <2>9. QED
    BY <1>1, <2>2, <2>8
<1>3. ASSUME NEW i \in 1..Len(s), s[i].part = "head", i < Len(s)
      PROVE  s[i + 1] = [part |-> "tail", frame |-> s[i].frame]
  <2>1. s[i] \in Piece /\ Stop(s[i]) = 2 * s[i].frame.n - 1 /\ s[i].frame.n \in Nat
    BY <1>3, PieceFacts, ElementOfSeq DEF Stop
  <2>2. i + 1 \in 1..Len(s) /\ i + 1 # 1 /\ (i + 1) - 1 = i
    BY <1>1, <1>3
  <2>3. Start(s[i + 1]) = Stop(s[i])
    BY <1>1, <2>2 DEF Spans
  <2>4. s[i + 1] \in Piece /\ s[i + 1].frame.n \in Nat
    BY <2>2, PieceFacts, ElementOfSeq
  <2>5. s[i + 1].part = "tail" /\ s[i + 1].frame.n = s[i].frame.n
    <3>1. CASE s[i + 1].part = "tail"
      <4>1. Start(s[i + 1]) = 2 * s[i + 1].frame.n - 1
        BY <3>1 DEF Start
      <4>2. QED
        BY <2>1, <2>3, <2>4, <3>1, <4>1, Halves
    <3>2. CASE s[i + 1].part # "tail"
      <4>1. Start(s[i + 1]) = 2 * s[i + 1].frame.n - 2
        BY <3>2 DEF Start
      <4>2. QED
        BY <2>1, <2>3, <2>4, <4>1, Halves
    <3>3. QED
      BY <3>1, <3>2
  <2>6. s[i + 1].frame = s[i].frame
    BY <1>1, <2>2, <2>5 DEF Spans
  <2>7. QED
    BY <2>4, <2>5, <2>6 DEF Piece
<1>4. QED
  BY <1>1, <1>2, <1>3 DEF Joined

\* The frames g, x of them before, are those of e up to half at, or up to the
\* half before it.
ReadTo(e, x, g, at) ==
  /\ g \in Seq(Frame)
  /\ at \in Nat
  /\ at \in {2 * (x + Len(g)), 2 * (x + Len(g)) + 1}
  /\ x + Len(g) <= Len(e)
  /\ \A k \in DOMAIN g : g[k] = e[x + k]

\* The piece p, which starts at half at, has been read after them.
ReadPast(e, x, h, p, at) ==
  /\ ReadTo(e, x, h, Stop(p))
  /\ Stop(p) = IF IsLast(p) THEN 2 * (x + Len(h)) ELSE 2 * (x + Len(h)) + 1
  /\ p.part = "head" => at = 2 * (x + Len(h))

Follows(e, p, at) == p.frame.n \in DOMAIN e /\ p.frame = e[p.frame.n] /\ Start(p) = at
After(g, p) == IF IsLast(p) THEN Append(g, p.frame) ELSE g

\* One more piece read: the frames complete so far, x of them before these
\* pieces, end where the piece starts, or half a frame before.
LEMMA ReadOn ==
  ASSUME NEW e \in Seq(Frame), NEW p \in Piece, NEW x \in Nat, NEW g, NEW at,
         ReadTo(e, x, g, at), Follows(e, p, at)
  PROVE  ReadPast(e, x, After(g, p), p, at)
<1> DEFINE h == After(g, p)
<1> USE DEF ReadTo, ReadPast, Follows, After
<1> DEFINE n == p.frame.n
           l == Len(g)
<1>1. /\ p.part \in {"whole", "head", "tail"} /\ n \in Nat /\ n >= 1
      /\ p.frame \in Frame /\ Stop(p) \in Nat
  BY PieceFacts
<1>2. l \in Nat /\ Len(e) \in Nat
  OBVIOUS
<1>3. n <= Len(e)
  BY <1>2
<1> HIDE DEF l, n
<1>4. CASE p.part = "head"
  <2>1. h = g /\ ~IsLast(p)
    BY <1>4 DEF IsLast
  <2>2. at = 2 * n - 2 /\ Stop(p) = 2 * n - 1
    BY <1>4 DEF Start, Stop, n
  <2>3. at = 2 * (x + l) \/ at = 2 * (x + l) + 1
    BY DEF l
  <2>4. at = 2 * (x + l) /\ Stop(p) = 2 * (x + l) + 1
    BY <1>1, <1>2, <2>2, <2>3
  <2>5. QED
    BY <1>1, <2>1, <2>4 DEF l
<1>5. CASE p.part # "head"
  <2>1. h = Append(g, p.frame) /\ IsLast(p)
    BY <1>5 DEF IsLast
  <2>2. Stop(p) = 2 * n /\ (at = 2 * n - 2 \/ at = 2 * n - 1)
    BY <1>5 DEF Start, Stop, n
  <2>3. at = 2 * (x + l) \/ at = 2 * (x + l) + 1
    BY DEF l
  <2>4. n = x + l + 1
    BY <1>1, <1>2, <2>2, <2>3
  <2>5. /\ h \in Seq(Frame) /\ Len(h) = l + 1 /\ DOMAIN h = 1..(l + 1)
        /\ \A k \in 1..l : h[k] = g[k]
        /\ h[l + 1] = p.frame
    BY <1>1, <2>1 DEF l
  <2>6. x + (l + 1) <= Len(e) /\ Stop(p) = 2 * (x + (l + 1))
    BY <1>2, <1>3, <2>2, <2>4
  <2>7. ASSUME NEW k \in 1..(l + 1) PROVE h[k] = e[x + k]
    <3>1. CASE k = l + 1
      <4>1. x + k = n
        BY <1>2, <2>4, <3>1
      <4>2. QED
        BY <2>5, <3>1, <4>1 DEF n
    <3>2. CASE k # l + 1
      <4>1. k \in 1..l /\ k \in DOMAIN g
        BY <1>2, <3>2 DEF l
      <4>2. QED
        BY <2>5, <4>1
    <3>3. QED
      BY <3>1, <3>2
  <2>8. QED
    BY <1>1, <1>5, <2>1, <2>5, <2>6, <2>7
<1>6. QED
  BY <1>4, <1>5

\* What the parser makes of them: the frames of the stream that end there, and
\* the head that is left over.
LEMMA SpansParsed ==
  ASSUME NEW e \in Seq(Frame), NEW s \in Seq(Piece), NEW x \in Nat, NEW b,
         x <= Len(e), Spans(e, s, 2 * x, b)
  PROVE  /\ Complete(s) \in Seq(Frame)
         /\ x + Len(Complete(s)) <= Len(e)
         /\ \A k \in DOMAIN Complete(s) : Complete(s)[k] = e[x + k]
         /\ Spans(e, Leftover(s), 2 * (x + Len(Complete(s))), b)
<1>1. Joined(s)
  BY SpansJoined
<1>2. DOMAIN s = 1..Len(s) /\ Len(s) \in Nat /\ (s = <<>> <=> Len(s) = 0) /\ Len(e) \in Nat
  OBVIOUS
<1>3. PICK g : /\ Frames(s) = g[Len(s)]
               /\ g[0] = <<>>
               /\ \A i \in 1..Len(s) :
                    g[i] = IF IsLast(s[i]) THEN Append(g[i - 1], s[i].frame) ELSE g[i - 1]
  BY <1>2, FramesStep
<1> DEFINE at(i) == IF i = 0 THEN 2 * x ELSE Stop(s[i])
           Good(i) ==
             /\ ReadTo(e, x, g[i], at(i))
             /\ i # 0 => at(i) = IF IsLast(s[i]) THEN 2 * (x + Len(g[i])) ELSE 2 * (x + Len(g[i])) + 1
             /\ i # 0 /\ s[i].part = "head" => Start(s[i]) = 2 * (x + Len(g[i]))
           T == {i \in 0..Len(s) : Good(i)}
<1>4. 0 \in T
  <2>1. g[0] \in Seq(Frame) /\ Len(g[0]) = 0 /\ DOMAIN g[0] = {}
    BY <1>3, EmptySeq
  <2>2. at(0) = 2 * x /\ at(0) \in Nat /\ x + 0 = x
    OBVIOUS
  <2>3. 0 \in 0..Len(s)
    BY <1>2
  <2> HIDE DEF at
  <2>4. Good(0)
    BY <1>2, <2>1, <2>2 DEF ReadTo
  <2> HIDE DEF Good
  <2>5. QED
    BY <2>3, <2>4
<1>5. ASSUME NEW i \in 1..Len(s), i - 1 \in T PROVE i \in T
  <2>1. ReadTo(e, x, g[i - 1], at(i - 1))
    BY <1>5
  <2>2. s[i] \in Piece /\ Stop(s[i]) \in Nat
    BY PieceFacts, ElementOfSeq
  <2>3. s[i].frame.n \in DOMAIN e /\ s[i].frame = e[s[i].frame.n]
    BY <1>2 DEF Spans
  <2>4. Start(s[i]) = at(i - 1)
    <3>1. Start(s[i]) = IF i = 1 THEN 2 * x ELSE Stop(s[i - 1])
      BY <1>2 DEF Spans
    <3>2. i = 1 <=> i - 1 = 0
      OBVIOUS
    <3>3. QED
      BY <3>1, <3>2
  <2>5. g[i] = IF IsLast(s[i]) THEN Append(g[i - 1], s[i].frame) ELSE g[i - 1]
    BY <1>3
  <2>6. i # 0 /\ at(i) = Stop(s[i])
    OBVIOUS
  <2> HIDE DEF at
  <2>7. /\ ReadTo(e, x, g[i], Stop(s[i]))
        /\ Stop(s[i]) = IF IsLast(s[i]) THEN 2 * (x + Len(g[i])) ELSE 2 * (x + Len(g[i])) + 1
        /\ s[i].part = "head" => at(i - 1) = 2 * (x + Len(g[i]))
    <3>1. Follows(e, s[i], at(i - 1))
      BY <2>3, <2>4 DEF Follows
    <3>2. g[i] = After(g[i - 1], s[i])
      BY <2>5 DEF After
    <3>3. ReadPast(e, x, After(g[i - 1], s[i]), s[i], at(i - 1))
      BY <2>1, <2>2, <3>1, ReadOn
    <3>4. QED
      BY <3>2, <3>3 DEF ReadPast
  <2>8. QED
    BY <2>4, <2>6, <2>7
<1>6. Good(Len(s))
  <2> HIDE DEF Good
  <2>1. \A i \in 0..Len(s) : i \in T
    <3> HIDE DEF T
    <3>1. QED
      BY <1>2, <1>4, <1>5, SetInduction
  <2>2. QED
    BY <1>2, <2>1
<1>7. Complete(s) = g[Len(s)]
  BY <1>1, <1>3 DEF Complete
<1>8. b = at(Len(s))
  BY <1>2 DEF Spans
<1> DEFINE y == 2 * (x + Len(Complete(s)))
<1>9. Spans(e, Leftover(s), y, b)
  <2>1. CASE Len(s) = 0 \/ IsLast(s[Len(s)])
    <3>1. Leftover(s) = <<>>
      BY <1>1, <1>2, <2>1 DEF Leftover, IsLast
    <3>2. b = y
      <4>1. CASE Len(s) = 0
        <5>1. Len(Complete(s)) = 0
          BY <1>3, <1>7, <4>1, EmptySeq
        <5>2. QED
          BY <1>8, <4>1, <5>1
      <4>2. CASE Len(s) # 0
        BY <1>6, <1>7, <1>8, <2>1, <4>2 DEF ReadTo
      <4>3. QED
        BY <4>1, <4>2
    <3>3. QED
      BY <3>1, <3>2, SpansEmpty
  <2>2. CASE Len(s) # 0 /\ ~IsLast(s[Len(s)])
    <3>1. s[Len(s)].part = "head" /\ Len(s) \in 1..Len(s)
      BY <1>2, <2>2 DEF IsLast
    <3>2. Leftover(s) = <<s[Len(s)]>>
      BY <1>1, <1>2, <2>2, <3>1 DEF Leftover
    <3>3. Start(s[Len(s)]) = y /\ b = Stop(s[Len(s)])
      BY <1>6, <1>7, <1>8, <2>2, <3>1
    <3>4. s[Len(s)].frame.n \in DOMAIN e /\ s[Len(s)].frame = e[s[Len(s)].frame.n]
      BY <1>2, <3>1 DEF Spans
    <3> DEFINE p == s[Len(s)]
    <3> HIDE DEF p, y
    <3>5. ASSUME p.frame.n \in DOMAIN e, p.frame = e[p.frame.n], Start(p) = y, b = Stop(p)
          PROVE  Spans(e, <<p>>, y, b)
      <4>1. Len(<<p>>) = 1 /\ DOMAIN <<p>> = {1} /\ <<p>>[1] = p /\ <<p>> # <<>>
        OBVIOUS
      <4>2. QED
        BY <3>5, <4>1 DEF Spans
    <3>6. QED
      BY <3>2, <3>3, <3>4, <3>5 DEF p
  <2>3. QED
    BY <2>1, <2>2
<1>10. QED
  BY <1>6, <1>7, <1>9 DEF ReadTo

-----------------------------------------------------------------------------
(* The mailbox and the stream.                                              *)

\* A message at the end of the mailbox.
LEMMA LinkAppend ==
  ASSUME NEW e, NEW box \in Seq(Message), NEW a, NEW y, NEW z \in Nat, Linked(e, box, a, y),
         NEW m \in Message, Fills(e, m, y, z)
  PROVE  Linked(e, Append(box, m), a, z)
<1>0. PICK mark \in [0..Len(box) -> Nat] : mark[0] = a /\ mark[Len(box)] = y /\ Chained(e, box, mark)
  BY DEF Linked
<1> DEFINE new == Append(box, m)
           mk == [i \in 0..(Len(box) + 1) |-> IF i <= Len(box) THEN mark[i] ELSE z]
<1>1. /\ Len(box) \in Nat /\ DOMAIN box = 1..Len(box)
      /\ Len(new) = Len(box) + 1 /\ DOMAIN new = 1..(Len(box) + 1)
      /\ \A i \in 1..Len(box) : new[i] = box[i]
      /\ new[Len(box) + 1] = m
  OBVIOUS
<1>2. mk \in [0..(Len(box) + 1) -> Nat]
  OBVIOUS
<1>3. /\ \A i \in 0..Len(box) : mk[i] = mark[i]
      /\ mk[Len(box) + 1] = z
  BY <1>1
<1> HIDE DEF new, mk
<1>4. ASSUME NEW i \in 1..(Len(box) + 1)
      PROVE  Fills(e, new[i], mk[i - 1], mk[i])
  <2>1. CASE i = Len(box) + 1
    <3>1. i - 1 = Len(box) /\ Len(box) \in 0..Len(box)
      BY <1>1, <2>1
    <3>2. mk[i - 1] = mark[Len(box)] /\ mk[i] = z /\ new[i] = m
      BY <1>1, <1>3, <2>1, <3>1
    <3>3. QED
      BY <1>0, <3>2
  <2>2. CASE i # Len(box) + 1
    <3>1. i \in 1..Len(box) /\ i - 1 \in 0..Len(box) /\ i \in 0..Len(box)
      BY <1>1, <2>2
    <3>2. mk[i - 1] = mark[i - 1] /\ mk[i] = mark[i] /\ new[i] = box[i]
      BY <1>1, <1>3, <3>1
    <3>3. Fills(e, box[i], mark[i - 1], mark[i])
      BY <1>0, <1>1, <3>1 DEF Chained
    <3>4. QED
      BY <3>2, <3>3
  <2>3. QED
    BY <2>1, <2>2
<1>5. Chained(e, new, mk)
  BY <1>1, <1>4 DEF Chained
<1>6. mk[0] = a
  BY <1>0, <1>1, <1>3
<1>7. QED
  BY <1>1, <1>2, <1>3, <1>5, <1>6 DEF Linked, new

\* A message taken from before which there is no read.
LEMMA LinkRemove ==
  ASSUME NEW e, NEW box \in Seq(Message), NEW a, NEW z, Linked(e, box, a, z),
         NEW k \in 1..Len(box), \A i \in 1..Len(box) : i < k => box[i].tag # "data"
  PROVE  \E b \in Nat : Fills(e, box[k], a, b) /\ Linked(e, RemoveAt(box, k), b, z)
<1> DEFINE new == RemoveAt(box, k)
           n == Len(box) - 1
<1>1. /\ Len(box) \in Nat /\ DOMAIN box = 1..Len(box)
      /\ k \in Nat /\ k >= 1 /\ k <= Len(box) /\ n \in Nat
  OBVIOUS
<1>2. /\ Len(new) = n /\ DOMAIN new = 1..n
      /\ \A i \in 1..n : new[i] = IF i < k THEN box[i] ELSE box[i + 1]
  <2>1. /\ new \in Seq(Message) /\ Len(new) = Len(box) - 1
        /\ \A i \in 1..(Len(box) - 1) : new[i] = IF i < k THEN box[i] ELSE box[i + 1]
    BY Removed
  <2> HIDE DEF new
  <2>2. QED
    BY <2>1
<1>0. PICK mark \in [0..Len(box) -> Nat] : mark[0] = a /\ mark[Len(box)] = z /\ Chained(e, box, mark)
  BY DEF Linked
<1> DEFINE mk == [i \in 0..n |-> IF i < k THEN mark[k] ELSE mark[i + 1]]
<1>3. \A i \in 1..Len(box) : Fills(e, box[i], mark[i - 1], mark[i])
  BY <1>0, <1>1 DEF Chained
<1>4. mark[k - 1] = mark[0]
  <2> DEFINE T == {i \in 0..(k - 1) : mark[i] = mark[0]}
  <2>1. k - 1 \in Nat /\ 0 \in T
    BY <1>1
  <2>2. ASSUME NEW i \in 1..(k - 1), i - 1 \in T PROVE i \in T
    <3>1. i \in 1..Len(box) /\ i < k
      BY <1>1
    <3>2. mark[i] = mark[i - 1]
      BY <1>3, <3>1 DEF Fills
    <3>3. mark[i - 1] = mark[0]
      BY <2>2
    <3>4. QED
      BY <1>1, <3>2, <3>3
  <2>3. \A i \in 0..(k - 1) : i \in T
    <3> HIDE DEF T
    <3>1. QED
      BY <2>1, <2>2, SetInduction
  <2>4. QED
    BY <2>1, <2>3
<1>5. Fills(e, box[k], mark[0], mark[k])
  BY <1>3, <1>4
<1>6. mk \in [0..n -> Nat]
  <2>1. \A i \in 0..n : mark[k] \in Nat /\ mark[i + 1] \in Nat
    BY <1>1
  <2>2. QED
    BY <2>1
<1>7. \A i \in 0..n : mk[i] = IF i < k THEN mark[k] ELSE mark[i + 1]
  OBVIOUS
<1> HIDE DEF mk, new
<1>8. mk[0] = mark[k]
  BY <1>1, <1>7
<1>9. mk[n] = mark[Len(box)]
  <2>1. n + 1 = Len(box)
    BY <1>1
  <2> HIDE DEF n
  <2>2. n \in 0..n
    BY <1>1
  <2>3. n < k => k = n + 1
    BY <1>1, <2>1
  <2>4. QED
    BY <1>7, <2>1, <2>2, <2>3
<1>10. ASSUME NEW i \in 1..n
       PROVE  Fills(e, new[i], mk[i - 1], mk[i])
  <2>1. i \in 0..n /\ i - 1 \in 0..n /\ i \in 1..Len(box) /\ i + 1 \in 1..Len(box) /\ (i + 1) - 1 = i
    BY <1>1
  <2>2. CASE i < k
    <3>1. i - 1 < k
      BY <1>1, <2>2
    <3>2. mk[i] = mark[k] /\ mk[i - 1] = mark[k] /\ new[i] = box[i]
      BY <1>2, <1>7, <2>1, <2>2, <3>1
    <3>3. QED
      BY <2>1, <2>2, <3>2 DEF Fills
  <2>3. CASE ~(i < k)
    <3>1. mk[i] = mark[i + 1] /\ new[i] = box[i + 1]
      BY <1>2, <1>7, <2>1, <2>3
    <3>2. mk[i - 1] = mark[i]
      <4>1. CASE i = k
        <5>1. i - 1 < k
          BY <1>1, <4>1
        <5>2. QED
          BY <1>7, <2>1, <4>1, <5>1
      <4>2. CASE i # k
        <5>1. ~(i - 1 < k) /\ (i - 1) + 1 = i
          BY <1>1, <2>3, <4>2
        <5>2. mk[i - 1] = mark[(i - 1) + 1]
          BY <1>7, <2>1, <5>1
        <5>3. QED
          BY <5>1, <5>2
      <4>3. QED
        BY <4>1, <4>2
    <3>3. Fills(e, box[i + 1], mark[(i + 1) - 1], mark[i + 1])
      BY <1>3, <2>1
    <3>4. QED
      BY <2>1, <3>1, <3>2, <3>3
  <2>4. QED
    BY <2>2, <2>3
<1>11. Chained(e, new, mk)
  BY <1>2, <1>10 DEF Chained
<1>12. Linked(e, new, mark[k], z)
  BY <1>0, <1>2, <1>6, <1>8, <1>9, <1>11 DEF Linked
<1>13. mark[k] \in Nat
  BY <1>1
<1>14. QED
  BY <1>0, <1>5, <1>12, <1>13 DEF new

-----------------------------------------------------------------------------
(* What a step may do to the stream.                                        *)

\* A message that is not a read, put in line ...
LEMMA StreamPost ==
  ASSUME NEW e, NEW h, NEW q, NEW r, NEW box \in Seq(Message), NEW w,
         Stream(e, h, q, r, box, w), NEW m \in Message, m.tag # "data"
  PROVE  Stream(e, h, q, r, Append(box, m), w)
<1>1. PICK a \in Nat, z \in Nat :
        /\ Spans(e, r, 2 * (h + Len(q)), a)
        /\ Linked(e, box, a, z)
        /\ Spans(e, w, z, 2 * Len(e))
  BY DEF Stream
<1>2. Fills(e, m, z, z)
  BY DEF Fills
<1>3. Linked(e, Append(box, m), a, z)
  BY <1>1, <1>2, LinkAppend
<1>4. QED
  BY <1>1, <1>3 DEF Stream

\* ... or taken out, with no read before it.
LEMMA StreamSkip ==
  ASSUME NEW e, NEW h, NEW q, NEW r, NEW box \in Seq(Message), NEW w,
         Stream(e, h, q, r, box, w),
         NEW k \in 1..Len(box), \A i \in 1..Len(box) : i < k => box[i].tag # "data",
         box[k].tag # "data"
  PROVE  Stream(e, h, q, r, RemoveAt(box, k), w)
<1>1. PICK a \in Nat, z \in Nat :
        /\ Spans(e, r, 2 * (h + Len(q)), a)
        /\ Linked(e, box, a, z)
        /\ Spans(e, w, z, 2 * Len(e))
  BY DEF Stream
<1>2. PICK b \in Nat : Fills(e, box[k], a, b) /\ Linked(e, RemoveAt(box, k), b, z)
  BY <1>1, LinkRemove
<1>3. b = a
  BY <1>2 DEF Fills
<1>4. QED
  BY <1>1, <1>2, <1>3 DEF Stream

\* The first read taken out of line: the parser has it.
LEMMA StreamRead ==
  ASSUME NEW e, NEW h, NEW q, NEW r \in Seq(Piece), NEW box \in Seq(Message), NEW w,
         Stream(e, h, q, r, box, w),
         NEW k \in 1..Len(box), \A i \in 1..Len(box) : i < k => box[i].tag # "data",
         box[k].tag = "data", NEW s \in Seq(Piece), s = box[k].pieces
  PROVE  Stream(e, h, q, r \o s, RemoveAt(box, k), w)
<1>1. PICK a \in Nat, z \in Nat :
        /\ Spans(e, r, 2 * (h + Len(q)), a)
        /\ Linked(e, box, a, z)
        /\ Spans(e, w, z, 2 * Len(e))
  BY DEF Stream
<1>2. PICK b \in Nat : Fills(e, box[k], a, b) /\ Linked(e, RemoveAt(box, k), b, z)
  BY <1>1, LinkRemove
<1>3. Spans(e, s, a, b)
  BY <1>2 DEF Fills
<1>4. Spans(e, r \o s, 2 * (h + Len(q)), b)
  BY <1>1, <1>3, SpansConcat
<1>5. QED
  BY <1>1, <1>2, <1>4 DEF Stream

\* The port reads n pieces of the pipe.
LEMMA StreamDeliver ==
  ASSUME NEW e, NEW h, NEW q, NEW r, NEW box \in Seq(Message), NEW w \in Seq(Piece),
         Stream(e, h, q, r, box, w), NEW n \in 1..Len(w), NEW m \in Message,
         m.tag = "data", m.pieces = SubSeq(w, 1, n)
  PROVE  Stream(e, h, q, r, Append(box, m), SubSeq(w, n + 1, Len(w)))
<1>1. PICK a \in Nat, z \in Nat :
        /\ Spans(e, r, 2 * (h + Len(q)), a)
        /\ Linked(e, box, a, z)
        /\ Spans(e, w, z, 2 * Len(e))
  BY DEF Stream
<1> DEFINE y == Stop(w[n])
           v == SubSeq(w, n + 1, Len(w))
<1>2. Spans(e, SubSeq(w, 1, n), z, y) /\ Spans(e, v, y, 2 * Len(e))
  BY <1>1, SpansCut
<1>3. y \in Nat /\ Fills(e, m, z, y)
  BY <1>2, PieceFacts, ElementOfSeq DEF Fills
<1> HIDE DEF y, v
<1>4. Linked(e, Append(box, m), a, y)
  BY <1>1, <1>3, LinkAppend
<1>5. Stream(e, h, q, r, Append(box, m), v)
  BY <1>1, <1>2, <1>3, <1>4 DEF Stream
<1>6. QED
  BY <1>5 DEF v

\* The server sends its next frame, in one piece or in two.
LEMMA StreamSend ==
  ASSUME NEW e \in Seq(Frame), NEW h \in Nat, NEW q \in Seq(Frame), NEW r, NEW box \in Seq(Message),
         NEW w \in Seq(Piece), Stream(e, h, q, r, box, w),
         NEW f \in Frame, f.n = Len(e) + 1, NEW t,
         \/ t = <<[part |-> "whole", frame |-> f]>>
         \/ t = <<[part |-> "head", frame |-> f], [part |-> "tail", frame |-> f]>>
  PROVE  Stream(Append(e, f), h, q, r, box, w \o t)
<1> DEFINE g == Append(e, f)
<1>1. /\ Len(g) = Len(e) + 1 /\ DOMAIN g = 1..(Len(e) + 1) /\ Len(e) \in Nat /\ DOMAIN e = 1..Len(e)
      /\ \A k \in 1..Len(e) : g[k] = e[k]
      /\ g[Len(e) + 1] = f
  OBVIOUS
<1>2. \A s, a, b : Spans(e, s, a, b) => Spans(g, s, a, b)
  BY SpansGrow
<1> HIDE DEF g
<1>3. PICK a \in Nat, z \in Nat :
        /\ Spans(e, r, 2 * (h + Len(q)), a)
        /\ Linked(e, box, a, z)
        /\ Spans(e, w, z, 2 * Len(e))
  BY DEF Stream
<1>4. Linked(g, box, a, z)
  BY <1>2, <1>3 DEF Linked, Chained, Fills
<1>5. t \in Seq(Piece) /\ Spans(g, t, 2 * Len(e), 2 * Len(g))
  <2>1. f.n \in DOMAIN g /\ f = g[f.n] /\ f.n \in Nat
    BY <1>1
  <2>2. /\ 2 * f.n - 2 = 2 * Len(e) /\ 2 * f.n = 2 * Len(g)
    BY <1>1
  <2>3. CASE t = <<[part |-> "whole", frame |-> f]>>
    <3> DEFINE p == [part |-> "whole", frame |-> f]
    <3>1. p \in Piece /\ p.frame = f /\ Start(p) = 2 * f.n - 2 /\ Stop(p) = 2 * f.n
      BY DEF Piece, Start, Stop
    <3> HIDE DEF p
    <3>2. /\ <<p>> \in Seq(Piece) /\ Len(<<p>>) = 1 /\ DOMAIN <<p>> = {1} /\ <<p>>[1] = p /\ <<p>> # <<>>
      BY <3>1
    <3>3. Spans(g, <<p>>, 2 * Len(e), 2 * Len(g))
      BY <2>1, <2>2, <3>1, <3>2 DEF Spans
    <3>4. QED
      BY <2>3, <3>2, <3>3 DEF p
  <2>4. CASE t = <<[part |-> "head", frame |-> f], [part |-> "tail", frame |-> f]>>
    <3> DEFINE p == [part |-> "head", frame |-> f]
               y == [part |-> "tail", frame |-> f]
    <3>1. /\ p \in Piece /\ p.frame = f /\ Start(p) = 2 * f.n - 2 /\ Stop(p) = 2 * f.n - 1
          /\ y \in Piece /\ y.frame = f /\ Start(y) = 2 * f.n - 1 /\ Stop(y) = 2 * f.n
      BY DEF Piece, Start, Stop
    <3> HIDE DEF p, y
    <3>2. /\ <<p, y>> \in Seq(Piece) /\ Len(<<p, y>>) = 2 /\ DOMAIN <<p, y>> = {1, 2}
          /\ <<p, y>>[1] = p /\ <<p, y>>[2] = y /\ <<p, y>> # <<>>
      BY <3>1
    <3>3. Spans(g, <<p, y>>, 2 * Len(e), 2 * Len(g))
      BY <2>1, <2>2, <3>1, <3>2 DEF Spans
    <3>4. QED
      BY <2>4, <3>2, <3>3 DEF p, y
  <2>5. QED
    BY <2>3, <2>4
<1>6. Spans(g, w \o t, z, 2 * Len(g))
  BY <1>2, <1>3, <1>5, SpansConcat
<1>7. Spans(g, r, 2 * (h + Len(q)), a)
  BY <1>2, <1>3
<1>8. h + Len(q) <= Len(g)
  <2>1. h + Len(q) <= Len(e) /\ Len(q) \in Nat
    BY DEF Stream, Queued
  <2>2. QED
    BY <1>1, <2>1
<1>9. ASSUME NEW k \in DOMAIN q PROVE q[k] = g[h + k]
  <2>1. k \in 1..Len(q) /\ Len(q) \in Nat /\ h + Len(q) <= Len(e) /\ q[k] = e[h + k]
    BY DEF Stream, Queued
  <2>2. h + k \in 1..Len(e)
    BY <1>1, <2>1
  <2>3. QED
    BY <1>1, <2>1, <2>2
<1>10. QED
  BY <1>4, <1>6, <1>7, <1>8, <1>9 DEF Stream, Queued, g

\* The parser takes out the frames that are complete.
LEMMA StreamParse ==
  ASSUME NEW e \in Seq(Frame), NEW h \in Nat, NEW q \in Seq(Frame), NEW r \in Seq(Piece), NEW box, NEW w,
         Stream(e, h, q, r, box, w)
  PROVE  Stream(e, h, q \o Complete(r), Leftover(r), box, w)
<1>1. PICK a \in Nat, z \in Nat :
        /\ Spans(e, r, 2 * (h + Len(q)), a)
        /\ Linked(e, box, a, z)
        /\ Spans(e, w, z, 2 * Len(e))
  BY DEF Stream
<1> DEFINE x == h + Len(q)
           c == Complete(r)
<1>2. x \in Nat /\ x <= Len(e) /\ Len(q) \in Nat
  BY DEF Stream, Queued
<1>3. /\ c \in Seq(Frame)
      /\ x + Len(c) <= Len(e)
      /\ \A k \in DOMAIN c : c[k] = e[x + k]
      /\ Spans(e, Leftover(r), 2 * (x + Len(c)), a)
  BY <1>1, <1>2, SpansParsed
<1>4. /\ Len(q \o c) = Len(q) + Len(c) /\ Len(c) \in Nat
      /\ \A k \in 1..Len(q) : (q \o c)[k] = q[k]
      /\ \A k \in 1..Len(c) : (q \o c)[Len(q) + k] = c[k]
      /\ DOMAIN (q \o c) = 1..(Len(q) + Len(c)) /\ DOMAIN c = 1..Len(c) /\ DOMAIN q = 1..Len(q)
  BY <1>3, ConcatProperties
<1>5. h + Len(q \o c) = x + Len(c)
  BY <1>2, <1>4
<1>6. ASSUME NEW k \in 1..(Len(q) + Len(c)) PROVE (q \o c)[k] = e[h + k]
  <2>1. CASE k <= Len(q)
    <3>1. k \in 1..Len(q)
      BY <1>2, <1>4, <2>1
    <3>2. QED
      BY <1>4, <3>1 DEF Stream, Queued
  <2>2. CASE ~(k <= Len(q))
    <3> DEFINE j == k - Len(q)
    <3>1. j \in 1..Len(c) /\ Len(q) + j = k /\ x + j = h + k
      BY <1>2, <1>4, <2>2
    <3> HIDE DEF j
    <3>2. (q \o c)[Len(q) + j] = c[j] /\ c[j] = e[x + j]
      BY <1>3, <1>4, <3>1
    <3>3. QED
      BY <3>1, <3>2
  <2>3. QED
    BY <2>1, <2>2
<1> HIDE DEF x, c
<1>7. QED
  BY <1>1, <1>3, <1>4, <1>5, <1>6 DEF Stream, Queued, c

\* The frame next in the queue is handled ...
LEMMA StreamHandle ==
  ASSUME NEW e \in Seq(Frame), NEW h \in Nat, NEW q \in Seq(Frame), q # <<>>, NEW r, NEW box, NEW w,
         Stream(e, h, q, r, box, w)
  PROVE  Stream(e, h + 1, Tail(q), r, box, w) /\ h + 1 <= Len(e) /\ Head(q) = e[h + 1]
<1>1. /\ Tail(q) \in Seq(Frame) /\ Len(Tail(q)) = Len(q) - 1 /\ Len(q) \in Nat /\ Len(q) >= 1
      /\ DOMAIN Tail(q) = 1..(Len(q) - 1) /\ DOMAIN q = 1..Len(q) /\ Head(q) = q[1]
      /\ \A k \in 1..(Len(q) - 1) : Tail(q)[k] = q[k + 1]
  OBVIOUS
<1>2. h + Len(q) <= Len(e) /\ Len(e) \in Nat
  BY DEF Stream, Queued
<1>3. (h + 1) + Len(Tail(q)) = h + Len(q)
  BY <1>1
<1>4. ASSUME NEW k \in 1..(Len(q) - 1) PROVE Tail(q)[k] = e[(h + 1) + k]
  <2>1. k + 1 \in DOMAIN q /\ h + (k + 1) = (h + 1) + k
    BY <1>1
  <2>2. q[k + 1] = e[h + (k + 1)]
    BY <2>1 DEF Stream, Queued
  <2>3. QED
    BY <1>1, <2>1, <2>2
<1>5. h + 1 <= Len(e) /\ Head(q) = e[h + 1]
  <2>1. 1 \in DOMAIN q
    BY <1>1
  <2>2. QED
    BY <1>1, <1>2, <2>1 DEF Stream, Queued
<1>6. Stream(e, h + 1, Tail(q), r, box, w)
  BY <1>1, <1>2, <1>3, <1>4 DEF Stream, Queued
<1>7. QED
  BY <1>5, <1>6

\* ... or all of them are.
LEMMA StreamDrain ==
  ASSUME NEW e \in Seq(Frame), NEW h \in Nat, NEW q \in Seq(Frame), NEW r, NEW box, NEW w,
         Stream(e, h, q, r, box, w)
  PROVE  Stream(e, h + Len(q), <<>>, r, box, w)
<1>1. Len(<<>>) = 0 /\ DOMAIN <<>> = {} /\ Len(q) \in Nat
  BY EmptySeq
<1>2. (h + Len(q)) + Len(<<>>) = h + Len(q)
  BY <1>1
<1>3. QED
  BY <1>1, <1>2 DEF Stream, Queued

-----------------------------------------------------------------------------
(* Every step keeps FifoInv.                                                *)

\* What the proc holds of the stream.
LEMMA StreamTypes ==
  ASSUME ProcInv
  PROVE  /\ emitted \in Seq(Frame) /\ handled \in Seq(Frame) /\ Len(handled) \in Nat
         /\ mailbox \in Seq(Message) /\ wire \in Seq(Piece) /\ reading \in Seq(Piece)
         /\ client.queue \in Seq(Frame) /\ client.buffer \in Seq(Piece)
         /\ work.queue \in Seq(Frame) /\ work.buffer \in Seq(Piece)
         /\ Current.queue \in Seq(Frame) /\ Current.buffer \in Seq(Piece)
         /\ Current.buffer \o reading \in Seq(Piece)
<1> USE World
<1>1. client \in ClientType /\ work \in ClientType /\ reading \in Seq(Piece)
  BY DEF LoopTypes
<1>2. /\ client.queue \in Seq(Frame) /\ client.buffer \in Seq(Piece)
      /\ work.queue \in Seq(Frame) /\ work.buffer \in Seq(Piece)
  BY <1>1 DEF ClientType
<1>3. Current.queue \in Seq(Frame) /\ Current.buffer \in Seq(Piece)
  BY <1>2 DEF Current
<1>4. Current.buffer \o reading \in Seq(Piece)
  BY <1>1, <1>3, ConcatProperties
<1>5. QED
  BY <1>1, <1>2, <1>3, <1>4 DEF WorldTypes

\* A step that dispatches nothing and moves the stream along.
LEMMA StreamMoves ==
  ASSUME FifoInv, handled' = handled, emitted' = emitted, clean' = clean, alive' => alive,
         ReadingInv',
         clean /\ alive => Stream(emitted, Len(handled), Current'.queue, Current'.buffer \o reading',
                                  mailbox', wire')
  PROVE  FifoInv'
<1>1. PrefixInv'
  BY DEF FifoInv, PrefixInv
<1>2. StreamInv'
  BY DEF StreamInv
<1>3. QED
  BY <1>1, <1>2 DEF FifoInv

\* A step that leaves the parser and the pipe alone.
SameHeld ==
  /\ handled' = handled /\ emitted' = emitted /\ clean' = clean /\ (alive' => alive)
  /\ wire' = wire /\ reading' = reading
  /\ Current'.queue = Current.queue /\ Current'.buffer = Current.buffer

LEMMA HeldKept ==
  ASSUME ProcInv, FifoInv, SameHeld, ReadingInv', mailbox' = mailbox
  PROVE  FifoInv'
BY StreamMoves DEF SameHeld, FifoInv, StreamInv

LEMMA HeldPosted ==
  ASSUME ProcInv, ProcInv', FifoInv, SameHeld, ReadingInv',
         NEW m, m.tag # "data", mailbox' = Append(mailbox, m)
  PROVE  FifoInv'
<1>1. mailbox \in Seq(Message) /\ mailbox' \in Seq(Message)
  BY DEF ProcInv, TypeOK
<1>2. m \in Message
  <2>1. mailbox \in Seq(Message \cup {m})
    BY <1>1
  <2>2. Len(Append(mailbox, m)) = Len(mailbox) + 1 /\ Append(mailbox, m)[Len(mailbox) + 1] = m
    BY <2>1, AppendProperties
  <2>3. Len(mailbox) + 1 \in 1..Len(mailbox')
    BY <1>1, <2>2
  <2>4. QED
    BY <1>1, <2>2, <2>3, ElementOfSeq
<1>3. clean /\ alive =>
        Stream(emitted, Len(handled), Current.queue, Current.buffer \o reading, mailbox', wire)
  BY <1>1, <1>2, StreamPost DEF FifoInv, StreamInv
<1>4. QED
  BY <1>3, StreamMoves DEF SameHeld

LEMMA HeldSkipped ==
  ASSUME ProcInv, FifoInv, SameHeld, ReadingInv',
         NEW k \in 1..Len(mailbox), \A i \in 1..Len(mailbox) : i < k => mailbox[i].tag # "data",
         mailbox[k].tag # "data", mailbox' = RemoveAt(mailbox, k)
  PROVE  FifoInv'
<1>1. mailbox \in Seq(Message)
  BY DEF ProcInv, TypeOK
<1>2. clean /\ alive =>
        Stream(emitted, Len(handled), Current.queue, Current.buffer \o reading, mailbox', wire)
  BY <1>1, StreamSkip DEF FifoInv, StreamInv
<1>3. QED
  BY <1>2, StreamMoves DEF SameHeld

\* A step that fails a call, or passes a step of a drain.
LEMMA NotClean ==
  ASSUME ~clean', ReadingInv'
  PROVE  FifoInv'
BY DEF FifoInv, PrefixInv, StreamInv

\* What the parser has between handlers and in a loop that is done.
LEMMA RestReads == ASSUME Rest PROVE ReadingInv'
<1>1. reading' = <<>>
  BY DEF Rest
<1>2. QED
  BY <1>1 DEF ReadingInv

LEMMA SameReads ==
  ASSUME FifoInv, UNCHANGED <<serving, cache, reading>>, work'.queue = work.queue
  PROVE  ReadingInv'
BY DEF FifoInv, ReadingInv, PublishDone

\* The frame f is dispatched with the client w that is left without it.
LEMMA ServeKeeps ==
  ASSUME ProcInv, FifoInv, serving # Idle, NEW f \in Frame, NEW w \in ClientType, Serve(f, w),
         emitted' = emitted, alive' = alive,
         clean /\ alive => /\ Len(handled) + 1 <= Len(emitted) /\ f = emitted[Len(handled) + 1]
                           /\ Stream(emitted, Len(handled) + 1, w.queue, w.buffer, mailbox', wire'),
         alive
  PROVE  FifoInv'
<1> USE World, StreamTypes
<1>1. CASE clean' = FALSE
  <2>1. reading' = <<>>
    BY DEF Serve, ServeRequest, ServePublish, Fail, Rest
  <2>2. ReadingInv'
    BY <2>1 DEF ReadingInv
  <2>3. QED
    BY <1>1, <2>2, NotClean
<1>2. CASE clean' # FALSE
  <2>1. reading' = <<>> /\ clean' = clean
    BY <1>2 DEF Serve, ServeRequest, ServePublish, Fail, Rest
  <2>2. ReadingInv'
    BY <2>1 DEF ReadingInv
  <2>3. handled' = Append(handled, f)
    <3>1. handled \o <<f>> = Append(handled, f)
      OBVIOUS
    <3>2. handled' = Append(handled, f) \/ handled' = handled \o <<f>>
      BY <1>2 DEF Serve, ServeRequest, ServePublish, Fail, Dispatch
    <3>3. QED
      BY <3>1, <3>2
  <2>4. Current' = w
    <3>1. CASE serving' = Idle
      <4>1. client' = w
        <5>1. \/ client' = w
              \/ serving' = [serving EXCEPT !.silence = 0]
              \/ serving' = [serving EXCEPT !.left = @ - 1, !.silence = 0, !.found = @ \/ cache' # 0]
          BY <1>2 DEF Serve, ServeRequest, ServePublish, Fail
        <5>2. serving.job # "none" /\ serving \in ServingType /\ serving'.job = "none"
          BY <3>1, IdleFields DEF ProcInv, TicketsInv, LoopTypes
        <5>3. serving' # [serving EXCEPT !.silence = 0]
          BY <5>2 DEF ServingType
        <5>4. serving' # [serving EXCEPT !.left = @ - 1, !.silence = 0, !.found = @ \/ cache' # 0]
          BY <5>2 DEF ServingType
        <5>5. QED
          BY <5>1, <5>3, <5>4
      <4>2. QED
        BY <3>1, <4>1 DEF Current
    <3>2. CASE serving' # Idle
      <4>1. work' = w
        BY <3>2 DEF Serve, ServeRequest, ServePublish, Fail, Rest
      <4>2. QED
        BY <3>2, <4>1 DEF Current
    <3>3. QED
      BY <3>1, <3>2
  <2>5. /\ Len(handled') = Len(handled) + 1 /\ DOMAIN handled' = 1..(Len(handled) + 1)
        /\ \A k \in 1..Len(handled) : handled'[k] = handled[k]
        /\ handled'[Len(handled) + 1] = f
    BY <2>3
  <2>6. PrefixInv'
    <3>1. SUFFICES ASSUME clean
                   PROVE  /\ Len(handled') <= Len(emitted)
                          /\ \A k \in DOMAIN handled' : handled'[k] = emitted[k]
      BY <2>1 DEF PrefixInv
    <3>2. Len(handled) + 1 <= Len(emitted) /\ f = emitted[Len(handled) + 1]
      BY <3>1
    <3>3. \A k \in 1..Len(handled) : handled[k] = emitted[k]
      BY <3>1 DEF FifoInv, PrefixInv
    <3>4. ASSUME NEW k \in 1..(Len(handled) + 1) PROVE handled'[k] = emitted[k]
      <4> DEFINE l == Len(handled)
      <4>1. l \in Nat /\ k \in 1..(l + 1)
        BY StreamTypes
      <4> HIDE DEF l
      <4>2. k \in 1..l \/ k = l + 1
        BY <4>1
      <4>3. QED
        BY <2>5, <3>2, <3>3, <4>2 DEF l
    <3>5. QED
      BY <2>5, <3>2, <3>4
  <2>7. StreamInv'
    <3>1. w.buffer \in Seq(Piece)
      BY DEF ClientType
    <3>2. w.buffer \o <<>> = w.buffer
      BY <3>1, ConcatEmptySeq
    <3>3. clean' /\ alive' =>
            Stream(emitted', Len(handled'), Current'.queue, Current'.buffer \o reading', mailbox', wire')
      BY <2>1, <2>4, <2>5, <3>2
    <3>4. QED
      BY <3>3 DEF StreamInv
  <2>8. QED
    BY <2>2, <2>6, <2>7 DEF FifoInv
<1>3. QED
  BY <1>1, <1>2

\* Steps that post to the mailbox or leave it alone.
LEMMA ClientFifo ==
  ASSUME ProcInv, ProcInv', FifoInv, NEW c \in Clients,
         (\E m \in Methods : Call(c, m)) \/ Install(c) \/ CallRename(c) \/ GiveUp(c) \/ Cancel(c)
  PROVE  FifoInv'
<1>1. UNCHANGED <<procVars, serverVars>>
  BY DEF Call, Install, CallRename, GiveUp, Cancel
<1>2. UNCHANGED <<alive, client, serving, work, reading, cache, handled, clean, wire, emitted>>
  BY <1>1 DEF procVars, serverVars
<1>3. SameHeld /\ ReadingInv'
  BY <1>2, SameReads DEF SameHeld, Current
<1>4. mailbox' = mailbox \/ \E m : m.tag # "data" /\ mailbox' = Append(mailbox, m)
  <2>1. \A t, m : CallMessage(c, m, t).tag # "data"
    BY DEF CallMessage
  <2>2. \A t : [tag |-> "handler", ticket |-> t].tag # "data" /\ [tag |-> "cancel", ticket |-> t].tag # "data"
    OBVIOUS
  <2>3. CASE \E m \in Methods : Call(c, m)
    BY <2>1, <2>3 DEF Call, Post
  <2>4. CASE Install(c)
    BY <2>2, <2>4 DEF Install, Post
  <2>5. CASE CallRename(c)
    BY <2>1, <2>5 DEF CallRename, Post
  <2>6. CASE GiveUp(c)
    BY <2>6 DEF GiveUp
  <2>7. CASE Cancel(c)
    BY <2>2, <2>7 DEF Cancel, Post
  <2>8. QED
    BY <2>3, <2>4, <2>5, <2>6, <2>7
<1>5. QED
  BY <1>3, <1>4, HeldKept, HeldPosted

\* The actor takes a message that is not a read.
LEMMA TakeFifo ==
  ASSUME ProcInv, FifoInv, TakeRequest \/ TakePublish \/ TakeHandler \/ TakeCancel \/ TakeExit
  PROVE  FifoInv'
<1>1. \E tag : Takes(tag) /\ tag # "data"
  BY DEF TakeRequest, TakePublish, TakeHandler, TakeCancel, TakeExit
<1>2. /\ serving = Idle
      /\ 1 \in 1..Len(mailbox) /\ mailbox[1].tag # "data" /\ mailbox' = RemoveAt(mailbox, 1)
  BY <1>1, HeadTaken
<1>3. UNCHANGED <<alive, reading, handled, clean, wire, emitted>>
  BY DEF TakeRequest, TakePublish, TakeHandler, TakeCancel, TakeExit, procVars, serverVars
<1>4. reading' = <<>> /\ ReadingInv'
  BY <1>2, <1>3 DEF FifoInv, ReadingInv
<1>5. client'.queue = client.queue /\ client'.buffer = client.buffer
  <2>1. client' = client \/ client' = [client EXCEPT !.capture = mailbox[Turn].ticket]
    BY DEF TakeRequest, TakePublish, TakeHandler, TakeCancel, TakeExit, procVars
  <2>2. client \in ClientType
    BY World DEF LoopTypes
  <2>3. QED
    BY <2>1, <2>2 DEF ClientType
<1>6. serving' = serving \/ (work' = client /\ client' = client)
  BY DEF TakeRequest, TakePublish, TakeHandler, TakeCancel, TakeExit, procVars
<1>7. SameHeld
  <2>1. Current = client
    BY <1>2 DEF Current
  <2>2. Current'.queue = client.queue /\ Current'.buffer = client.buffer
    BY <1>2, <1>5, <1>6 DEF Current
  <2>3. QED
    BY <1>3, <2>1, <2>2 DEF SameHeld
<1>8. \A i \in 1..Len(mailbox) : i < 1 => mailbox[i].tag # "data"
  OBVIOUS
<1>9. QED
  BY <1>2, <1>4, <1>7, <1>8, HeldSkipped

\* Between handlers a read is parsed and all of its frames are dispatched.
LEMMA TakeDataFifo ==
  ASSUME ProcInv, FifoInv, TakeData
  PROVE  FifoInv'
<1> USE StreamTypes
<1> DEFINE chunk == mailbox[1].pieces
           s == client.buffer \o chunk
           fs == client.queue \o Complete(s)
           h == Len(handled)
<1>1. /\ Takes("data")
      /\ client' = [client EXCEPT !.buffer = Leftover(s), !.queue = <<>>]
      /\ handled' = handled \o fs
      /\ UNCHANGED <<callVars, alive, serving, work, reading, inflight, clean, serverVars>>
  BY DEF TakeData, Turn, Dispatch
<1>2. /\ serving = Idle /\ alive /\ 1 \in 1..Len(mailbox) /\ mailbox[1] \in Message
      /\ mailbox[1].tag = "data" /\ mailbox' = RemoveAt(mailbox, 1)
  BY <1>1, HeadTaken
<1>3. chunk \in Seq(Piece)
  BY <1>2, Messages
<1>4. s \in Seq(Piece)
  BY <1>3, ConcatProperties
<1>5. Complete(s) \in Seq(Frame) /\ Leftover(s) \in Seq(Piece)
  BY <1>4, CompleteType, LeftoverType
<1>6. fs \in Seq(Frame)
  BY <1>5, ConcatProperties
<1>7. reading = <<>> /\ Current = client
  BY <1>2 DEF FifoInv, ReadingInv, Current
<1>8. client.buffer \o reading = client.buffer
  BY <1>7, ConcatEmptySeq
<1>9. /\ client'.buffer = Leftover(s) /\ client'.queue = <<>>
      /\ UNCHANGED <<emitted, wire, alive, clean, reading, serving>>
  <2>1. client \in ClientType
    BY World DEF LoopTypes
  <2>2. QED
    BY <1>1, <2>1 DEF ClientType, serverVars
<1>10. Current' = client' /\ reading' = <<>> /\ ReadingInv'
  BY <1>2, <1>7, <1>9 DEF Current, ReadingInv
<1>11. ASSUME clean
       PROVE  /\ Queued(emitted, h, fs)
              /\ Stream(emitted, h + Len(fs), <<>>, Leftover(s), mailbox', wire)
  <2>1. Stream(emitted, h, client.queue, client.buffer, mailbox, wire)
    BY <1>2, <1>7, <1>8, <1>11 DEF FifoInv, StreamInv
  <2>2. \A i \in 1..Len(mailbox) : i < 1 => mailbox[i].tag # "data"
    OBVIOUS
  <2>3. Stream(emitted, h, client.queue, s, mailbox', wire)
    BY <1>2, <1>3, <2>1, <2>2, StreamRead
  <2> HIDE DEF s, fs, h
  <2>4. Stream(emitted, h, client.queue \o Complete(s), Leftover(s), mailbox', wire)
    BY <1>4, <2>3, StreamParse DEF h
  <2>5. Stream(emitted, h, fs, Leftover(s), mailbox', wire)
    BY <2>4 DEF fs
  <2>6. Stream(emitted, h + Len(fs), <<>>, Leftover(s), mailbox', wire)
    BY <1>6, <2>5, StreamDrain DEF h
  <2>7. QED
    BY <2>5, <2>6 DEF Stream
<1> HIDE DEF s, fs, h
<1>12. /\ Len(handled') = h + Len(fs) /\ Len(fs) \in Nat /\ h \in Nat
       /\ DOMAIN handled' = 1..(h + Len(fs)) /\ DOMAIN fs = 1..Len(fs)
       /\ \A k \in 1..h : handled'[k] = handled[k]
       /\ \A k \in 1..Len(fs) : handled'[h + k] = fs[k]
  <2>1. handled' = handled \o fs /\ handled \in Seq(Frame)
    BY <1>1 DEF fs
  <2>2. /\ Len(handled \o fs) = Len(handled) + Len(fs) /\ Len(handled) \in Nat /\ Len(fs) \in Nat
        /\ DOMAIN (handled \o fs) = 1..(Len(handled) + Len(fs)) /\ DOMAIN fs = 1..Len(fs)
        /\ \A k \in 1..Len(handled) : (handled \o fs)[k] = handled[k]
        /\ \A k \in 1..Len(fs) : (handled \o fs)[Len(handled) + k] = fs[k]
    BY ONLY <1>6, <2>1, Concatenated
  <2>3. QED
    BY ONLY <2>1, <2>2 DEF h
<1>13. PrefixInv'
  <2>1. SUFFICES ASSUME clean
                 PROVE  /\ Len(handled') <= Len(emitted)
                        /\ \A k \in DOMAIN handled' : handled'[k] = emitted[k]
    BY <1>9 DEF PrefixInv
  <2>2. Queued(emitted, h, fs)
    BY <1>11, <2>1
  <2>3. \A k \in 1..h : handled[k] = emitted[k]
    BY <2>1 DEF FifoInv, PrefixInv, h
  <2>4. ASSUME NEW k \in 1..(h + Len(fs)) PROVE handled'[k] = emitted[k]
    <3>1. CASE k <= h
      <4>1. k \in 1..h
        BY <1>12, <3>1
      <4>2. QED
        BY <1>12, <2>3, <4>1
    <3>2. CASE ~(k <= h)
      <4> DEFINE j == k - h
      <4>1. j \in 1..Len(fs) /\ h + j = k
        BY <1>12, <3>2
      <4> HIDE DEF j
      <4>2. handled'[h + j] = fs[j] /\ fs[j] = emitted[h + j]
        BY <1>12, <2>2, <4>1 DEF Queued
      <4>3. QED
        BY <4>1, <4>2
    <3>3. QED
      BY <3>1, <3>2
  <2>5. QED
    BY <1>12, <2>2, <2>4 DEF Queued
<1>14. StreamInv'
  <2>1. Leftover(s) \o <<>> = Leftover(s)
    BY <1>5, ConcatEmptySeq
  <2>2. clean' /\ alive' =>
          Stream(emitted', Len(handled'), Current'.queue, Current'.buffer \o reading', mailbox', wire')
    BY <1>9, <1>10, <1>11, <1>12, <2>1
  <2>3. QED
    BY <2>2 DEF StreamInv
<1>15. QED
  BY <1>10, <1>13, <1>14 DEF FifoInv

\* A publish drain that is done hands its client over.
LEMMA EndPublishFifo ==
  ASSUME ProcInv, FifoInv, EndPublish
  PROVE  FifoInv'
<1>1. /\ client' = work /\ Rest /\ PublishDone /\ serving.job = "publish"
      /\ UNCHANGED <<mailbox, alive, handled, clean, serverVars>>
  BY DEF EndPublish, PublishDone
<1>2. serving # Idle /\ serving' = Idle /\ reading' = <<>> /\ reading = <<>>
  BY <1>1, IdleFields DEF Rest, FifoInv, ReadingInv
<1>3. Current = work /\ Current' = work
  BY <1>1, <1>2 DEF Current
<1>4. SameHeld
  BY <1>1, <1>2, <1>3 DEF SameHeld, serverVars
<1>5. QED
  BY <1>1, <1>4, RestReads, HeldKept

\* A receive loop takes the next frame of its queue.
LEMMA ServeQueuedFifo ==
  ASSUME ProcInv, FifoInv, ServeQueued
  PROVE  FifoInv'
<1> USE StreamTypes
<1> DEFINE w == [work EXCEPT !.queue = Tail(@)]
           f == Head(work.queue)
<1>1. /\ alive /\ serving # Idle /\ work.queue # <<>> /\ Serve(f, w)
      /\ UNCHANGED <<issued, mailbox, alive, serverVars>>
  BY DEF ServeQueued, Looping
<1>2. f \in Frame /\ Tail(work.queue) \in Seq(Frame)
  BY <1>1, HeadTailProperties
<1>3. w \in ClientType /\ w.queue = Tail(work.queue) /\ w.buffer = work.buffer
  BY <1>2, World DEF LoopTypes, ClientType
<1>4. work.buffer \o reading = work.buffer
  <2>1. reading = <<>>
    BY <1>1 DEF FifoInv, ReadingInv
  <2>2. QED
    BY <2>1, ConcatEmptySeq
<1>5. clean /\ alive =>
        /\ Len(handled) + 1 <= Len(emitted) /\ f = emitted[Len(handled) + 1]
        /\ Stream(emitted, Len(handled) + 1, Tail(work.queue), work.buffer, mailbox, wire)
  <2>1. clean /\ alive => Stream(emitted, Len(handled), work.queue, work.buffer, mailbox, wire)
    BY <1>1, <1>4 DEF FifoInv, StreamInv, Current
  <2>2. QED
    BY <1>1, <2>1, StreamHandle
<1> HIDE DEF w, f
<1>6. QED
  BY <1>1, <1>2, <1>3, <1>5, ServeKeeps DEF serverVars

\* Bytes put together in either order are the same bytes.
LEMMA Regroup ==
  ASSUME NEW a \in Seq(Piece), NEW b \in Seq(Piece), NEW c \in Seq(Piece)
  PROVE  a \o (b \o c) = (a \o b) \o c
BY ConcatAssociative

\* A receive loop reads: its parser makes out a frame, goes on reading, or
\* finds the bytes malformed.
LEMMA ServeDataFifo ==
  ASSUME ProcInv, FifoInv, ServeData
  PROVE  FifoInv'
<1> USE StreamTypes
<1> DEFINE chunk == mailbox[FirstPort].pieces
           r == work.buffer \o reading
           s == r \o chunk
           w == [work EXCEPT !.buffer = Leftover(s), !.queue = Tail(Complete(s))]
           f == Head(Complete(s))
<1>1. /\ Receives("data")
      /\ \/ /\ Complete(s) # <<>>
            /\ Serve(f, w)
         \/ /\ reading' = reading \o chunk
            /\ serving' = [serving EXCEPT !.silence = 0]
            /\ UNCHANGED <<calls, client, work, inflight, cache, edits, handled, clean>>
         \/ /\ Fail
            /\ UNCHANGED handled
      /\ UNCHANGED <<issued, alive, serverVars>>
  BY DEF ServeData
<1>2. /\ alive /\ serving # Idle /\ ~PublishDone /\ work.queue = <<>>
      /\ FirstPort \in 1..Len(mailbox) /\ mailbox[FirstPort] \in Message
      /\ mailbox[FirstPort].tag = "data"
      /\ \A i \in 1..Len(mailbox) : i < FirstPort => mailbox[i].tag # "data"
      /\ mailbox' = RemoveAt(mailbox, FirstPort)
  BY <1>1, PortTaken DEF Looping
<1>3. chunk \in Seq(Piece) /\ r \in Seq(Piece)
  BY <1>2, Messages, ConcatProperties
<1>4. s \in Seq(Piece)
  BY <1>3, ConcatProperties
<1>5. Complete(s) \in Seq(Frame) /\ Leftover(s) \in Seq(Piece)
  BY <1>4, CompleteType, LeftoverType
<1>6. UNCHANGED <<emitted, wire, alive>>
  BY <1>1 DEF serverVars
<1>7. ASSUME clean PROVE Stream(emitted, Len(handled), work.queue, s, mailbox', wire)
  <2>1. Stream(emitted, Len(handled), work.queue, r, mailbox, wire)
    BY <1>2, <1>7 DEF FifoInv, StreamInv, Current
  <2> HIDE DEF r
  <2>2. QED
    BY <1>2, <1>3, <2>1, StreamRead
<1>8. ASSUME Complete(s) # <<>>, Serve(f, w) PROVE FifoInv'
  <2>1. f \in Frame /\ Tail(Complete(s)) \in Seq(Frame)
    BY <1>5, <1>8, HeadTailProperties
  <2>2. w \in ClientType /\ w.queue = Tail(Complete(s)) /\ w.buffer = Leftover(s)
    BY <1>5, <2>1, World DEF LoopTypes, ClientType
  <2>3. ASSUME clean
        PROVE  /\ Len(handled) + 1 <= Len(emitted) /\ f = emitted[Len(handled) + 1]
               /\ Stream(emitted, Len(handled) + 1, Tail(Complete(s)), Leftover(s), mailbox', wire)
    <3> HIDE DEF s
    <3>1. Stream(emitted, Len(handled), work.queue \o Complete(s), Leftover(s), mailbox', wire)
      BY <1>4, <1>7, <2>3, StreamParse
    <3>2. work.queue \o Complete(s) = Complete(s)
      BY <1>2, <1>5, ConcatEmptySeq
    <3>3. Stream(emitted, Len(handled), Complete(s), Leftover(s), mailbox', wire)
      BY <3>1, <3>2
    <3>4. QED
      BY <1>5, <1>8, <3>3, StreamHandle
  <2> HIDE DEF w, f, s
  <2>4. QED
    BY <1>2, <1>6, <1>8, <2>1, <2>2, <2>3, ServeKeeps
<1>9. ASSUME reading' = reading \o chunk, serving' = [serving EXCEPT !.silence = 0],
             UNCHANGED <<calls, client, work, inflight, cache, edits, handled, clean>>
      PROVE  FifoInv'
  <2>1. serving \in ServingType /\ serving.job # "none"
    BY <1>2, World DEF LoopTypes, ProcInv, TicketsInv
  <2>2. /\ serving'.job = serving.job /\ serving'.left = serving.left /\ serving'.found = serving.found
        /\ serving' # Idle
    BY <1>9, <2>1, IdleFields DEF ServingType
  <2>3. ~PublishDone'
    BY <1>2, <1>9, <2>2 DEF PublishDone
  <2>4. ReadingInv'
    BY <1>2, <1>9, <2>2, <2>3 DEF ReadingInv
  <2>5. work.buffer \o reading' = s
    <3> DEFINE b == work.buffer
    <3>1. reading \in Seq(Piece) /\ b \in Seq(Piece) /\ chunk \in Seq(Piece)
      BY <1>3
    <3>2. reading' = reading \o chunk /\ s = (b \o reading) \o chunk
      BY <1>9
    <3> HIDE DEF s, chunk, b
    <3>3. b \o (reading \o chunk) = (b \o reading) \o chunk
      <4>1. \A x, y, z \in Seq(Piece) : x \o (y \o z) = (x \o y) \o z
        BY Regroup
      <4>2. QED
        BY ONLY <3>1, <4>1, Zenon
    <3>4. QED
      BY <3>2, <3>3 DEF b
  <2>6. Current' = work
    BY <1>9, <2>2 DEF Current
  <2>7. clean /\ alive => Stream(emitted, Len(handled), Current'.queue, Current'.buffer \o reading',
                                 mailbox', wire')
    BY <1>6, <1>7, <2>5, <2>6
  <2>8. QED
    BY <1>6, <1>9, <2>4, <2>7, StreamMoves
<1>10. ASSUME Fail PROVE FifoInv'
  BY <1>10, RestReads, NotClean DEF Fail
<1>11. QED
  BY <1>1, <1>8, <1>9, <1>10

\* A receive loop that gets no read.
LEMMA UnreceivedFifo ==
  ASSUME Unreceived
  PROVE  FifoInv'
<1>1. CASE Fail
  BY <1>1, RestReads, NotClean DEF Fail
<1>2. CASE PassStep
  <2>1. reading' = <<>> /\ clean' = FALSE
    BY <1>2 DEF PassStep
  <2>2. QED
    BY <2>1, NotClean DEF ReadingInv
<1>3. QED
  BY <1>1, <1>2 DEF Unreceived

LEMMA TerminateFifo ==
  ASSUME FifoInv, Terminate
  PROVE  FifoInv'
<1>1. ~alive' /\ Rest /\ UNCHANGED <<handled, clean, emitted>>
  BY DEF Terminate
<1>2. QED
  BY <1>1, RestReads DEF FifoInv, PrefixInv, StreamInv

\* The server and its pipe.
LEMMA SendFifo ==
  ASSUME ProcInv, FifoInv, NEW f \in Frame, f.n = Len(emitted) + 1, Send(f),
         UNCHANGED <<mailbox, procVars>>
  PROVE  FifoInv'
<1> USE StreamTypes
<1>1. UNCHANGED <<mailbox, alive, client, serving, work, reading, cache, handled, clean>>
  BY DEF procVars
<1>2. ReadingInv' /\ Current' = Current
  BY <1>1, SameReads DEF Current
<1>3. /\ emitted' = Append(emitted, f)
      /\ \E t : /\ \/ t = <<[part |-> "whole", frame |-> f]>>
                   \/ t = <<[part |-> "head", frame |-> f], [part |-> "tail", frame |-> f]>>
                /\ wire' = wire \o t
  <2> DEFINE p == [part |-> "whole", frame |-> f]
             hd == <<[part |-> "head", frame |-> f], [part |-> "tail", frame |-> f]>>
  <2>1. p \in Piece
    BY DEF Piece
  <2>2. Append(wire, p) = wire \o <<p>>
    <3> HIDE DEF p
    <3>1. QED
      BY <2>1
  <2>3. emitted' = Append(emitted, f) /\ (wire' = Append(wire, p) \/ wire' = wire \o hd)
    BY DEF Send
  <2> HIDE DEF p, hd
  <2>4. emitted' = Append(emitted, f) /\ \E t : (t = <<p>> \/ t = hd) /\ wire' = wire \o t
    BY <2>2, <2>3
  <2>5. QED
    BY <2>4 DEF p, hd
<1>4. PrefixInv'
  <2>1. SUFFICES ASSUME clean
                 PROVE  /\ Len(handled) <= Len(emitted')
                        /\ \A k \in DOMAIN handled : handled[k] = emitted'[k]
    BY <1>1 DEF PrefixInv
  <2>2. /\ Len(emitted') = Len(emitted) + 1 /\ Len(emitted) \in Nat /\ DOMAIN handled = 1..Len(handled)
        /\ \A k \in 1..Len(emitted) : emitted'[k] = emitted[k]
    BY <1>3
  <2>3. Len(handled) <= Len(emitted) /\ \A k \in DOMAIN handled : handled[k] = emitted[k]
    BY <2>1 DEF FifoInv, PrefixInv
  <2>4. ASSUME NEW k \in DOMAIN handled PROVE handled[k] = emitted'[k]
    <3> DEFINE l == Len(emitted)
               h == Len(handled)
    <3>1. l \in Nat /\ h \in Nat /\ h <= l /\ k \in 1..h
      BY <2>2, <2>3
    <3> HIDE DEF l, h
    <3>2. k \in 1..l
      BY <3>1
    <3>3. QED
      BY <2>2, <2>3, <3>2 DEF l
  <2>5. Len(handled) <= Len(emitted')
    <3> DEFINE l == Len(emitted)
               h == Len(handled)
    <3>1. l \in Nat /\ h \in Nat /\ h <= l /\ Len(emitted') = l + 1
      BY <2>2, <2>3
    <3> HIDE DEF l, h
    <3>2. h <= l + 1
      BY <3>1
    <3>3. QED
      BY <3>1, <3>2 DEF h
  <2>6. QED
    BY <2>4, <2>5
<1>5. clean /\ alive =>
        Stream(emitted', Len(handled), Current.queue, Current.buffer \o reading, mailbox, wire')
  <2>1. SUFFICES ASSUME clean, alive
                 PROVE  Stream(emitted', Len(handled), Current.queue, Current.buffer \o reading, mailbox, wire')
    OBVIOUS
  <2>2. Stream(emitted, Len(handled), Current.queue, Current.buffer \o reading, mailbox, wire)
    BY <2>1 DEF FifoInv, StreamInv
  <2>3. PICK t : /\ \/ t = <<[part |-> "whole", frame |-> f]>>
                    \/ t = <<[part |-> "head", frame |-> f], [part |-> "tail", frame |-> f]>>
                 /\ wire' = wire \o t
    BY <1>3
  <2>4. Stream(Append(emitted, f), Len(handled), Current.queue, Current.buffer \o reading, mailbox, wire \o t)
    BY <2>2, <2>3, StreamSend
  <2>5. QED
    BY <1>3, <2>3, <2>4
<1>6. StreamInv'
  BY <1>1, <1>2, <1>5 DEF StreamInv
<1>7. QED
  BY <1>2, <1>4, <1>6 DEF FifoInv

LEMMA ServerFifo ==
  ASSUME ProcInv, FifoInv, ServerStep
  PROVE  FifoInv'
<1> DEFINE frame(kind, t) == [kind |-> kind, ticket |-> t, n |-> Len(emitted) + 1]
<1>1. ASSUME NEW kind \in {"response", "error", "publish", "configuration", "applyEdit"},
             NEW t \in 0..MaxCalls, Len(emitted) < MaxFrames, Send(frame(kind, t)),
             UNCHANGED <<mailbox, procVars>>
      PROVE  FifoInv'
  <2>1. frame(kind, t) \in Frame /\ frame(kind, t).n = Len(emitted) + 1
    BY <1>1, FrameTypes
  <2> HIDE DEF frame
  <2>2. QED
    BY <1>1, <2>1, SendFifo
<1>2. ASSUME NEW r \in owed PROVE r.ticket \in 0..MaxCalls
  BY World DEF WorldTypes, Tickets
<1>3. ASSUME NEW r \in owed, Answer(r) PROVE FifoInv'
  <2>1. PICK kind \in {"response", "error"} : Send(frame(kind, r.ticket))
    BY <1>3 DEF Answer
  <2>2. Len(emitted) < MaxFrames /\ UNCHANGED <<mailbox, procVars>>
    BY <1>3 DEF Answer
  <2> HIDE DEF frame
  <2>3. QED
    BY <1>1, <1>2, <2>1, <2>2
<1>4. ASSUME NEW r \in owed, AskToApply(r) PROVE FifoInv'
  <2>1. Send(frame("applyEdit", r.ticket)) /\ Len(emitted) < MaxFrames /\ UNCHANGED <<mailbox, procVars>>
    BY <1>4 DEF AskToApply
  <2> HIDE DEF frame
  <2>2. QED
    BY <1>1, <1>2, <2>1
<1>5. ASSUME NEW kind \in Chatter, Chat(kind) PROVE FifoInv'
  <2>1. kind \in {"response", "error", "publish", "configuration", "applyEdit"} /\ 0 \in 0..MaxCalls
    BY ConstantsAssumption
  <2>2. Send(frame(kind, 0)) /\ Len(emitted) < MaxFrames /\ UNCHANGED <<mailbox, procVars>>
    BY <1>5 DEF Chat
  <2> HIDE DEF frame
  <2>3. QED
    BY <1>1, <2>1, <2>2
<1>6. ASSUME ServerExits PROVE FifoInv'
  <2>1. UNCHANGED <<mailbox, wire, emitted, alive, client, serving, work, reading, cache, handled, clean>>
    BY <1>6 DEF ServerExits, procVars
  <2>2. SameHeld /\ ReadingInv'
    BY <2>1, SameReads DEF SameHeld, Current
  <2>3. QED
    BY <2>1, <2>2, HeldKept
<1>7. QED
  BY <1>3, <1>4, <1>5, <1>6 DEF ServerStep

LEMMA PipeFifo ==
  ASSUME ProcInv, ProcInv', FifoInv, PipeStep
  PROVE  FifoInv'
<1> USE StreamTypes
<1>1. ASSUME NEW n \in 1..Len(wire), Deliver(n) PROVE FifoInv'
  <2> DEFINE m == [tag |-> "data", pieces |-> SubSeq(wire, 1, n)]
  <2>1. /\ mailbox' = Append(mailbox, m) /\ wire' = SubSeq(wire, n + 1, Len(wire))
        /\ UNCHANGED <<emitted, alive, client, serving, work, reading, cache, handled, clean>>
    BY <1>1 DEF Deliver, procVars
  <2>2. ReadingInv' /\ Current' = Current
    BY <2>1, SameReads DEF Current
  <2>3. m \in Message /\ m.tag = "data" /\ m.pieces = SubSeq(wire, 1, n)
    <3>1. SubSeq(wire, 1, n) \in Seq(Piece)
      OBVIOUS
    <3>2. QED
      BY <3>1, MessageTypes
  <2> HIDE DEF m
  <2>4. ASSUME clean, alive
        PROVE  Stream(emitted, Len(handled), Current.queue, Current.buffer \o reading, mailbox', wire')
    <3>1. Stream(emitted, Len(handled), Current.queue, Current.buffer \o reading, mailbox, wire)
      BY <2>4 DEF FifoInv, StreamInv
    <3>2. QED
      BY <2>1, <2>3, <3>1, StreamDeliver
  <2>5. QED
    BY <2>1, <2>2, <2>4, StreamMoves
<1>2. ASSUME PortCloses PROVE FifoInv'
  <2>1. /\ mailbox' = Append(mailbox, [tag |-> "exit"])
        /\ UNCHANGED <<wire, emitted, alive, client, serving, work, reading, cache, handled, clean>>
    BY <1>2 DEF PortCloses, procVars
  <2>2. SameHeld /\ ReadingInv'
    BY <2>1, SameReads DEF SameHeld, Current
  <2>3. [tag |-> "exit"].tag # "data"
    OBVIOUS
  <2>4. QED
    BY <2>1, <2>2, <2>3, HeldPosted
<1>3. QED
  BY <1>1, <1>2 DEF PipeStep

LEMMA TickFifo ==
  ASSUME ProcInv, FifoInv, Tick
  PROVE  FifoInv'
<1>1. UNCHANGED <<mailbox, wire, emitted, alive, client, work, reading, cache, handled, clean>>
  BY DEF Tick, serverVars
<1>2. /\ serving'.job = serving.job /\ serving'.left = serving.left /\ serving'.found = serving.found
      /\ serving' = Idle <=> serving = Idle
  <2>1. CASE serving = Idle
    BY <2>1 DEF Tick
  <2>2. CASE serving # Idle
    <3>1. serving \in ServingType /\ serving.job # "none"
      BY <2>2, World DEF LoopTypes, ProcInv, TicketsInv
    <3> DEFINE silence == IF serving.silence < Budget THEN serving.silence + 1 ELSE serving.silence
    <3>2. serving' = [serving EXCEPT !.silence = silence]
      BY <2>2 DEF Tick
    <3> HIDE DEF silence
    <3>3. QED
      BY <2>2, <3>1, <3>2, IdleFields DEF ServingType
  <2>3. QED
    BY <2>1, <2>2
<1>3. SameHeld /\ ReadingInv'
  BY <1>1, <1>2 DEF SameHeld, Current, FifoInv, ReadingInv, PublishDone
<1>4. QED
  BY <1>1, <1>3, HeldKept

LEMMA FifoInit == Init => FifoInv
<1>1. SUFFICES ASSUME Init PROVE FifoInv
  OBVIOUS
<1>2. /\ mailbox = <<>> /\ wire = <<>> /\ emitted = <<>> /\ handled = <<>> /\ reading = <<>>
      /\ serving = Idle /\ client.queue = <<>> /\ client.buffer = <<>>
  BY <1>1 DEF Init, Fresh
<1>3. Len(<<>>) = 0 /\ DOMAIN <<>> = {}
  BY EmptySeq
<1>4. ReadingInv /\ PrefixInv
  BY <1>2, <1>3 DEF ReadingInv, PrefixInv
<1>5. Current.queue = <<>> /\ Current.buffer \o reading = <<>>
  BY <1>2, ConcatEmptySeq, EmptySeq DEF Current
<1>6. Linked(<<>>, <<>>, 0, 0)
  <2> DEFINE mark == [i \in 0..0 |-> 0]
  <2>1. mark \in [0..Len(<<>>) -> Nat] /\ mark[0] = 0 /\ mark[Len(<<>>)] = 0
    BY <1>3
  <2>2. Chained(<<>>, <<>>, mark)
    BY <1>3 DEF Chained
  <2> HIDE DEF mark
  <2>3. QED
    BY <2>1, <2>2 DEF Linked
<1>7. Spans(<<>>, <<>>, 0, 0)
  BY SpansEmpty
<1>8. Queued(<<>>, 0, <<>>)
  BY <1>3 DEF Queued
<1>9. Stream(<<>>, 0, <<>>, <<>>, <<>>, <<>>)
  <2>1. 2 * (0 + Len(<<>>)) = 0 /\ 2 * Len(<<>>) = 0
    BY <1>3
  <2>2. QED
    BY <1>6, <1>7, <1>8, <2>1 DEF Stream
<1>10. StreamInv
  BY <1>2, <1>3, <1>5, <1>9 DEF StreamInv
<1>11. QED
  BY <1>4, <1>10 DEF FifoInv

LEMMA FifoStep == ProcInv /\ FifoInv /\ [Next]_vars => FifoInv'
<1> SUFFICES ASSUME ProcInv, FifoInv, [Next]_vars PROVE FifoInv'
  OBVIOUS
<1>0. ProcInv'
  BY ProcStep
<1>1. CASE \E c \in Clients :
             (\E m \in Methods : Call(c, m)) \/ Install(c) \/ CallRename(c) \/ GiveUp(c) \/ Cancel(c)
  BY <1>0, <1>1, ClientFifo
<1>2. CASE TakeMessage
  BY <1>2, TakeFifo, TakeDataFifo DEF TakeMessage
<1>3. CASE Loop
  BY <1>3, EndPublishFifo, ServeQueuedFifo, ServeDataFifo, UnreceivedFifo DEF Loop, ServeExit, ServeTimeout
<1>4. CASE Terminate \/ ServerStep \/ PipeStep \/ Tick
  BY <1>0, <1>4, TerminateFifo, ServerFifo, PipeFifo, TickFifo
<1>5. CASE UNCHANGED vars
  <2>1. UNCHANGED <<mailbox, wire, emitted, alive, client, serving, work, reading, cache, handled, clean>>
    BY <1>5 DEF vars, procVars, serverVars
  <2>2. SameHeld /\ ReadingInv'
    BY <2>1, SameReads DEF SameHeld, Current
  <2>3. QED
    BY <2>1, <2>2, HeldKept
<1>6. QED
  BY <1>1, <1>2, <1>3, <1>4, <1>5 DEF Next

\* Until a call fails every frame the server sent is dispatched exactly once and
\* in order, however reads split and coalesce them.
THEOREM FramesInOrder == Spec => []HandledInOrder
<1>1. ProcInv /\ FifoInv => HandledInOrder
  <2>1. SUFFICES ASSUME ProcInv, FifoInv, clean PROVE IsPrefix(handled, emitted)
    BY DEF HandledInOrder
  <2>2. /\ Len(handled) <= Len(emitted)
        /\ \A k \in DOMAIN handled : handled[k] = emitted[k]
    BY <2>1 DEF FifoInv, PrefixInv
  <2>3. handled \in Seq(Frame) /\ emitted \in Seq(Frame)
    BY <2>1, StreamTypes
  <2>4. SubSeq(handled, 1, Len(handled)) = SubSeq(emitted, 1, Len(handled))
    BY <2>2, <2>3
  <2>5. QED
    BY <2>2, <2>4 DEF IsPrefix
<1>2. Spec => []FifoInv
  BY ProcAlways, FifoInit, FifoStep, PTL DEF Spec
<1>3. QED
  BY <1>1, <1>2, ProcAlways, PTL
=============================================================================
