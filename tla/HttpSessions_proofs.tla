------------------------ MODULE HttpSessions_proofs ------------------------
(***************************************************************************)
(* Invariants of the HTTP sessions, for every number of clients, streams   *)
(* and sessions, every timeout and interval and every choice of faults.    *)
(***************************************************************************)
EXTENDS HttpSessions, FiniteSetTheorems, TLAPS

USE ConstantsAssumption

-----------------------------------------------------------------------------
(* What the table finds in its mailbox: every message of somebody who waits *)
(* for its answer, and one of each.                                         *)

Asks == {"issue", "validate", "attach"}

Awaited(m) ==
  /\ m.tag = "issue" => post[m.from] = "issuing"
  /\ m.tag = "validate" => IF m.from \in Clients THEN post[m.from] = "validating"
                           ELSE stream[m.from].phase = "validating"
  /\ m.tag = "attach" => stream[m.from].phase = "attaching" /\ stream[m.from].id = m.id

AllAwaited == \A n \in DOMAIN mailbox : Awaited(mailbox[n])
OneAsk ==
  \A m, n \in DOMAIN mailbox :
    mailbox[m].tag \in Asks /\ mailbox[n].tag \in Asks /\ mailbox[m].from = mailbox[n].from
      => m = n

\* What the bound on sessions stands for in PostInitialize.
Issuing == {c \in Clients : post[c] = "issuing"}
Room == issued + Cardinality(Issuing) <= MaxSessions

\* A stream that has begun names a session.
Named == \A s \in Streams : stream[s].phase # "none" => stream[s].id \in Sids

\* The table points at streams of that session that have attached.
SseMatch ==
  \A i \in Sids : sse[i] # NoStream =>
    i \in known /\ stream[sse[i]].id = i /\ stream[sse[i]].phase \in {"up", "closed"}

\* The table that the listener does not know is never called.
Unheld == ~held => known = {} /\ mailbox = <<>>

\* A timer that is set has used up some of the interval.
TimerRuns == timer.left # 0 => timer.left + timer.stamp = Interval

IInv == TypeOK /\ AllAwaited /\ OneAsk /\ Room /\ Named /\ SseMatch /\ Unheld /\ TimerRuns

LEMMA MessageFields ==
  ASSUME NEW m \in Messages
  PROVE  /\ m.tag \in Asks \cup {"detach", "evict"}
         /\ m.tag = "issue" => m.from \in Clients
         /\ m.tag = "validate" => m.from \in Clients \cup Streams /\ m.id \in Sids
         /\ m.tag \in {"attach", "detach"} => m.from \in Streams /\ m.id \in Sids
  BY DEF Messages, Asks

\* The message taken, and the ones behind it.
LEMMA TakesHead ==
  ASSUME mailbox \in Seq(Messages), NEW t, Takes(t)
  PROVE  /\ held
         /\ 1 \in DOMAIN mailbox /\ Msg = mailbox[1] /\ Msg \in Messages /\ Msg.tag = t
         /\ mailbox' \in Seq(Messages)
         /\ \A n \in DOMAIN mailbox' : n + 1 \in DOMAIN mailbox /\ mailbox'[n] = mailbox[n + 1]
  BY DEF Takes, Msg

\* A message sent goes to the end of the line, or nowhere.
LEMMA SentLast ==
  ASSUME mailbox \in Seq(Messages), NEW m \in Messages, Sent(m)
  PROVE  /\ mailbox' \in Seq(Messages)
         /\ ~held => mailbox' = mailbox
         /\ held => /\ Len(mailbox') = Len(mailbox) + 1 /\ mailbox'[Len(mailbox) + 1] = m
                    /\ \A n \in DOMAIN mailbox : n \in DOMAIN mailbox' /\ mailbox'[n] = mailbox[n]
                    /\ DOMAIN mailbox' = DOMAIN mailbox \cup {Len(mailbox) + 1}
                    /\ Len(mailbox) + 1 \notin DOMAIN mailbox
  BY DEF Sent

-----------------------------------------------------------------------------
(* Types.                                                                   *)

LEMMA IssueTakes ==
  ASSUME IInv, Issue
  PROVE  /\ Msg.from \in Issuing /\ issued + 1 \in Sids
<1>1. Msg.from \in Clients /\ post[Msg.from] = "issuing"
  <2>1. Takes("issue") /\ mailbox \in Seq(Messages) /\ AllAwaited
    BY DEF Issue, IInv, TypeOK
  <2>2. Msg \in Messages /\ Msg.tag = "issue" /\ Awaited(Msg)
    BY <2>1, TakesHead DEF AllAwaited
  <2> QED
    BY <2>2, MessageFields DEF Awaited
<1>2. Msg.from \in Issuing
  BY <1>1 DEF Issuing
<1>3. IsFiniteSet(Issuing)
  BY FS_Subset DEF Issuing
<1>4. Cardinality(Issuing) \in Nat /\ Cardinality(Issuing) # 0
  BY <1>2, <1>3, FS_CardinalityType, FS_EmptySet
<1> QED
  BY <1>2, <1>4 DEF IInv, TypeOK, Room, Sids

Phases == {"none", "validating", "init", "attaching", "up", "closed"}
StreamRecords == [phase : Phases, id : 0..MaxSessions, gone : BOOLEAN]

LEMMA StreamPhase ==
  ASSUME stream \in [Streams -> StreamRecords], NEW s \in Streams, NEW p \in Phases
  PROVE  [stream EXCEPT ![s].phase = p] \in [Streams -> StreamRecords]
  BY DEF StreamRecords

LEMMA TypeStep ==
  ASSUME IInv, [Next]_vars
  PROVE  TypeOK'
<1> USE DEF TypeOK, Busy, Sids
<1>0. TypeOK /\ stream \in [Streams -> StreamRecords]
  BY DEF IInv, StreamRecords, Phases
<1>a. stream' \in [Streams -> StreamRecords]
        => stream' \in [Streams -> [phase : {"none", "validating", "init", "attaching", "up", "closed"},
                                    id : 0..MaxSessions, gone : BOOLEAN]]
  BY DEF StreamRecords, Phases
<1>1. ASSUME NEW c \in Clients, PostInitialize(c) PROVE TypeOK'
  <2>1. [tag |-> "issue", from |-> c] \in Messages
    BY DEF Messages
  <2>2. mailbox' \in Seq(Messages)
    BY <1>0, <1>1, <2>1, SentLast DEF PostInitialize
  <2> QED
    BY <1>0, <1>1, <2>2 DEF PostInitialize
<1>2. ASSUME NEW c \in Clients, NEW i \in Sids, PostRequest(c, i) PROVE TypeOK'
  <2>1. [tag |-> "validate", from |-> c, id |-> i] \in Messages
    BY DEF Messages
  <2>2. mailbox' \in Seq(Messages)
    BY <1>0, <1>2, <2>1, SentLast DEF PostRequest
  <2> QED
    BY <1>0, <1>2, <2>2 DEF PostRequest
<1>3. ASSUME NEW c \in Clients, NEW s \in Streams, GetEvents(c, s) PROVE TypeOK'
  <2>1. [tag |-> "validate", from |-> s, id |-> uses[c]] \in Messages
    BY <1>0, <1>3 DEF Messages, GetEvents
  <2>2. mailbox' \in Seq(Messages)
    BY <1>0, <1>3, <2>1, SentLast DEF GetEvents
  <2>3. [phase |-> IF held THEN "validating" ELSE "closed", id |-> uses[c], gone |-> FALSE]
          \in StreamRecords
    BY <1>0 DEF StreamRecords, Phases
  <2>4. stream' \in [Streams -> StreamRecords]
    BY <1>0, <1>3, <2>3 DEF GetEvents
  <2> QED
    BY <1>0, <1>a, <1>3, <2>2, <2>4 DEF GetEvents
<1>4. ASSUME NEW s \in Streams, Attach(s) PROVE TypeOK'
  <2>1. [tag |-> "attach", from |-> s, id |-> stream[s].id] \in Messages
    <3>1. stream[s].id \in Sids
      BY <1>4 DEF Attach, IInv, Named
    <3> QED
      BY <3>1 DEF Messages
  <2>2. stream' \in [Streams -> StreamRecords]
    BY <1>0, <1>4, StreamPhase DEF Attach, Phases
  <2>3. mailbox' \in Seq(Messages)
    BY <1>0, <1>4, <2>1, SentLast DEF Attach
  <2>4. UNCHANGED <<post, uses, issued, known, sse, age, timer, held>>
    BY <1>4 DEF Attach
  <2> QED
    BY <1>0, <1>a, <2>2, <2>3, <2>4
<1>5. ASSUME NEW s \in Streams, Drops(s) PROVE TypeOK'
  <2>1. \A r \in StreamRecords : [r EXCEPT !.gone = TRUE] \in StreamRecords
    BY DEF StreamRecords
  <2>2. stream' = [stream EXCEPT ![s] = [stream[s] EXCEPT !.gone = TRUE]]
    BY <1>5 DEF Drops
  <2>3. stream' \in [Streams -> StreamRecords]
    BY <1>0, <2>1, <2>2
  <2>4. UNCHANGED <<post, uses, mailbox, issued, known, sse, age, timer, held>>
    BY <1>5 DEF Drops
  <2> QED
    BY <1>0, <1>a, <2>3, <2>4
<1>6. ASSUME NEW s \in Streams, BeatFails(s) PROVE TypeOK'
  <2>1. [tag |-> "detach", from |-> s, id |-> stream[s].id] \in Messages
    <3>1. stream[s].id \in Sids
      BY <1>6 DEF BeatFails, IInv, Named
    <3> QED
      BY <3>1 DEF Messages
  <2>2. stream' \in [Streams -> StreamRecords]
    BY <1>0, <1>6, StreamPhase DEF BeatFails, Phases
  <2>3. mailbox' \in Seq(Messages)
    BY <1>0, <1>6, <2>1, SentLast DEF BeatFails
  <2>4. UNCHANGED <<post, uses, issued, known, sse, age, timer, held>>
    BY <1>6 DEF BeatFails
  <2> QED
    BY <1>0, <1>a, <2>2, <2>3, <2>4
<1>7. CASE Issue
  <2>1. Msg.from \in Clients /\ issued + 1 \in Sids
    BY <1>7, IssueTakes DEF Issuing
  <2>2. mailbox' \in Seq(Messages)
    BY <1>0, <1>7, TakesHead DEF Issue
  <2> QED
    BY <1>0, <1>7, <2>1, <2>2 DEF Issue, Old
<1>8. CASE Validate
  <2>1. mailbox' \in Seq(Messages) /\ Msg.from \in Clients \cup Streams /\ Msg.id \in Sids
    <3>1. Takes("validate")
      BY <1>8 DEF Validate
    <3>2. mailbox' \in Seq(Messages) /\ Msg \in Messages /\ Msg.tag = "validate"
      BY <1>0, <3>1, TakesHead
    <3> QED
      BY <3>2, MessageFields
  <2>2. post' \in [Clients -> Busy \cup {"none", "ok", "rejected", "failed"}]
    BY <1>0, <1>8, <2>1 DEF Validate, Answer
  <2>3. stream' \in [Streams -> StreamRecords]
    <3>1. CASE Msg.from \in Clients
      BY <1>0, <1>8, <3>1 DEF Validate, Answer
    <3>2. CASE Msg.from \in Streams /\ Msg.from \notin Clients /\ Msg.id \in known
      <4>1. stream' = [stream EXCEPT ![Msg.from].phase = "init"]
        BY <1>8, <3>2 DEF Validate, Answer
      <4> QED
        BY <1>0, <3>2, <4>1, StreamPhase DEF Phases
    <3>3. CASE Msg.from \in Streams /\ Msg.from \notin Clients /\ Msg.id \notin known
      <4>1. stream' = [stream EXCEPT ![Msg.from].phase = "closed"]
        BY <1>8, <3>3 DEF Validate, Answer
      <4> QED
        BY <1>0, <3>3, <4>1, StreamPhase DEF Phases
    <3> QED
      BY <2>1, <3>1, <3>2, <3>3
  <2>4. age' \in [Sids -> 0..Old]
    BY <1>0, <1>8, <2>1 DEF Validate, Old
  <2> QED
    BY <1>0, <1>a, <1>8, <2>1, <2>2, <2>3, <2>4 DEF Validate
<1>9. CASE AttachSse
  <2>1. mailbox' \in Seq(Messages) /\ Msg.from \in Streams /\ Msg.id \in Sids
    <3>1. Takes("attach")
      BY <1>9 DEF AttachSse
    <3>2. mailbox' \in Seq(Messages) /\ Msg \in Messages /\ Msg.tag = "attach"
      BY <1>0, <3>1, TakesHead
    <3> QED
      BY <3>2, MessageFields
  <2>2. stream' \in [Streams -> StreamRecords]
    BY <1>0, <1>9, <2>1, StreamPhase DEF AttachSse, Phases
  <2> QED
    BY <1>0, <1>a, <1>9, <2>1, <2>2 DEF AttachSse
<1>10. CASE DetachSse
  <2>0. Takes("detach")
    BY <1>10 DEF DetachSse
  <2>1. mailbox' \in Seq(Messages)
    BY <1>0, <2>0, TakesHead
  <2> QED
    BY <1>0, <1>10, <2>1 DEF DetachSse
<1>11. CASE Evict
  <2>0. Takes("evict")
    BY <1>11 DEF Evict
  <2>1. mailbox' \in Seq(Messages)
    BY <1>0, <2>0, TakesHead
  <2> QED
    <3>1. known' \subseteq known /\ sse' \in [Sids -> Streams \cup {NoStream}]
      BY <1>0, <1>11 DEF Evict, Keep
    <3>2. timer' \in [left : 0..Interval, stamp : 0..Interval]
      BY <1>11 DEF Evict, Unset
    <3> QED
      BY <1>0, <1>11, <2>1, <3>1, <3>2 DEF Evict
<1>12. CASE Crash
  <2>1. stream' \in [Streams -> StreamRecords]
    <3>1. \A s \in Streams : stream'[s] \in {stream[s], [stream[s] EXCEPT !.phase = "closed"]}
      BY <1>12 DEF Crash
    <3>2. \A r \in StreamRecords : [r EXCEPT !.phase = "closed"] \in StreamRecords
      BY DEF StreamRecords, Phases
    <3> QED
      BY <1>0, <1>12, <3>1, <3>2 DEF Crash
  <2>2. mailbox' \in Seq(Messages) /\ timer' \in [left : 0..Interval, stamp : 0..Interval]
    BY <1>12 DEF Crash, Scheduled
  <2>3. post' \in [Clients -> Busy \cup {"none", "ok", "rejected", "failed"}]
    BY <1>0, <1>12 DEF Crash
  <2> QED
    BY <1>0, <1>a, <1>12, <2>1, <2>2, <2>3 DEF Crash
<1>13. CASE Tick
  <2>1. mailbox' \in Seq(Messages)
    <3>1. [tag |-> "evict"] \in Messages
      BY DEF Messages
    <3> QED
      BY <1>13, <3>1 DEF Tick
  <2>2. age' \in [Sids -> 0..Old]
    BY <1>0, <1>13 DEF Tick, Old
  <2>3. timer' \in [left : 0..Interval, stamp : 0..Interval]
    <3>1. CASE timer.left = 0
      BY <1>13, <3>1 DEF Tick, Unset
    <3>2. CASE timer.left # 0
      <4>1. timer.left \in 1..Interval /\ timer.stamp \in 0..Interval
            /\ timer.left + timer.stamp = Interval
        BY <1>0, <3>2 DEF IInv, TimerRuns
      <4>2. timer' = [left |-> timer.left - 1, stamp |-> timer.stamp + 1]
        BY <1>13, <3>2 DEF Tick
      <4> QED
        BY <4>1, <4>2
    <3> QED
      BY <3>1, <3>2
  <2> QED
    BY <1>0, <1>13, <2>1, <2>2, <2>3 DEF Tick
<1>14. CASE UNCHANGED vars
  BY <1>0, <1>14 DEF vars
<1> QED
  BY <1>1, <1>2, <1>3, <1>4, <1>5, <1>6, <1>7, <1>8, <1>9, <1>10, <1>11, <1>12, <1>13, <1>14
  DEF Next, Table

-----------------------------------------------------------------------------
(* The line of messages.                                                    *)

\* What was said of a message before a step holds after it.
StillAwaited(m) ==
  /\ m.tag = "issue" => post'[m.from] = "issuing"
  /\ m.tag = "validate" => IF m.from \in Clients THEN post'[m.from] = "validating"
                           ELSE stream'[m.from].phase = "validating"
  /\ m.tag = "attach" => stream'[m.from].phase = "attaching" /\ stream'[m.from].id = m.id

LEMMA AwaitedNext ==
  ASSUME \A n \in DOMAIN mailbox' : StillAwaited(mailbox'[n])
  PROVE  AllAwaited'
  BY DEF AllAwaited, Awaited, StillAwaited

\* The messages behind the one taken come from others.
LEMMA Behind ==
  ASSUME IInv, NEW t, Takes(t)
  PROVE  /\ OneAsk'
         /\ \A n \in DOMAIN mailbox' :
              /\ mailbox'[n] \in Messages /\ Awaited(mailbox[n + 1]) /\ mailbox'[n] = mailbox[n + 1]
              /\ t \in Asks /\ mailbox'[n].tag \in Asks => mailbox'[n].from # Msg.from
<1>1. mailbox \in Seq(Messages) /\ AllAwaited /\ OneAsk
  BY DEF IInv, TypeOK
<1>2. /\ 1 \in DOMAIN mailbox /\ Msg = mailbox[1] /\ Msg.tag = t
      /\ \A n \in DOMAIN mailbox' : n + 1 \in DOMAIN mailbox /\ mailbox'[n] = mailbox[n + 1]
      /\ mailbox' \in Seq(Messages)
  BY <1>1, TakesHead
<1>3. \A n \in DOMAIN mailbox' : n \in Nat /\ n > 0 /\ mailbox'[n] \in Messages
  BY <1>2
<1>4. OneAsk'
  BY <1>1, <1>2, <1>3 DEF OneAsk
<1>5. ASSUME NEW n \in DOMAIN mailbox', t \in Asks, mailbox'[n].tag \in Asks
      PROVE  mailbox'[n].from # Msg.from
  BY <1>1, <1>2, <1>3, <1>5 DEF OneAsk
<1> QED
  BY <1>1, <1>2, <1>3, <1>4, <1>5 DEF AllAwaited

\* A message of somebody who waits for nothing may be sent.
LEMMA Sending ==
  ASSUME IInv, NEW m \in Messages, Sent(m),
         held /\ m.tag \in Asks =>
           \A n \in DOMAIN mailbox : mailbox[n].tag \in Asks => mailbox[n].from # m.from
  PROVE  /\ OneAsk'
         /\ \A n \in DOMAIN mailbox' :
              \/ held /\ mailbox'[n] = m
              \/ n \in DOMAIN mailbox /\ mailbox'[n] = mailbox[n] /\ mailbox[n] \in Messages
                 /\ Awaited(mailbox[n])
<1>1. mailbox \in Seq(Messages) /\ AllAwaited /\ OneAsk /\ held \in BOOLEAN
  BY DEF IInv, TypeOK
<1>2. CASE ~held
  <2>1. mailbox' = mailbox
    BY <1>1, <1>2, SentLast
  <2> QED
    BY <1>1, <2>1 DEF OneAsk, AllAwaited
<1>3. CASE held
  <2>1. /\ mailbox'[Len(mailbox) + 1] = m
        /\ \A n \in DOMAIN mailbox : mailbox'[n] = mailbox[n] /\ mailbox[n] \in Messages
        /\ DOMAIN mailbox' = DOMAIN mailbox \cup {Len(mailbox) + 1}
    BY <1>1, <1>3, SentLast
  <2>2. OneAsk'
    BY <1>1, <1>3, <2>1 DEF OneAsk
  <2> QED
    BY <1>1, <1>3, <2>1, <2>2 DEF AllAwaited
<1> QED
  BY <1>1, <1>2, <1>3

LEMMA LineStep ==
  ASSUME IInv, [Next]_vars
  PROVE  AllAwaited' /\ OneAsk'
<1> USE DEF StillAwaited, Awaited
<1>0. /\ post \in [Clients -> Busy \cup {"none", "ok", "rejected", "failed"}]
      /\ stream \in [Streams -> StreamRecords]
      /\ mailbox \in Seq(Messages) /\ AllAwaited /\ OneAsk /\ Unheld /\ Named
      /\ \A c \in Clients : uses[c] \in 0..MaxSessions
  BY DEF IInv, TypeOK, StreamRecords, Phases
<1>m. \A n \in DOMAIN mailbox : mailbox[n] \in Messages /\ Awaited(mailbox[n])
  BY <1>0 DEF AllAwaited
<1>1. ASSUME NEW c \in Clients, PostInitialize(c) PROVE AllAwaited' /\ OneAsk'
  <2> DEFINE m == [tag |-> "issue", from |-> c]
  <2>1. m \in Messages /\ Sent(m) /\ m.tag = "issue" /\ m.from = c
    BY <1>0, <1>1 DEF Messages, PostInitialize, Named
  <2>2. \A n \in DOMAIN mailbox : mailbox[n].tag \in Asks => mailbox[n].from # c
    BY <1>0, <1>m, <1>1, MessageFields DEF PostInitialize, Busy, Asks
  <2> HIDE DEF m
  <2>3. held /\ m.tag \in Asks =>
          \A n \in DOMAIN mailbox : mailbox[n].tag \in Asks => mailbox[n].from # m.from
    BY <2>1, <2>2
  <2>4. OneAsk' /\ \A n \in DOMAIN mailbox' :
          \/ held /\ mailbox'[n] = m
          \/ n \in DOMAIN mailbox /\ mailbox'[n] = mailbox[n] /\ mailbox[n] \in Messages
             /\ Awaited(mailbox[n])
    BY <2>1, <2>3, Sending
  <2>5. ASSUME NEW n \in DOMAIN mailbox' PROVE StillAwaited(mailbox'[n])
    <3>1. CASE held /\ mailbox'[n] = m
      BY <1>0, <1>1, <2>1, <3>1 DEF PostInitialize, StreamRecords
    <3>2. CASE n \in DOMAIN mailbox /\ mailbox'[n] = mailbox[n]
      BY <1>0, <1>m, <1>1, <2>2, <3>2, MessageFields DEF PostInitialize, Asks, StreamRecords
    <3> QED
      BY <2>4, <3>1, <3>2
  <2> QED
    BY <2>4, <2>5, AwaitedNext
<1>2. ASSUME NEW c \in Clients, NEW i \in Sids, PostRequest(c, i) PROVE AllAwaited' /\ OneAsk'
  <2> DEFINE m == [tag |-> "validate", from |-> c, id |-> i]
  <2>1. m \in Messages /\ Sent(m) /\ m.tag = "validate" /\ m.from = c
    BY <1>0, <1>2 DEF Messages, PostRequest, Named
  <2>2. \A n \in DOMAIN mailbox : mailbox[n].tag \in Asks => mailbox[n].from # c
    BY <1>0, <1>m, <1>2, MessageFields DEF PostRequest, Busy, Asks
  <2> HIDE DEF m
  <2>3. held /\ m.tag \in Asks =>
          \A n \in DOMAIN mailbox : mailbox[n].tag \in Asks => mailbox[n].from # m.from
    BY <2>1, <2>2
  <2>4. OneAsk' /\ \A n \in DOMAIN mailbox' :
          \/ held /\ mailbox'[n] = m
          \/ n \in DOMAIN mailbox /\ mailbox'[n] = mailbox[n] /\ mailbox[n] \in Messages
             /\ Awaited(mailbox[n])
    BY <2>1, <2>3, Sending
  <2>5. ASSUME NEW n \in DOMAIN mailbox' PROVE StillAwaited(mailbox'[n])
    <3>1. CASE held /\ mailbox'[n] = m
      BY <1>0, <1>2, <2>1, <3>1 DEF PostRequest, StreamRecords
    <3>2. CASE n \in DOMAIN mailbox /\ mailbox'[n] = mailbox[n]
      BY <1>0, <1>m, <1>2, <2>2, <3>2, MessageFields DEF PostRequest, Asks, StreamRecords
    <3> QED
      BY <2>4, <3>1, <3>2
  <2> QED
    BY <2>4, <2>5, AwaitedNext
<1>3. ASSUME NEW c \in Clients, NEW s \in Streams, GetEvents(c, s) PROVE AllAwaited' /\ OneAsk'
  <2> DEFINE m == [tag |-> "validate", from |-> s, id |-> uses[c]]
  <2>1. m \in Messages /\ Sent(m) /\ m.tag = "validate" /\ m.from = s
    BY <1>0, <1>3 DEF Messages, GetEvents, Sids
  <2>2. \A n \in DOMAIN mailbox : mailbox[n].tag \in Asks => mailbox[n].from # s
    BY <1>0, <1>m, <1>3, MessageFields DEF GetEvents, Busy, Asks
  <2> HIDE DEF m
  <2>3. held /\ m.tag \in Asks =>
          \A n \in DOMAIN mailbox : mailbox[n].tag \in Asks => mailbox[n].from # m.from
    BY <2>1, <2>2
  <2>4. OneAsk' /\ \A n \in DOMAIN mailbox' :
          \/ held /\ mailbox'[n] = m
          \/ n \in DOMAIN mailbox /\ mailbox'[n] = mailbox[n] /\ mailbox[n] \in Messages
             /\ Awaited(mailbox[n])
    BY <2>1, <2>3, Sending
  <2>5. ASSUME NEW n \in DOMAIN mailbox' PROVE StillAwaited(mailbox'[n])
    <3>1. CASE held /\ mailbox'[n] = m
      BY <1>0, <1>3, <2>1, <3>1 DEF GetEvents, StreamRecords
    <3>2. CASE n \in DOMAIN mailbox /\ mailbox'[n] = mailbox[n]
      BY <1>0, <1>m, <1>3, <2>2, <3>2, MessageFields DEF GetEvents, Asks, StreamRecords
    <3> QED
      BY <2>4, <3>1, <3>2
  <2> QED
    BY <2>4, <2>5, AwaitedNext
<1>4. ASSUME NEW s \in Streams, Attach(s) PROVE AllAwaited' /\ OneAsk'
  <2> DEFINE m == [tag |-> "attach", from |-> s, id |-> stream[s].id]
  <2>1. m \in Messages /\ Sent(m) /\ m.tag = "attach" /\ m.from = s /\ m.id = stream[s].id
    BY <1>0, <1>4 DEF Messages, Attach, Named
  <2>2. \A n \in DOMAIN mailbox : mailbox[n].tag \in Asks => mailbox[n].from # s
    BY <1>0, <1>m, <1>4, MessageFields DEF Attach, Busy, Asks
  <2> HIDE DEF m
  <2>3. held /\ m.tag \in Asks =>
          \A n \in DOMAIN mailbox : mailbox[n].tag \in Asks => mailbox[n].from # m.from
    BY <2>1, <2>2
  <2>4. OneAsk' /\ \A n \in DOMAIN mailbox' :
          \/ held /\ mailbox'[n] = m
          \/ n \in DOMAIN mailbox /\ mailbox'[n] = mailbox[n] /\ mailbox[n] \in Messages
             /\ Awaited(mailbox[n])
    BY <2>1, <2>3, Sending
  <2>5. ASSUME NEW n \in DOMAIN mailbox' PROVE StillAwaited(mailbox'[n])
    <3>1. CASE held /\ mailbox'[n] = m
      BY <1>0, <1>4, <2>1, <3>1 DEF Attach, StreamRecords
    <3>2. CASE n \in DOMAIN mailbox /\ mailbox'[n] = mailbox[n]
      BY <1>0, <1>m, <1>4, <2>2, <3>2, MessageFields DEF Attach, Asks, StreamRecords
    <3> QED
      BY <2>4, <3>1, <3>2
  <2> QED
    BY <2>4, <2>5, AwaitedNext
<1>5. ASSUME NEW s \in Streams, BeatFails(s) PROVE AllAwaited' /\ OneAsk'
  <2> DEFINE m == [tag |-> "detach", from |-> s, id |-> stream[s].id]
  <2>1. m \in Messages /\ Sent(m) /\ m.tag = "detach"
    BY <1>0, <1>5 DEF Messages, BeatFails, Named
  <2> HIDE DEF m
  <2>2. ~(m.tag \in Asks)
    BY <2>1 DEF Asks
  <2>3. OneAsk' /\ \A n \in DOMAIN mailbox' :
          \/ held /\ mailbox'[n] = m
          \/ n \in DOMAIN mailbox /\ mailbox'[n] = mailbox[n] /\ mailbox[n] \in Messages
             /\ Awaited(mailbox[n])
    BY <2>1, <2>2, Sending
  <2>4. ASSUME NEW n \in DOMAIN mailbox' PROVE StillAwaited(mailbox'[n])
    <3>1. CASE mailbox'[n] = m
      BY <2>1, <3>1
    <3>2. CASE n \in DOMAIN mailbox /\ mailbox'[n] = mailbox[n]
      BY <1>0, <1>m, <1>5, <3>2, MessageFields DEF BeatFails, StreamRecords
    <3> QED
      BY <2>3, <3>1, <3>2
  <2> QED
    BY <2>3, <2>4, AwaitedNext
<1>6. ASSUME NEW s \in Streams, Drops(s) PROVE AllAwaited' /\ OneAsk'
  <2>1. mailbox' = mailbox /\ post' = post
    BY <1>6 DEF Drops
  <2>2. \A n \in DOMAIN mailbox : StillAwaited(mailbox[n])
    BY <1>0, <1>m, <1>6, <2>1, MessageFields DEF Drops, StreamRecords
  <2>3. OneAsk'
    BY <1>0, <2>1 DEF OneAsk
  <2> QED
    BY <2>1, <2>2, <2>3, AwaitedNext
<1>7. CASE Issue
  <2>1. Takes("issue")
    BY <1>7 DEF Issue
  <2>2. /\ OneAsk'
        /\ \A n \in DOMAIN mailbox' :
             /\ mailbox'[n] \in Messages /\ Awaited(mailbox[n + 1]) /\ mailbox'[n] = mailbox[n + 1]
             /\ "issue" \in Asks /\ mailbox'[n].tag \in Asks => mailbox'[n].from # Msg.from
    BY <2>1, Behind
  <2>3. Msg \in Messages /\ Msg.tag = "issue"
    BY <1>0, <2>1, TakesHead
  <2>4. ASSUME NEW n \in DOMAIN mailbox' PROVE StillAwaited(mailbox'[n])
    BY <1>0, <1>7, <2>2, <2>3, MessageFields DEF Issue, Asks, StreamRecords
  <2> QED
    BY <2>2, <2>4, AwaitedNext
<1>8. CASE Validate
  <2>1. Takes("validate")
    BY <1>8 DEF Validate
  <2>2. /\ OneAsk'
        /\ \A n \in DOMAIN mailbox' :
             /\ mailbox'[n] \in Messages /\ Awaited(mailbox[n + 1]) /\ mailbox'[n] = mailbox[n + 1]
             /\ "validate" \in Asks /\ mailbox'[n].tag \in Asks => mailbox'[n].from # Msg.from
    BY <2>1, Behind
  <2>3. Msg \in Messages /\ Msg.tag = "validate"
    BY <1>0, <2>1, TakesHead
  <2>4. ASSUME NEW n \in DOMAIN mailbox' PROVE StillAwaited(mailbox'[n])
    BY <1>0, <1>8, <2>2, <2>3, MessageFields DEF Validate, Asks, StreamRecords, Answer
  <2> QED
    BY <2>2, <2>4, AwaitedNext
<1>9. CASE AttachSse
  <2>1. Takes("attach")
    BY <1>9 DEF AttachSse
  <2>2. /\ OneAsk'
        /\ \A n \in DOMAIN mailbox' :
             /\ mailbox'[n] \in Messages /\ Awaited(mailbox[n + 1]) /\ mailbox'[n] = mailbox[n + 1]
             /\ "attach" \in Asks /\ mailbox'[n].tag \in Asks => mailbox'[n].from # Msg.from
    BY <2>1, Behind
  <2>3. Msg \in Messages /\ Msg.tag = "attach"
    BY <1>0, <2>1, TakesHead
  <2>4. ASSUME NEW n \in DOMAIN mailbox' PROVE StillAwaited(mailbox'[n])
    BY <1>0, <1>9, <2>2, <2>3, MessageFields DEF AttachSse, Asks, StreamRecords
  <2> QED
    BY <2>2, <2>4, AwaitedNext
<1>10. CASE DetachSse
  <2>1. Takes("detach")
    BY <1>10 DEF DetachSse
  <2>2. /\ OneAsk'
        /\ \A n \in DOMAIN mailbox' :
             /\ mailbox'[n] \in Messages /\ Awaited(mailbox[n + 1]) /\ mailbox'[n] = mailbox[n + 1]
             /\ "detach" \in Asks /\ mailbox'[n].tag \in Asks => mailbox'[n].from # Msg.from
    BY <2>1, Behind
  <2>3. Msg \in Messages /\ Msg.tag = "detach"
    BY <1>0, <2>1, TakesHead
  <2>4. ASSUME NEW n \in DOMAIN mailbox' PROVE StillAwaited(mailbox'[n])
    BY <1>0, <1>10, <2>2, <2>3, MessageFields DEF DetachSse, Asks, StreamRecords
  <2> QED
    BY <2>2, <2>4, AwaitedNext
<1>11. CASE Evict
  <2>1. Takes("evict")
    BY <1>11 DEF Evict
  <2>2. /\ OneAsk'
        /\ \A n \in DOMAIN mailbox' :
             /\ mailbox'[n] \in Messages /\ Awaited(mailbox[n + 1]) /\ mailbox'[n] = mailbox[n + 1]
             /\ "evict" \in Asks /\ mailbox'[n].tag \in Asks => mailbox'[n].from # Msg.from
    BY <2>1, Behind
  <2>3. Msg \in Messages /\ Msg.tag = "evict"
    BY <1>0, <2>1, TakesHead
  <2>4. ASSUME NEW n \in DOMAIN mailbox' PROVE StillAwaited(mailbox'[n])
    BY <1>0, <1>11, <2>2, <2>3, MessageFields DEF Evict, Asks, StreamRecords
  <2> QED
    BY <2>2, <2>4, AwaitedNext
<1>12. CASE Crash
  <2>1. DOMAIN mailbox' = {}
    BY <1>12 DEF Crash
  <2> QED
    BY <2>1 DEF AllAwaited, OneAsk
<1>13. CASE Tick
  <2>1. \A n \in DOMAIN mailbox' : mailbox'[n] = [tag |-> "evict"]
    BY <1>13 DEF Tick
  <2> QED
    BY <2>1 DEF AllAwaited, OneAsk, Asks
<1>14. CASE UNCHANGED vars
  BY <1>0, <1>14 DEF vars, AllAwaited, OneAsk
<1> QED
  BY <1>1, <1>2, <1>3, <1>4, <1>5, <1>6, <1>7, <1>8, <1>9, <1>10, <1>11, <1>12, <1>13, <1>14
  DEF Next, Table

-----------------------------------------------------------------------------
(* The other parts.                                                         *)

LEMMA RoomStep ==
  ASSUME IInv, [Next]_vars
  PROVE  Room'
<1>0. /\ post \in [Clients -> Busy \cup {"none", "ok", "rejected", "failed"}]
      /\ issued \in Nat /\ issued + Cardinality(Issuing) <= MaxSessions
  BY DEF IInv, TypeOK, Room
<1>1. IsFiniteSet(Issuing) /\ Cardinality(Issuing) \in Nat
  BY FS_Subset, FS_CardinalityType DEF Issuing
<1>2. ASSUME Issuing' \subseteq Issuing, issued' = issued PROVE Room'
  <2>1. Cardinality(Issuing') <= Cardinality(Issuing) /\ IsFiniteSet(Issuing')
    BY <1>1, <1>2, FS_Subset
  <2>2. Cardinality(Issuing') \in Nat
    BY <2>1, FS_CardinalityType
  <2> QED
    BY <1>0, <1>1, <1>2, <2>1, <2>2 DEF Room
<1>3. ASSUME NEW c \in Clients, PostInitialize(c) PROVE Room'
  <2>1. CASE held
    <3>1. Issuing' = Issuing \cup {c} /\ c \notin Issuing /\ issued' = issued
      BY <1>0, <1>3, <2>1 DEF PostInitialize, Issuing, Busy
    <3>2. Cardinality(Issuing') = Cardinality(Issuing) + 1
      BY <1>1, <3>1, FS_AddElement
    <3>3. issued + Cardinality(Issuing) < MaxSessions
      BY <1>3 DEF PostInitialize, Issuing
    <3> QED
      BY <1>0, <1>1, <3>1, <3>2, <3>3 DEF Room
  <2>2. CASE ~held
    BY <1>0, <1>2, <1>3, <2>2 DEF PostInitialize, Issuing
  <2> QED
    BY <2>1, <2>2
<1>4. CASE Issue
  <2>1. Msg.from \in Issuing
    BY <1>4, IssueTakes
  <2>2. Issuing' = Issuing \ {Msg.from} /\ issued' = issued + 1
    BY <1>0, <1>4, <2>1 DEF Issue, Issuing
  <2>3. Cardinality(Issuing') = Cardinality(Issuing) - 1
    BY <1>1, <2>1, <2>2, FS_RemoveElement
  <2> QED
    BY <1>0, <1>1, <2>2, <2>3 DEF Room
<1>5. ASSUME NEW c \in Clients, NEW i \in Sids, PostRequest(c, i) PROVE Room'
  BY <1>0, <1>2, <1>5 DEF PostRequest, Issuing
<1>6. CASE Validate
  BY <1>0, <1>2, <1>6 DEF Validate, Answer, Issuing
<1>7. CASE Crash
  BY <1>0, <1>2, <1>7 DEF Crash, Issuing
<1>8. CASE UNCHANGED <<post, issued>>
  BY <1>2, <1>8 DEF Issuing
<1> QED
  BY <1>3, <1>4, <1>5, <1>6, <1>7, <1>8
  DEF Next, Table, GetEvents, Attach, Drops, BeatFails, AttachSse, DetachSse, Evict, Tick, vars

LEMMA NamedStep ==
  ASSUME IInv, [Next]_vars
  PROVE  Named'
<1> USE DEF StreamRecords
<1>0. stream \in [Streams -> StreamRecords] /\ Named /\ mailbox \in Seq(Messages)
      /\ uses \in [Clients -> 0..MaxSessions] /\ AllAwaited
  BY DEF IInv, TypeOK, Phases
<1>1. ASSUME NEW c \in Clients, NEW s \in Streams, GetEvents(c, s) PROVE Named'
  BY <1>0, <1>1 DEF GetEvents, Named, Sids
<1>2. ASSUME NEW s \in Streams, Attach(s) \/ Drops(s) \/ BeatFails(s) PROVE Named'
  <2>1. \A t \in Streams : stream'[t].id = stream[t].id
                          /\ (stream[t].phase = "none" => stream'[t] = stream[t])
    <3>1. CASE Attach(s)
      BY <1>0, <3>1 DEF Attach
    <3>2. CASE Drops(s)
      BY <1>0, <3>2 DEF Drops
    <3>3. CASE BeatFails(s)
      BY <1>0, <3>3 DEF BeatFails
    <3> QED
      BY <1>2, <3>1, <3>2, <3>3
  <2> QED
    BY <1>0, <2>1 DEF Named
<1>3. CASE Validate
  <2>1. Takes("validate")
    BY <1>3 DEF Validate
  <2>2. Msg \in Messages /\ Msg.tag = "validate" /\ Awaited(Msg)
    BY <1>0, <2>1, TakesHead DEF AllAwaited
  <2>3. \A t \in Streams : stream'[t].id = stream[t].id
                          /\ (stream[t].phase = "none" => stream'[t] = stream[t])
    <3>1. CASE Msg.from \in Clients
      BY <1>0, <1>3, <3>1 DEF Validate, Answer
    <3>2. CASE Msg.from \notin Clients
      <4>1. Msg.from \in Streams /\ stream[Msg.from].phase = "validating"
        BY <2>2, <3>2, MessageFields DEF Awaited
      <4>2. PICK p \in Phases : stream' = [stream EXCEPT ![Msg.from].phase = p]
        BY <1>3, <3>2 DEF Validate, Answer, Phases
      <4> QED
        BY <1>0, <4>1, <4>2
    <3> QED
      BY <3>1, <3>2
  <2> QED
    BY <1>0, <2>3 DEF Named
<1>4. CASE AttachSse
  <2>1. Takes("attach")
    BY <1>4 DEF AttachSse
  <2>2. Msg \in Messages /\ Msg.tag = "attach" /\ Awaited(Msg)
    BY <1>0, <2>1, TakesHead DEF AllAwaited
  <2> QED
    BY <1>0, <1>4, <2>2, MessageFields DEF AttachSse, Named, Awaited
<1>5. CASE Crash
  <2>1. \A s \in Streams : stream'[s].id = stream[s].id
                          /\ (stream'[s].phase # "none" => stream[s].phase # "none")
    BY <1>0, <1>5 DEF Crash
  <2> QED
    BY <1>0, <2>1 DEF Named
<1>6. CASE UNCHANGED stream
  BY <1>0, <1>6 DEF Named
<1> QED
  BY <1>1, <1>2, <1>3, <1>4, <1>5, <1>6
  DEF Next, Table, PostInitialize, PostRequest, Issue, DetachSse, Evict, Tick, vars

LEMMA SseStep ==
  ASSUME IInv, [Next]_vars
  PROVE  SseMatch'
<1> USE DEF StreamRecords
<1>0. /\ stream \in [Streams -> StreamRecords] /\ SseMatch /\ mailbox \in Seq(Messages)
      /\ sse \in [Sids -> Streams \cup {NoStream}] /\ AllAwaited
  BY DEF IInv, TypeOK, Phases
<1>1. ASSUME NEW c \in Clients, NEW s \in Streams, GetEvents(c, s) PROVE SseMatch'
  BY <1>0, <1>1 DEF GetEvents, SseMatch
<1>2. ASSUME NEW s \in Streams, Attach(s) \/ Drops(s) \/ BeatFails(s) PROVE SseMatch'
  <2>1. \A t \in Streams :
          /\ stream'[t].id = stream[t].id
          /\ stream[t].phase \in {"up", "closed"} => stream'[t].phase \in {"up", "closed"}
    <3>1. CASE Attach(s)
      BY <1>0, <3>1 DEF Attach
    <3>2. CASE Drops(s)
      BY <1>0, <3>2 DEF Drops
    <3>3. CASE BeatFails(s)
      BY <1>0, <3>3 DEF BeatFails
    <3> QED
      BY <1>2, <3>1, <3>2, <3>3
  <2>2. UNCHANGED <<sse, known>>
    BY <1>2 DEF Attach, Drops, BeatFails
  <2> QED
    BY <1>0, <2>1, <2>2 DEF SseMatch
<1>3. CASE Validate
  <2>1. Takes("validate")
    BY <1>3 DEF Validate
  <2>2. Msg \in Messages /\ Msg.tag = "validate" /\ Awaited(Msg)
    BY <1>0, <2>1, TakesHead DEF AllAwaited
  <2>3. UNCHANGED <<sse, known>>
    BY <1>3 DEF Validate
  <2>4. \A s \in Streams : stream'[s] = stream[s] \/ stream[s].phase = "validating"
    BY <1>0, <1>3, <2>2, MessageFields DEF Validate, Answer, Awaited
  <2> QED
    BY <1>0, <2>3, <2>4 DEF SseMatch
<1>4. CASE AttachSse
  <2>1. Takes("attach")
    BY <1>4 DEF AttachSse
  <2>2. Msg \in Messages /\ Msg.tag = "attach" /\ Awaited(Msg)
    BY <1>0, <2>1, TakesHead DEF AllAwaited
  <2>3. /\ Msg.from \in Streams /\ Msg.id \in Sids
        /\ stream[Msg.from].phase = "attaching" /\ stream[Msg.from].id = Msg.id
    BY <2>2, MessageFields DEF Awaited
  <2>4. /\ known' = known
        /\ stream' = [stream EXCEPT ![Msg.from].phase = "up"]
        /\ sse' = IF Msg.id \in known THEN [sse EXCEPT ![Msg.id] = Msg.from] ELSE sse
    BY <1>4 DEF AttachSse
  <2> HIDE DEF StreamRecords
  <2>5. stream'[Msg.from].id = Msg.id /\ stream'[Msg.from].phase = "up"
        /\ \A s \in Streams \ {Msg.from} : stream'[s] = stream[s]
    BY <1>0, <2>3, <2>4 DEF StreamRecords
  <2>6. \A i \in Sids : sse'[i] = sse[i] \/ (i = Msg.id /\ i \in known /\ sse'[i] = Msg.from)
    BY <1>0, <2>3, <2>4
  <2>7. \A i \in Sids : sse[i] # Msg.from
    BY <1>0, <2>3 DEF SseMatch
  <2> QED
    BY <1>0, <2>3, <2>4, <2>5, <2>6, <2>7 DEF SseMatch
<1>5. CASE DetachSse
  <2>1. /\ known' = known /\ stream' = stream
        /\ sse' = IF Msg.id \in known THEN [sse EXCEPT ![Msg.id] = NoStream] ELSE sse
    BY <1>5 DEF DetachSse
  <2> QED
    BY <1>0, <2>1 DEF SseMatch
<1>6. CASE Evict
  BY <1>0, <1>6 DEF Evict, SseMatch
<1>7. CASE Crash
  BY <1>7 DEF Crash, SseMatch
<1>8. CASE UNCHANGED <<stream, sse>> /\ known \subseteq known'
  BY <1>0, <1>8 DEF SseMatch
<1> QED
  BY <1>1, <1>2, <1>3, <1>4, <1>5, <1>6, <1>7, <1>8
  DEF Next, Table, PostInitialize, PostRequest, Issue, Tick, vars

LEMMA RestStep ==
  ASSUME IInv, [Next]_vars
  PROVE  Unheld' /\ TimerRuns'
<1>0. /\ Unheld /\ TimerRuns /\ held \in BOOLEAN
      /\ timer \in [left : 0..Interval, stamp : 0..Interval]
  BY DEF IInv, TypeOK
<1>1. Unheld'
  BY <1>0 DEF Unheld, Next, Table, PostInitialize, PostRequest, GetEvents, Attach, Drops, BeatFails,
              Issue, Validate, AttachSse, DetachSse, Evict, Crash, Tick, Takes, Sent, vars
<1>2. ASSUME Tick PROVE TimerRuns'
  BY <1>0, <1>2 DEF Tick, TimerRuns, Unset
<1>3. ASSUME Evict PROVE TimerRuns'
  BY <1>3 DEF Evict, TimerRuns, Unset
<1>4. ASSUME Crash PROVE TimerRuns'
  BY <1>4 DEF Crash, TimerRuns, Scheduled
<1>5. ASSUME UNCHANGED timer PROVE TimerRuns'
  BY <1>0, <1>5 DEF TimerRuns
<1>6. TimerRuns'
  BY <1>2, <1>3, <1>4, <1>5
  DEF Next, Table, PostInitialize, PostRequest, GetEvents, Attach, Drops, BeatFails,
      Issue, Validate, AttachSse, DetachSse, vars
<1> QED
  BY <1>1, <1>6

-----------------------------------------------------------------------------
LEMMA InitIInv == Init => IInv
<1> SUFFICES ASSUME Init PROVE IInv
  OBVIOUS
<1>1. TypeOK
  BY DEF Init, TypeOK, Scheduled, Sids, Old
<1>2. Issuing = {} /\ issued = 0
  BY DEF Init, Issuing
<1>3. Room
  BY <1>2, FS_EmptySet DEF Room
<1>4. AllAwaited /\ OneAsk /\ Named /\ SseMatch /\ Unheld /\ TimerRuns
  BY DEF Init, AllAwaited, OneAsk, Named, SseMatch, Unheld, TimerRuns, Scheduled
<1> QED
  BY <1>1, <1>3, <1>4 DEF IInv

LEMMA StepIInv ==
  ASSUME IInv, [Next]_vars
  PROVE  IInv'
  BY TypeStep, LineStep, RoomStep, NamedStep, SseStep, RestStep DEF IInv

LEMMA SpecIInv == Spec => []IInv
<1>1. IInv /\ [Next]_vars => IInv'
  BY StepIInv
<1> QED
  BY InitIInv, <1>1, PTL DEF Spec

\* Every variable of the sessions model keeps its type: no id beyond the last
\* one issued is ever in the table, and what is answered is what was asked.
THEOREM SessionTypes == Spec => []TypeOK
<1>1. IInv => TypeOK
  BY DEF IInv
<1> QED
  BY SpecIInv, <1>1, PTL

-----------------------------------------------------------------------------
(* A session in use is not forgotten.                                       *)

LEMMA LivesStep ==
  ASSUME IInv, LivesWhileUsed, [Next]_vars
  PROVE  LivesWhileUsed'
<1>0. /\ issued \in 0..MaxSessions /\ known \subseteq 1..issued /\ held \in BOOLEAN
      /\ age \in [Sids -> 0..Old] /\ mailbox \in Seq(Messages)
      /\ timer \in [left : 0..Interval, stamp : 0..Interval]
      /\ held => \A i \in 1..issued : i \in known \/ age[i] > IdleTimeout
  BY DEF IInv, TypeOK, LivesWhileUsed
<1>1. ASSUME Issue PROVE LivesWhileUsed'
  <2>1. issued + 1 \in Sids
    BY <1>1, IssueTakes
  <2>2. /\ known' = known \cup {issued + 1} /\ issued' = issued + 1 /\ held' = held
        /\ \A i \in 1..issued : age'[i] = age[i]
    BY <1>0, <1>1, <2>1 DEF Issue, Sids
  <2> QED
    BY <1>0, <2>2 DEF LivesWhileUsed
<1>2. ASSUME Validate PROVE LivesWhileUsed'
  <2>1. known' = known /\ issued' = issued /\ held' = held
    BY <1>2 DEF Validate
  <2>2. \A i \in 1..issued : i \in known \/ age'[i] = age[i]
    BY <1>0, <1>2 DEF Validate, Sids
  <2> QED
    BY <1>0, <2>1, <2>2 DEF LivesWhileUsed
<1>3. ASSUME Evict PROVE LivesWhileUsed'
  <2>1. /\ known' = {i \in known : age[i] <= Cutoff}
        /\ issued' = issued /\ held' = held /\ age' = age
    BY <1>3 DEF Evict, Keep
  <2>2. Cutoff \in Nat /\ Cutoff >= IdleTimeout
    BY <1>0 DEF Cutoff
  <2>3. \A i \in 1..issued : age[i] \in Nat
    BY <1>0 DEF Sids, Old
  <2> QED
    BY <1>0, <2>1, <2>2, <2>3 DEF LivesWhileUsed
<1>4. ASSUME Crash PROVE LivesWhileUsed'
  BY <1>4 DEF Crash, LivesWhileUsed
<1>5. ASSUME Tick PROVE LivesWhileUsed'
  <2>1. known' = known /\ issued' = issued /\ held' = held
    BY <1>5 DEF Tick
  <2>2. \A i \in 1..issued : age[i] \in Nat /\ age'[i] \in {age[i], age[i] + 1}
    BY <1>0, <1>5 DEF Tick, Sids, Old
  <2> QED
    BY <1>0, <2>1, <2>2 DEF LivesWhileUsed
<1>6. ASSUME UNCHANGED <<known, issued, held, age>> PROVE LivesWhileUsed'
  BY <1>0, <1>6 DEF LivesWhileUsed
<1> QED
  BY <1>1, <1>2, <1>3, <1>4, <1>5, <1>6
  DEF Next, Table, PostInitialize, PostRequest, GetEvents, Attach, Drops, BeatFails,
      AttachSse, DetachSse, vars

\* While its table lives a session is forgotten only after it has been idle for
\* longer than idle_timeout_ms, however the Evict sweep, with the time it was
\* scheduled at, falls among the requests that touch the session.
THEOREM SessionsLiveWhileUsed == Spec => []LivesWhileUsed
<1>1. Init => LivesWhileUsed
  BY DEF Init, LivesWhileUsed
<1>2. IInv /\ LivesWhileUsed /\ [Next]_vars => LivesWhileUsed'
  BY LivesStep
<1> QED
  BY SpecIInv, <1>1, <1>2, PTL DEF Spec

-----------------------------------------------------------------------------
(* The table points at no stream that is gone for good.                     *)

Detaching(i) == \E n \in DOMAIN mailbox : mailbox[n].tag = "detach" /\ mailbox[n].id = i
Dangling(i) == sse[i] # NoStream /\ stream[sse[i]].phase = "closed"

\* A detach that is not the message taken is still in the mailbox.
LEMMA DetachStays ==
  ASSUME IInv, NEW t, Takes(t), NEW i, Detaching(i), t = "detach" => Msg.id # i
  PROVE  Detaching(i)'
<1>1. mailbox \in Seq(Messages)
  BY DEF IInv, TypeOK
<1>2. PICK n \in DOMAIN mailbox : mailbox[n].tag = "detach" /\ mailbox[n].id = i
  BY DEF Detaching
<1>3. Msg = mailbox[1] /\ Msg.tag = t
  BY <1>1, TakesHead
<1>4. n # 1
  BY <1>2, <1>3
<1>5. n - 1 \in DOMAIN mailbox' /\ mailbox'[n - 1] = mailbox[n]
  BY <1>1, <1>2, <1>4 DEF Takes
<1> QED
  BY <1>2, <1>5 DEF Detaching

\* Nor does sending one more take it away.
LEMMA DetachWaits ==
  ASSUME IInv, NEW m \in Messages, Sent(m), NEW i, Detaching(i)
  PROVE  Detaching(i)'
<1>1. mailbox \in Seq(Messages) /\ held \in BOOLEAN
  BY DEF IInv, TypeOK
<1>2. \A n \in DOMAIN mailbox : n \in DOMAIN mailbox' /\ mailbox'[n] = mailbox[n]
  BY <1>1, SentLast
<1> QED
  BY <1>2 DEF Detaching

LEMMA DroppedStep ==
  ASSUME IInv, DeadStreamsAreDropped, [Next]_vars
  PROVE  DeadStreamsAreDropped'
<1>0. /\ stream \in [Streams -> StreamRecords] /\ mailbox \in Seq(Messages) /\ Named
      /\ known \subseteq Sids /\ known \subseteq 1..issued /\ issued \in Nat
      /\ uses \in [Clients -> 0..MaxSessions]
      /\ sse \in [Sids -> Streams \cup {NoStream}] /\ held \in BOOLEAN
      /\ AllAwaited /\ SseMatch /\ Unheld
  BY DEF IInv, TypeOK, StreamRecords, Phases, Sids
<1>d. \A i \in known : Dangling(i) => Detaching(i)
  BY DEF DeadStreamsAreDropped, Dangling, Detaching
<1>a. ASSUME \A i \in known' : Dangling(i)' => Detaching(i)' PROVE DeadStreamsAreDropped'
  BY <1>a DEF DeadStreamsAreDropped, Dangling, Detaching
\* What leaves the table and the streams it points at as they are.
<1>b. ASSUME known' = known, sse' = sse,
             \A s \in Streams : stream[s].phase = "up" => stream'[s].phase # "closed",
             \A i \in known : Detaching(i) => Detaching(i)'
      PROVE  DeadStreamsAreDropped'
  <2>1. ASSUME NEW i \in known', Dangling(i)' PROVE Detaching(i)'
    <3>1. i \in Sids /\ i \in known /\ sse[i] # NoStream /\ stream'[sse[i]].phase = "closed"
      BY <1>0, <1>b, <2>1 DEF Dangling
    <3>2. sse[i] \in Streams /\ stream[sse[i]].phase \in {"up", "closed"}
      BY <1>0, <3>1 DEF SseMatch
    <3>3. Dangling(i)
      BY <1>b, <3>1, <3>2 DEF Dangling
    <3> QED
      BY <1>b, <1>d, <3>1, <3>3
  <2> QED
    BY <1>a, <2>1
<1>1. ASSUME NEW c \in Clients, PostInitialize(c) PROVE DeadStreamsAreDropped'
  <2>1. [tag |-> "issue", from |-> c] \in Messages
    BY DEF Messages
  <2>2. \A i : Detaching(i) => Detaching(i)'
    BY <1>1, <2>1, DetachWaits DEF PostInitialize
  <2> QED
    BY <1>1, <1>b, <2>2 DEF PostInitialize
<1>2. ASSUME NEW c \in Clients, NEW i \in Sids, PostRequest(c, i) PROVE DeadStreamsAreDropped'
  <2>1. [tag |-> "validate", from |-> c, id |-> i] \in Messages
    BY DEF Messages
  <2>2. \A j : Detaching(j) => Detaching(j)'
    BY <1>2, <2>1, DetachWaits DEF PostRequest
  <2> QED
    BY <1>2, <1>b, <2>2 DEF PostRequest
<1>3. ASSUME NEW c \in Clients, NEW s \in Streams, GetEvents(c, s) PROVE DeadStreamsAreDropped'
  <2>1. [tag |-> "validate", from |-> s, id |-> uses[c]] \in Messages
    BY <1>0, <1>3 DEF Messages, GetEvents, Sids
  <2>2. \A j : Detaching(j) => Detaching(j)'
    BY <1>3, <2>1, DetachWaits DEF GetEvents
  <2>3. \A r \in Streams : stream[r].phase = "up" => stream'[r] = stream[r]
    BY <1>0, <1>3 DEF GetEvents
  <2> QED
    BY <1>3, <1>b, <2>2, <2>3 DEF GetEvents
<1>4. ASSUME NEW s \in Streams, Attach(s) PROVE DeadStreamsAreDropped'
  <2>1. [tag |-> "attach", from |-> s, id |-> stream[s].id] \in Messages
    BY <1>0, <1>4 DEF Messages, Attach, Named
  <2>2. \A j : Detaching(j) => Detaching(j)'
    BY <1>4, <2>1, DetachWaits DEF Attach
  <2>3. \A r \in Streams : stream[r].phase = "up" => stream'[r] = stream[r]
    BY <1>0, <1>4 DEF Attach
  <2> QED
    BY <1>4, <1>b, <2>2, <2>3 DEF Attach
<1>5. ASSUME NEW s \in Streams, Drops(s) PROVE DeadStreamsAreDropped'
  <2>1. \A r \in Streams : stream'[r].phase = stream[r].phase
    BY <1>0, <1>5 DEF Drops
  <2> QED
    BY <1>5, <1>b, <2>1 DEF Drops, Detaching
<1>6. ASSUME NEW s \in Streams, BeatFails(s) PROVE DeadStreamsAreDropped'
  <2> DEFINE m == [tag |-> "detach", from |-> s, id |-> stream[s].id]
  <2>1. m \in Messages /\ Sent(m) /\ m.tag = "detach" /\ m.id = stream[s].id
    BY <1>0, <1>6 DEF Messages, BeatFails, Named
  <2> HIDE DEF m
  <2>2. \A j : Detaching(j) => Detaching(j)'
    BY <2>1, DetachWaits
  <2>3. held => \A i \in Sids : i = stream[s].id => Detaching(i)'
    <3>1. held => Len(mailbox) + 1 \in DOMAIN mailbox' /\ mailbox'[Len(mailbox) + 1] = m
      BY <1>0, <2>1, SentLast
    <3> QED
      BY <2>1, <3>1 DEF Detaching
  <2>4. /\ known' = known /\ sse' = sse /\ held' = held
        /\ \A r \in Streams \ {s} : stream'[r] = stream[r]
    BY <1>0, <1>6 DEF BeatFails
  <2>5. ASSUME NEW i \in known', Dangling(i)' PROVE Detaching(i)'
    <3>1. held /\ i \in known /\ i \in Sids /\ sse[i] # NoStream /\ sse[i] \in Streams
      BY <1>0, <2>4, <2>5 DEF Dangling, Unheld
    <3>2. CASE sse[i] = s
      BY <1>0, <2>3, <3>1, <3>2 DEF SseMatch
    <3>3. CASE sse[i] # s
      BY <1>d, <2>2, <2>4, <2>5, <3>1, <3>3 DEF Dangling
    <3> QED
      BY <3>2, <3>3
  <2> QED
    BY <1>a, <2>5
<1>7. CASE Issue
  <2>1. Takes("issue")
    BY <1>7 DEF Issue
  <2>2. \A j : Detaching(j) => Detaching(j)'
    BY <2>1, DetachStays
  <2>3. known' = known \cup {issued + 1} /\ sse' = sse /\ stream' = stream
    BY <1>7 DEF Issue
  <2>4. issued + 1 \in Sids /\ issued + 1 \notin known
    BY <1>0, <1>7, IssueTakes
  <2>5. sse[issued + 1] = NoStream
    BY <1>0, <2>4 DEF SseMatch
  <2> QED
    BY <1>a, <1>d, <2>2, <2>3, <2>5 DEF Dangling
<1>8. CASE Validate
  <2>1. Takes("validate") /\ known' = known /\ sse' = sse
    BY <1>8 DEF Validate
  <2>2. \A j : Detaching(j) => Detaching(j)'
    BY <2>1, DetachStays
  <2>3. Msg \in Messages /\ Msg.tag = "validate" /\ Awaited(Msg)
    BY <1>0, <2>1, TakesHead DEF AllAwaited
  <2>4. \A s \in Streams : stream'[s] = stream[s] \/ stream[s].phase = "validating"
    BY <1>0, <1>8, <2>3, MessageFields DEF Validate, Answer, Awaited
  <2> QED
    BY <1>b, <2>1, <2>2, <2>4
<1>9. CASE AttachSse
  <2>1. Takes("attach")
    BY <1>9 DEF AttachSse
  <2>2. \A j : Detaching(j) => Detaching(j)'
    BY <2>1, DetachStays
  <2>3. Msg \in Messages /\ Msg.tag = "attach" /\ Awaited(Msg)
    BY <1>0, <2>1, TakesHead DEF AllAwaited
  <2>4. Msg.from \in Streams /\ Msg.id \in Sids /\ stream[Msg.from].phase = "attaching"
    BY <2>3, MessageFields DEF Awaited
  <2>5. stream'[Msg.from].phase = "up" /\ \A s \in Streams \ {Msg.from} : stream'[s] = stream[s]
    BY <1>0, <1>9, <2>4 DEF AttachSse, StreamRecords
  <2>6. known' = known /\ \A i \in Sids : sse'[i] \in {sse[i], Msg.from}
    BY <1>0, <1>9, <2>4 DEF AttachSse
  <2>7. ASSUME NEW i \in known', Dangling(i)' PROVE Detaching(i)'
    <3>1. i \in Sids /\ i \in known /\ sse'[i] # Msg.from /\ sse'[i] = sse[i]
      BY <1>0, <2>5, <2>6, <2>7 DEF Dangling
    <3>2. sse[i] \in Streams \ {Msg.from} /\ Dangling(i)
      BY <1>0, <2>5, <2>7, <3>1 DEF Dangling
    <3> QED
      BY <1>d, <2>2, <3>1, <3>2
  <2> QED
    BY <1>a, <2>7
<1>10. CASE DetachSse
  <2>1. Takes("detach") /\ known' = known /\ stream' = stream
        /\ sse' = IF Msg.id \in known THEN [sse EXCEPT ![Msg.id] = NoStream] ELSE sse
    BY <1>10 DEF DetachSse
  <2>2. \A j : j # Msg.id /\ Detaching(j) => Detaching(j)'
    BY <2>1, DetachStays
  <2>3. \A i \in known : Dangling(i)' => i # Msg.id /\ Dangling(i)
    BY <1>0, <2>1 DEF Dangling
  <2> QED
    BY <1>a, <1>d, <2>1, <2>2, <2>3
<1>11. CASE Evict
  <2>1. Takes("evict")
    BY <1>11 DEF Evict
  <2>2. \A j : Detaching(j) => Detaching(j)'
    BY <2>1, DetachStays
  <2>3. known' \subseteq known /\ stream' = stream /\ \A i \in known' : sse'[i] = sse[i]
    BY <1>0, <1>11 DEF Evict, Keep
  <2> QED
    BY <1>a, <1>d, <2>2, <2>3 DEF Dangling
<1>12. CASE Crash
  BY <1>12, <1>a DEF Crash
<1>13. CASE Tick
  <2>1. known' = known /\ sse' = sse /\ stream' = stream /\ mailbox = <<>>
    BY <1>13 DEF Tick
  <2>2. \A j : ~Detaching(j)
    BY <2>1 DEF Detaching
  <2> QED
    BY <1>a, <1>d, <2>1, <2>2 DEF Dangling
<1>14. CASE UNCHANGED vars
  BY <1>a, <1>d, <1>14 DEF vars, Dangling, Detaching
<1> QED
  BY <1>1, <1>2, <1>3, <1>4, <1>5, <1>6, <1>7, <1>8, <1>9, <1>10, <1>11, <1>12, <1>13, <1>14
  DEF Next, Table

\* A session whose stream has ended is one whose detach is in the mailbox: the
\* table never keeps pointing at a stream whose loop has left, whichever order
\* attaches, detaches and evictions of any number of streams are served in.
THEOREM NoStreamDangles == Spec => []DeadStreamsAreDropped
<1>1. Init => DeadStreamsAreDropped
  BY DEF Init, DeadStreamsAreDropped
<1>2. IInv /\ DeadStreamsAreDropped /\ [Next]_vars => DeadStreamsAreDropped'
  BY DroppedStep
<1> QED
  BY SpecIInv, <1>1, <1>2, PTL DEF Spec
=============================================================================
