---------------------------- MODULE HttpSessions ----------------------------
(***************************************************************************)
(* MCP sessions over HTTP: the table actor (pharos/mcp/sessions.gleam),    *)
(* the POST handlers that issue and validate sessions and the SSE streams  *)
(* that attach to them (pharos/mcp/http.gleam).                            *)
(*                                                                         *)
(* A session is the number of its issue.  Times are ages in ticks, capped  *)
(* just past the point where they stop mattering; a tick passes only when  *)
(* the table's mailbox is empty, which it nearly always is.  The listener  *)
(* keeps the Subject it was started with: a table restarted by its         *)
(* supervisor is one it does not know (held).  Nothing in the program      *)
(* sends Push, Close or Touch yet, so they are left out.                   *)
(***************************************************************************)
EXTENDS Naturals, Sequences, FiniteSets

CONSTANTS
  Clients,      \* HTTP clients; each has one POST open at a time
  Streams,      \* bound: GET /mcp/events requests, each made at most once
  NoStream,
  MaxSessions,  \* bound: sessions issued
  IdleTimeout,  \* idle_timeout_ms, in ticks
  Interval,     \* eviction_interval_ms, in ticks
  Faults        \* which disruptions this instance considers

ASSUME ConstantsAssumption ==
  /\ NoStream \notin Streams /\ Clients \cap Streams = {} /\ IsFiniteSet(Clients)
  /\ MaxSessions \in Nat /\ IdleTimeout \in Nat /\ Interval \in Nat \ {0}
  /\ Faults \subseteq {"crash", "drop"}

VARIABLES
  post,     \* what a client's POST is doing
  uses,     \* the session a client was issued last (0: none)
  stream,   \* the SSE processes
  mailbox,  \* of the table actor
  issued,   \* sessions issued so far
  known,    \* the keys of State.table
  sse,      \* SessionState.sse_subject
  age,      \* time since last_activity_us, also of sessions that are gone
  timer,    \* of the Evict message: ticks left (0: not set), and the age of its now_us
  held      \* the table the listener calls is the one that runs

vars == <<post, uses, stream, mailbox, issued, known, sse, age, timer, held>>

Sids == 1..MaxSessions
Old == IdleTimeout + Interval + 1

\* schedule_eviction: now_us is read when the timer is set.
Scheduled == [left |-> Interval, stamp |-> 0]
Unset == [left |-> 0, stamp |-> 0]

Init ==
  /\ post = [c \in Clients |-> "none"]
  /\ uses = [c \in Clients |-> 0]
  /\ stream = [s \in Streams |-> [phase |-> "none", id |-> 0, gone |-> FALSE]]
  /\ mailbox = <<>>
  /\ issued = 0 /\ known = {}
  /\ sse = [i \in Sids |-> NoStream]
  /\ age = [i \in Sids |-> 0]
  /\ timer = Scheduled
  /\ held = TRUE

-----------------------------------------------------------------------------
(* The HTTP processes.                                                      *)

Busy == {"issuing", "validating"}

\* actor.call and actor.send to the table: to a dead one a call panics, and the
\* request ends in a 500, while a cast is lost.
Sent(m) == mailbox' = IF held THEN Append(mailbox, m) ELSE mailbox

\* handle_session: an initialize is issued a session ...
PostInitialize(c) ==
  /\ post[c] \notin Busy
  /\ issued + Cardinality({d \in Clients : post[d] = "issuing"}) < MaxSessions
  /\ post' = [post EXCEPT ![c] = IF held THEN "issuing" ELSE "failed"]
  /\ Sent([tag |-> "issue", from |-> c])
  /\ UNCHANGED <<uses, stream, issued, known, sse, age, timer, held>>

\* ... anything else, POST /mcp/respond too, must carry a known one; a client of
\* an earlier run of the server carries another.
PostRequest(c, i) ==
  /\ post[c] \notin Busy
  /\ i = uses[c] \/ i > issued
  /\ post' = [post EXCEPT ![c] = IF held THEN "validating" ELSE "failed"]
  /\ Sent([tag |-> "validate", from |-> c, id |-> i])
  /\ UNCHANGED <<uses, stream, issued, known, sse, age, timer, held>>

\* handle_sse.
GetEvents(c, s) ==
  /\ stream[s].phase = "none" /\ uses[c] # 0
  /\ stream' = [stream EXCEPT ![s] = [phase |-> IF held THEN "validating" ELSE "closed",
                                      id |-> uses[c], gone |-> FALSE]]
  /\ Sent([tag |-> "validate", from |-> s, id |-> uses[c]])
  /\ UNCHANGED <<post, uses, issued, known, sse, age, timer, held>>

\* sse_init, whose result is not looked at.
Attach(s) ==
  /\ stream[s].phase = "init"
  /\ stream' = [stream EXCEPT ![s].phase = IF held THEN "attaching" ELSE "closed"]
  /\ Sent([tag |-> "attach", from |-> s, id |-> stream[s].id])
  /\ UNCHANGED <<post, uses, issued, known, sse, age, timer, held>>

\* The client's connection drops; the loop cannot see it.
Drops(s) ==
  /\ "drop" \in Faults
  /\ stream[s].phase \in {"init", "attaching", "up"} /\ ~stream[s].gone
  /\ stream' = [stream EXCEPT ![s].gone = TRUE]
  /\ UNCHANGED <<post, uses, mailbox, issued, known, sse, age, timer, held>>

\* (mutation) The loop just stops.
StopUndetached(s) ==
  /\ stream[s].phase = "up" /\ stream[s].gone
  /\ stream' = [stream EXCEPT ![s].phase = "closed"]
  /\ UNCHANGED <<post, uses, mailbox, issued, known, sse, age, timer, held>>

\* (mutation) The heartbeat is not armed again, so that none fails.
BeatLost(s) == FALSE

\* sse_loop: a heartbeat that cannot be sent ends the loop.  One that can only
\* arms the next, which is left implicit.
BeatFails(s) ==
  /\ stream[s].phase = "up" /\ stream[s].gone
  /\ stream' = [stream EXCEPT ![s].phase = "closed"]
  /\ Sent([tag |-> "detach", from |-> s, id |-> stream[s].id])
  /\ UNCHANGED <<post, uses, issued, known, sse, age, timer, held>>

-----------------------------------------------------------------------------
(* The table actor.                                                         *)

Takes(tag) ==
  /\ held /\ mailbox # <<>> /\ Head(mailbox).tag = tag
  /\ mailbox' = Tail(mailbox)

Msg == Head(mailbox)

\* (mutation) The same id is issued again.
IssueAgain ==
  /\ Takes("issue")
  /\ known' = known \cup {issued + 1}
  /\ post' = [post EXCEPT ![Msg.from] = "ok"]
  /\ uses' = [uses EXCEPT ![Msg.from] = issued + 1]
  /\ UNCHANGED <<stream, issued, sse, age, timer, held>>

Issue ==
  /\ Takes("issue")
  /\ issued' = issued + 1
  /\ known' = known \cup {issued'}
  /\ age' = [age EXCEPT ![issued'] = 0]
  /\ post' = [post EXCEPT ![Msg.from] = "ok"]
  /\ uses' = [uses EXCEPT ![Msg.from] = issued']
  /\ UNCHANGED <<stream, sse, timer, held>>

\* The answer to a validate, to a POST or to an SSE request.
Answer(ok) ==
  IF Msg.from \in Clients
  THEN /\ post' = [post EXCEPT ![Msg.from] = IF ok THEN "ok" ELSE "rejected"]
       /\ UNCHANGED stream
  ELSE /\ stream' = [stream EXCEPT ![Msg.from].phase = IF ok THEN "init" ELSE "closed"]
       /\ UNCHANGED post

Validate ==
  /\ Takes("validate")
  /\ age' = IF Msg.id \in known THEN [age EXCEPT ![Msg.id] = 0] ELSE age
  /\ Answer(Msg.id \in known)
  /\ UNCHANGED <<uses, issued, known, sse, timer, held>>

AttachSse ==
  /\ Takes("attach")
  /\ sse' = IF Msg.id \in known THEN [sse EXCEPT ![Msg.id] = Msg.from] ELSE sse
  /\ stream' = [stream EXCEPT ![Msg.from].phase = "up"]
  /\ UNCHANGED <<post, uses, issued, known, age, timer, held>>

\* DetachSse names the session, not the stream.
DetachSse ==
  /\ Takes("detach")
  /\ sse' = IF Msg.id \in known THEN [sse EXCEPT ![Msg.id] = NoStream] ELSE sse
  /\ UNCHANGED <<post, uses, stream, issued, known, age, timer, held>>

Cutoff == timer.stamp + IdleTimeout

\* (mutation) The comparison turned round.
EvictTheLive == known' = {i \in known : age[i] > Cutoff}
Keep == known' = {i \in known : age[i] <= Cutoff}

\* Evict does not schedule the next sweep.
Evict ==
  /\ Takes("evict")
  /\ Keep
  /\ sse' = [i \in Sids |-> IF i \in known' THEN sse[i] ELSE NoStream]
  /\ timer' = Unset
  /\ UNCHANGED <<post, uses, stream, issued, age, held>>

\* The actor dies and its supervisor starts another: a fresh table under a
\* Subject the listener never asks for.  Whoever was in a call panics with it.
Crash ==
  /\ "crash" \in Faults /\ held
  /\ held' = FALSE
  /\ mailbox' = <<>> /\ known' = {}
  /\ sse' = [i \in Sids |-> NoStream]
  /\ timer' = Scheduled
  /\ post' = [c \in Clients |-> IF post[c] \in Busy THEN "failed" ELSE post[c]]
  /\ stream' = [s \in Streams |->
       IF stream[s].phase \in {"validating", "attaching"}
       THEN [stream[s] EXCEPT !.phase = "closed"] ELSE stream[s]]
  /\ UNCHANGED <<uses, issued, age>>

-----------------------------------------------------------------------------
\* Time passes; the Evict message arrives when its timer runs out.
Tick ==
  /\ held /\ mailbox = <<>>
  /\ age' = [i \in Sids |-> IF i <= issued /\ age[i] < Old THEN age[i] + 1 ELSE age[i]]
  /\ timer' = IF timer.left = 0 THEN Unset
              ELSE [left |-> timer.left - 1, stamp |-> timer.stamp + 1]
  /\ mailbox' = IF timer.left = 1 THEN <<[tag |-> "evict"]>> ELSE <<>>
  /\ UNCHANGED <<post, uses, stream, issued, known, sse, held>>

Table == Issue \/ Validate \/ AttachSse \/ DetachSse \/ Evict

Next ==
  \/ \E c \in Clients :
       \/ PostInitialize(c)
       \/ \E i \in Sids : PostRequest(c, i)
       \/ \E s \in Streams : GetEvents(c, s)
  \/ \E s \in Streams : Attach(s) \/ Drops(s) \/ BeatFails(s)
  \/ Table \/ Crash \/ Tick

Spec == Init /\ [][Next]_vars

\* Both the table and the streams are scheduled, and heartbeats keep coming.
FairSpec ==
  Spec /\ WF_vars(Table) /\ \A s \in Streams : WF_vars(Attach(s)) /\ WF_vars(BeatFails(s))

-----------------------------------------------------------------------------
(* Properties.                                                              *)

Messages ==
  [tag : {"issue"}, from : Clients]
  \cup [tag : {"validate"}, from : Clients \cup Streams, id : Sids]
  \cup [tag : {"attach", "detach"}, from : Streams, id : Sids]
  \cup [tag : {"evict"}]

\* Types of the variables.
TypeOK ==
  /\ post \in [Clients -> Busy \cup {"none", "ok", "rejected", "failed"}]
  /\ uses \in [Clients -> 0..MaxSessions]
  /\ stream \in [Streams -> [phase : {"none", "validating", "init", "attaching", "up", "closed"},
                             id : 0..MaxSessions, gone : BOOLEAN]]
  /\ mailbox \in Seq(Messages)
  /\ issued \in 0..MaxSessions /\ known \subseteq 1..issued
  /\ sse \in [Sids -> Streams \cup {NoStream}]
  /\ age \in [Sids -> 0..Old]
  /\ timer \in [left : 0..Interval, stamp : 0..Interval]
  /\ held \in BOOLEAN

\* A session in use is never forgotten while its table lives: one that is gone
\* had been idle for idle_timeout_ms (handle_session rejects the id after that).
LivesWhileUsed ==
  held => \A i \in 1..issued : i \in known \/ age[i] > IdleTimeout

\* The table points at no stream that has ended, but for a moment: the detach
\* is on its way (sse_loop detaches on each of its exits).
DeadStreamsAreDropped ==
  \A i \in known : sse[i] # NoStream /\ stream[sse[i]].phase = "closed" =>
    \E n \in DOMAIN mailbox : mailbox[n].tag = "detach" /\ mailbox[n].id = i

\* Every POST is answered, even when the table dies under it.
PostsAreAnswered == \A c \in Clients : post[c] \in Busy ~> post[c] \notin Busy

\* A stream whose client has gone comes to an end (the heartbeat is armed again
\* after each message).
StreamsEnd == \A s \in Streams : stream[s].gone ~> stream[s].phase = "closed"

\* Nothing a client has begun is left hanging: its POSTs, its streams.
ExchangesEnd == PostsAreAnswered /\ StreamsEnd

\* Not so: sessions.gleam says "any session untouched for idle_timeout_ms is removed by the
\* eviction sweep running every eviction_interval_ms".
SessionsExpire == \A i \in known : age[i] <= IdleTimeout + Interval

\* Not so: a client that reconnects after a drop has its new stream attached
\* in place of the old one, whose loop has yet to notice.
ReconnectStays ==
  \A s \in Streams :
    /\ stream[s].phase = "up" /\ ~stream[s].gone /\ stream[s].id \in known
    /\ \A r \in Streams \ {s} :
         stream[r].phase # "none" /\ stream[r].id = stream[s].id =>
           stream[r].gone \/ stream[r].phase = "closed"
    => sse[stream[s].id] = s

\* Not so: ADR-013, after a crash of the table "a fresh table allows new connections".
NewClientsAreServed == [][\A c \in Clients : PostInitialize(c) => post'[c] = "issuing"]_vars
=============================================================================
