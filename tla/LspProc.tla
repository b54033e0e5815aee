------------------------------- MODULE LspProc -------------------------------
(***************************************************************************)
(* One LSP worker (pharos/lsp/proc.gleam): the actor that owns a language  *)
(* server's port, the client state it threads through its handlers         *)
(* (client.gleam: framing buffer, queue of coalesced frames, handlers) and *)
(* the receive loops it runs inside a handler (lifecycle.gleam             *)
(* wait_for_response, proc.gleam drain_loop).  The language server at the  *)
(* other end of the port is a nondeterministic environment.                *)
(*                                                                         *)
(* The mailbox keeps arrival order.  Between handlers the actor takes its  *)
(* head; inside a handler receive_data is a selective receive, which takes *)
(* the first message of the port and leaves the others where they are.  A  *)
(* handler works on a copy of the client (work); it becomes the actor's    *)
(* client only if the handler succeeds.                                    *)
(*                                                                         *)
(* A frame on the wire is one piece, or a head and a tail when a read ends *)
(* inside it.  Time is counted in ticks that pass only while the actor has *)
(* nothing it could do: computation is instantaneous, servers are not.     *)
(***************************************************************************)
EXTENDS Naturals, SequencesExt

CONSTANTS
  Clients,     \* processes that call the proc; each is its own MCP request id
  NoClient,
  Methods,     \* which calls this instance makes
  Chatter,     \* which frames its server sends unasked
  Faults,      \* which disruptions this instance considers
  MaxCalls,    \* bound: calls made in a run
  MaxFrames,   \* bound: frames the server sends in a run
  Budget,      \* timeout_ms of a call, in ticks
  Slack        \* what the caller's actor.call waits on top (5000 ms), in ticks

ASSUME ConstantsAssumption ==
  /\ Methods \subseteq {"request", "rename", "publish"}
  /\ Chatter \subseteq {"configuration", "applyEdit", "publish"}
  /\ Faults \subseteq {"slow", "split", "error", "exit", "close"}
  /\ MaxCalls \in Nat /\ MaxFrames \in Nat /\ Budget \in Nat /\ Slack \in Nat
  /\ NoClient \notin Clients

VARIABLES
  calls,     \* the callers
  issued,    \* tickets given out: one per call, also its LSP request id
  mailbox,   \* the actor's mailbox
  alive,     \* the actor
  client,    \* State.client: buffer, queue, and who captures applyEdit (0: nobody)
  serving,   \* the handler that is running its receive loop
  work,      \* the client that handler threads through its loop
  reading,   \* pieces read_until_message has read without completing a frame
  inflight,  \* pharos_inflight: MCP request id -> LSP request id (0: no row)
  cache,     \* diagnostics cache: version of the latest publish stored (0: none)
  edits,     \* edits that reached a capture handler
  port,      \* "up", "dying" (the server exited), "closed" (exit_status sent)
  wire,      \* pieces written by the server and not yet read
  owed,      \* requests the server has still to answer
  told,      \* requests the server was told to cancel
  emitted,   \* frames the server has sent, in order
  handled,   \* frames the actor has dispatched, in order
  clean      \* history: no call has failed, no publish drain has passed a step

callVars == <<calls, issued>>
procVars == <<alive, client, serving, work, reading, inflight, cache, edits, handled, clean>>
serverVars == <<port, wire, owed, told, emitted>>
vars == <<callVars, mailbox, procVars, serverVars>>

Tickets == 1..MaxCalls
Resting == {"idle", "ok", "error", "panic"}
ServerRequests == {"configuration", "applyEdit"}

Frame == [kind : {"response", "error", "publish"} \cup ServerRequests,
          ticket : 0..MaxCalls, n : 1..MaxFrames]
Piece == [part : {"whole", "head", "tail"}, frame : Frame]

\* client.start_with_env: an empty buffer, an empty queue, the default handlers.
Fresh == [buffer |-> <<>>, queue |-> <<>>, capture |-> 0]
Idle == [job |-> "none", from |-> NoClient, ticket |-> 0,
         silence |-> 0, left |-> 0, found |-> FALSE]

Init ==
  /\ calls = [c \in Clients |->
                [phase |-> "idle", method |-> "request", ticket |-> 0, waited |-> 0, got |-> 0]]
  /\ issued = 0
  /\ mailbox = <<>>
  /\ alive = TRUE
  /\ client = Fresh /\ work = Fresh
  /\ serving = Idle
  /\ reading = <<>>
  /\ inflight = [c \in Clients |-> 0]
  /\ cache = 0
  /\ edits = {}
  /\ port = "up" /\ wire = <<>>
  /\ owed = {} /\ told = {}
  /\ emitted = <<>> /\ handled = <<>> /\ clean = TRUE

-----------------------------------------------------------------------------
(* Framing.                                                                 *)

\* Consecutive pieces that belong together: every tail follows its head and
\* only the last piece may be a head.
Joined(s) ==
  \A i \in DOMAIN s :
    /\ s[i].part = "tail" =>
         i > 1 /\ s[i - 1] = [part |-> "head", frame |-> s[i].frame]
    /\ s[i].part = "head" /\ i < Len(s) =>
         s[i + 1] = [part |-> "tail", frame |-> s[i].frame]

\* A tail, or a head, with another frame's bytes behind it is a malformed header.
\* So is a lone tail that was cut inside its header; in one cut inside its body
\* the parser finds no end of a header and keeps buffering.
MayParse(s) == Joined(s) \/ Len(s) = 1

IsLast(p) == p.part # "head"

\* The frames whose last piece is there.
Frames(s) ==
  LET upto[n \in 0..Len(s)] ==
        IF n = 0 THEN <<>>
        ELSE IF IsLast(s[n]) THEN Append(upto[n - 1], s[n].frame) ELSE upto[n - 1]
  IN  upto[Len(s)]

\* (mutation) The parser's accumulator is not reversed.
CompleteUnreversed(s) == IF Joined(s) THEN Reverse(Frames(s)) ELSE <<>>

Complete(s) == IF Joined(s) THEN Frames(s) ELSE <<>>

Leftover(s) ==
  IF ~Joined(s) THEN s
  ELSE IF s # <<>> /\ s[Len(s)].part = "head" THEN <<s[Len(s)]>> ELSE <<>>

-----------------------------------------------------------------------------
(* The callers.                                                             *)

Post(m) == mailbox' = IF alive THEN Append(mailbox, m) ELSE mailbox

CallMessage(c, m, t) == [tag |-> "call", from |-> c, method |-> m, ticket |-> t]

\* proc.request, request_raw or wait_for_publish_diagnostics.
Call(c, m) ==
  /\ m \in Methods \ {"rename"}
  /\ calls[c].phase \in Resting
  /\ issued < MaxCalls
  /\ issued' = issued + 1
  /\ calls' = [calls EXCEPT ![c] =
       [phase |-> "waiting", method |-> m, ticket |-> issued', waited |-> 0, got |-> 0]]
  /\ Post(CallMessage(c, m, issued'))
  /\ UNCHANGED <<procVars, serverVars>>

\* proc.with_handler sends AddHandler ...
Install(c) ==
  /\ "rename" \in Methods
  /\ calls[c].phase \in Resting
  /\ issued < MaxCalls
  /\ issued' = issued + 1
  /\ calls' = [calls EXCEPT ![c] =
       [phase |-> "installed", method |-> "rename", ticket |-> issued', waited |-> 0, got |-> 0]]
  /\ Post([tag |-> "handler", ticket |-> issued'])
  /\ UNCHANGED <<procVars, serverVars>>

\* ... and runs its body, the rename request.
CallRename(c) ==
  /\ calls[c].phase = "installed"
  /\ calls' = [calls EXCEPT ![c].phase = "waiting"]
  /\ Post(CallMessage(c, "rename", calls[c].ticket))
  /\ UNCHANGED <<issued, procVars, serverVars>>

\* actor.call raises when its own timeout expires or the proc is gone.
GiveUp(c) ==
  /\ calls[c].phase = "waiting"
  /\ calls[c].waited >= Budget + Slack \/ ~alive
  /\ calls' = [calls EXCEPT ![c].phase = "panic"]
  /\ UNCHANGED <<issued, mailbox, procVars, serverVars>>

\* The dispatcher of notifications/cancelled finds the row and sends
\* $/cancelRequest through the proc.  Bound: once per request.
Cancel(c) ==
  /\ inflight[c] # 0
  /\ inflight[c] \notin told
  /\ \A i \in DOMAIN mailbox : mailbox[i] # [tag |-> "cancel", ticket |-> inflight[c]]
  /\ Post([tag |-> "cancel", ticket |-> inflight[c]])
  /\ UNCHANGED <<callVars, procVars, serverVars>>

-----------------------------------------------------------------------------
(* What the handlers have in common.                                        *)

\* process.send to the reply subject: a caller that gave up no longer listens.
Reply(t, phase, got) ==
  calls' = [c \in Clients |->
    IF calls[c].phase = "waiting" /\ calls[c].ticket = t
    THEN [calls[c] EXCEPT !.phase = phase, !.got = got, !.waited = 0]
    ELSE calls[c]]

Published(fs) == {i \in DOMAIN fs : fs[i].kind = "publish"}

\* classify_and_dispatch on each frame: a publish overwrites the cache, an
\* applyEdit goes to whoever captures; the answer to the server is implied.
Dispatch(fs, capture) ==
  /\ handled' = handled \o fs
  /\ cache' = IF Published(fs) = {} THEN cache ELSE fs[Max(Published(fs))].n
  /\ edits' = IF capture = 0 THEN edits
              ELSE edits \cup {[by |-> capture, frame |-> fs[i]] :
                                 i \in {j \in DOMAIN fs : fs[j].kind = "applyEdit"}}

Rest == serving' = Idle /\ work' = Fresh /\ reading' = <<>>

\* Every end of a request drops its inflight row.
Untrack == inflight' = [inflight EXCEPT ![serving.from] = 0]

\* Mutation: a failed call is never answered.
FailSilently == Rest /\ Untrack /\ clean' = FALSE /\ UNCHANGED <<calls, client, cache, edits>>

\* The Error branch: reply, and continue with the client of before the call.
Fail ==
  /\ Reply(serving.ticket, "error", 0)
  /\ Rest
  /\ Untrack
  /\ clean' = FALSE
  /\ UNCHANGED <<client, cache, edits>>

-----------------------------------------------------------------------------
(* The actor between handlers: it takes the head of its mailbox.            *)

\* The place a receive between handlers takes.
Turn == 1

Takes(tag) ==
  /\ alive /\ serving = Idle
  /\ mailbox # <<>> /\ mailbox[Turn].tag = tag
  /\ mailbox' = RemoveAt(mailbox, Turn)

\* handle_request: track, send, enter the receive loop.  A closed port fails
\* the send at once.
TakeRequest ==
  /\ Takes("call")
  /\ LET m == mailbox[Turn] IN
     /\ m.method # "publish"
     /\ \/ /\ port # "closed"
           /\ inflight' = [inflight EXCEPT ![m.from] = m.ticket]
           /\ serving' = [Idle EXCEPT !.job = "request", !.from = m.from, !.ticket = m.ticket]
           /\ work' = client
           /\ owed' = IF port = "up" THEN owed \cup {[ticket |-> m.ticket, method |-> m.method]}
                      ELSE owed
           /\ UNCHANGED calls
        \/ /\ port = "closed"
           /\ Reply(m.ticket, "error", 0)
           /\ UNCHANGED <<inflight, serving, work, owed>>
  /\ UNCHANGED <<issued, alive, client, reading, cache, edits, handled, clean, port, wire, told, emitted>>

\* handle_wait_for_publish: drain_loop with the budget in steps of one tick.
TakePublish ==
  /\ Takes("call")
  /\ LET m == mailbox[Turn] IN
     /\ m.method = "publish"
     /\ serving' = [Idle EXCEPT !.job = "publish", !.from = m.from, !.ticket = m.ticket,
                                !.left = Budget]
  /\ work' = client
  /\ UNCHANGED <<callVars, alive, client, reading, inflight, cache, edits, handled, clean, serverVars>>

\* AddHandler: replaces the handler and never restores it.
TakeHandler ==
  /\ Takes("handler")
  /\ client' = [client EXCEPT !.capture = mailbox[Turn].ticket]
  /\ UNCHANGED <<callVars, alive, serving, work, reading, inflight, cache, edits, handled, clean, serverVars>>

\* SendNotification of $/cancelRequest.
TakeCancel ==
  /\ Takes("cancel")
  /\ told' = IF port = "up" THEN told \cup {mailbox[Turn].ticket} ELSE told
  /\ UNCHANGED <<callVars, procVars, port, wire, owed, emitted>>

\* PortMessage with data: feed the bytes, dispatch every frame now complete.
\* On a parse error feed_bytes keeps all the bytes and only the queue drains.
TakeData ==
  /\ Takes("data")
  /\ LET s == client.buffer \o mailbox[Turn].pieces
         fs == client.queue \o Complete(s)
     IN /\ client' = [client EXCEPT !.buffer = Leftover(s), !.queue = <<>>]
        /\ Dispatch(fs, client.capture)
  /\ UNCHANGED <<callVars, alive, serving, work, reading, inflight, clean, serverVars>>

\* PortMessage with exit_status: logged and dropped.
TakeExit ==
  /\ Takes("exit")
  /\ UNCHANGED <<callVars, procVars, serverVars>>

-----------------------------------------------------------------------------
(* The actor inside a handler: its receive loop.                            *)

PortMail == {i \in DOMAIN mailbox : mailbox[i].tag \in {"data", "exit"}}
FirstPort == Min(PortMail)

\* Mutation: drain_loop does not look at its budget.
PublishDoneOnceFound == serving.job = "publish" /\ ~serving.found /\ cache # 0

\* drain_loop returns when its budget is spent, or at once if the cache had an
\* answer before this call saw one arrive.
PublishDone ==
  /\ serving.job = "publish"
  /\ serving.left = 0 \/ (~serving.found /\ cache # 0)

EndPublish ==
  /\ alive /\ PublishDone
  /\ Reply(serving.ticket, "ok", serving.ticket)
  /\ client' = work
  /\ Rest
  /\ UNCHANGED <<issued, mailbox, alive, inflight, cache, edits, handled, clean, serverVars>>

\* One step of drain_loop went by without a frame: what it read is lost.
PassStep ==
  /\ serving' = [serving EXCEPT !.left = @ - 1, !.silence = 0]
  /\ reading' = <<>>
  /\ clean' = FALSE
  /\ UNCHANGED <<calls, client, work, inflight, cache, edits>>

\* The answer to the request being served.
Expected(f) == f.kind \in {"response", "error"} /\ f.ticket = serving.ticket

\* wait_for_response on the next frame, w being the client without it.
ServeRequest(f, w) ==
  \/ /\ Expected(f) /\ f.kind = "response"
     /\ Reply(serving.ticket, "ok", f.ticket)
     /\ client' = w
     /\ handled' = Append(handled, f)
     /\ Rest
     /\ Untrack
     /\ UNCHANGED <<cache, edits, clean>>
  \/ /\ Expected(f) /\ f.kind = "error"
     /\ handled' = Append(handled, f)
     /\ Fail
  \/ /\ ~Expected(f)
     /\ Dispatch(<<f>>, w.capture)
     /\ work' = w
     /\ reading' = <<>>
     /\ serving' = [serving EXCEPT !.silence = 0]
     /\ UNCHANGED <<calls, client, inflight, clean>>

\* drain_loop on the next frame.
ServePublish(f, w) ==
  /\ Dispatch(<<f>>, w.capture)
  /\ work' = w
  /\ reading' = <<>>
  /\ serving' = [serving EXCEPT !.left = @ - 1, !.silence = 0,
                                !.found = @ \/ cache' # 0]
  /\ UNCHANGED <<calls, client, inflight, clean>>

Serve(f, w) ==
  \/ serving.job = "request" /\ ServeRequest(f, w)
  \/ serving.job = "publish" /\ ServePublish(f, w)

Looping == alive /\ serving # Idle /\ ~PublishDone

\* next_message with a coalesced frame in the queue.
ServeQueued ==
  /\ Looping
  /\ work.queue # <<>>
  /\ Serve(Head(work.queue), [work EXCEPT !.queue = Tail(@)])
  /\ UNCHANGED <<issued, mailbox, alive, serverVars>>

Receives(tag) ==
  /\ Looping
  /\ work.queue = <<>>
  /\ PortMail # {} /\ mailbox[FirstPort].tag = tag
  /\ mailbox' = RemoveAt(mailbox, FirstPort)

\* read_until_message: a chunk arrives.  A framing error ends a request and a
\* publish drain alike.
ServeData ==
  /\ Receives("data")
  /\ LET chunk == mailbox[FirstPort].pieces
         s == work.buffer \o reading \o chunk
     IN \/ /\ Complete(s) # <<>>
           /\ Serve(Head(Complete(s)),
                    [work EXCEPT !.buffer = Leftover(s), !.queue = Tail(Complete(s))])
        \/ /\ MayParse(s) /\ Complete(s) = <<>>
           /\ reading' = reading \o chunk
           /\ serving' = [serving EXCEPT !.silence = 0]
           /\ UNCHANGED <<calls, client, work, inflight, cache, edits, handled, clean>>
        \/ /\ ~Joined(s)
           /\ Fail
           /\ UNCHANGED handled
  /\ UNCHANGED <<issued, alive, serverVars>>

\* PortReceiveError: it ends a request; a publish drain goes on to its next step.
Unreceived ==
  \/ serving.job = "request" /\ Fail
  \/ serving.job = "publish" /\ PassStep

ServeExit ==
  /\ Receives("exit")
  /\ Unreceived
  /\ UNCHANGED <<issued, alive, handled, serverVars>>

StepBudget == IF serving.job = "publish" THEN 1 ELSE Budget

\* Mutation: the receive loop waits for ever.
NeverTimedOut == FALSE
TimedOut == Looping /\ work.queue = <<>> /\ PortMail = {} /\ serving.silence >= StepBudget

ServeTimeout ==
  /\ TimedOut
  /\ Unreceived
  /\ UNCHANGED <<issued, mailbox, alive, handled, serverVars>>

\* proc.close through the supervisor: the actor dies wherever it is.
Terminate ==
  /\ "close" \in Faults
  /\ alive
  /\ alive' = FALSE
  /\ mailbox' = <<>> /\ wire' = <<>> /\ port' = "closed"
  /\ client' = Fresh
  /\ Rest
  /\ UNCHANGED <<callVars, inflight, cache, edits, handled, clean, owed, told, emitted>>

-----------------------------------------------------------------------------
(* The language server, its pipe, and time.                                 *)

Send(f) ==
  /\ emitted' = Append(emitted, f)
  /\ \/ wire' = Append(wire, [part |-> "whole", frame |-> f])
     \/ /\ "split" \in Faults
        /\ wire' = wire \o <<[part |-> "head", frame |-> f], [part |-> "tail", frame |-> f]>>

\* The server answers a request, in any order.
Answer(r) ==
  /\ port = "up" /\ r \in owed /\ Len(emitted) < MaxFrames
  /\ \E kind \in {"response", "error"} :
       /\ kind = "error" => "error" \in Faults
       /\ Send([kind |-> kind, ticket |-> r.ticket, n |-> Len(emitted) + 1])
  /\ owed' = owed \ {r}
  /\ UNCHANGED <<callVars, mailbox, procVars, port, told>>

\* The edit a rename request brings about, sent as a request of the server's own.
AskToApply(r) ==
  /\ port = "up" /\ r \in owed /\ r.method = "rename" /\ Len(emitted) < MaxFrames
  /\ Send([kind |-> "applyEdit", ticket |-> r.ticket, n |-> Len(emitted) + 1])
  /\ UNCHANGED <<callVars, mailbox, procVars, port, owed, told>>

Chat(kind) ==
  /\ port = "up" /\ kind \in Chatter /\ Len(emitted) < MaxFrames
  /\ Send([kind |-> kind, ticket |-> 0, n |-> Len(emitted) + 1])
  /\ UNCHANGED <<callVars, mailbox, procVars, port, owed, told>>

\* The port reads what is in the pipe, up to any point.
Deliver(n) ==
  /\ alive /\ port # "closed" /\ n \in 1..Len(wire)
  /\ mailbox' = Append(mailbox, [tag |-> "data", pieces |-> SubSeq(wire, 1, n)])
  /\ wire' = SubSeq(wire, n + 1, Len(wire))
  /\ UNCHANGED <<callVars, procVars, port, owed, told, emitted>>

ServerExits ==
  /\ "exit" \in Faults /\ port = "up"
  /\ port' = "dying"
  /\ owed' = {}
  /\ UNCHANGED <<callVars, mailbox, procVars, wire, told, emitted>>

PortCloses ==
  /\ alive /\ port = "dying" /\ wire = <<>>
  /\ port' = "closed"
  /\ mailbox' = Append(mailbox, [tag |-> "exit"])
  /\ UNCHANGED <<callVars, procVars, wire, owed, told, emitted>>

CanMove ==
  /\ alive
  /\ \/ serving = Idle /\ mailbox # <<>>
     \/ serving # Idle /\ (PublishDone \/ work.queue # <<>> \/ PortMail # {} \/ TimedOut)

Waiting(c) == calls[c].phase = "waiting"

Tick ==
  /\ "slow" \in Faults
  /\ ~CanMove
  /\ serving # Idle \/ \E c \in Clients : Waiting(c)
  /\ \A c \in Clients : Waiting(c) => calls[c].waited < Budget + Slack
  /\ calls' = [c \in Clients |->
       IF Waiting(c) THEN [calls[c] EXCEPT !.waited = @ + 1] ELSE calls[c]]
  /\ serving' = IF serving = Idle THEN Idle ELSE [serving EXCEPT !.silence = IF @ < Budget THEN @ + 1 ELSE @]
  /\ UNCHANGED <<issued, mailbox, alive, client, work, reading, inflight, cache, edits,
                 handled, clean, serverVars>>

-----------------------------------------------------------------------------
TakeMessage ==
  TakeRequest \/ TakePublish \/ TakeHandler \/ TakeCancel \/ TakeData \/ TakeExit

Loop == EndPublish \/ ServeQueued \/ ServeData \/ ServeExit \/ ServeTimeout

ServerStep ==
  \/ \E r \in owed : Answer(r) \/ AskToApply(r)
  \/ \E kind \in Chatter : Chat(kind)
  \/ ServerExits

PipeStep == (\E n \in 1..Len(wire) : Deliver(n)) \/ PortCloses

Next ==
  \/ \E c \in Clients :
       (\E m \in Methods : Call(c, m)) \/ Install(c) \/ CallRename(c) \/ GiveUp(c) \/ Cancel(c)
  \/ TakeMessage
  \/ Loop
  \/ Terminate
  \/ ServerStep
  \/ PipeStep
  \/ Tick

Spec == Init /\ [][Next]_vars

\* The scheduler runs a process that can run, the kernel hands over what is in
\* the pipe, and time passes.  Nothing obliges the server to send anything, nor to
\* stop: MaxFrames bounds what it sends, so no property may say that a loop ends
\* because the frames do.
Fairness ==
  /\ WF_vars(TakeMessage)
  /\ WF_vars(Loop)
  /\ WF_vars(PipeStep)
  /\ WF_vars(Tick)
  /\ \A c \in Clients : WF_vars(GiveUp(c)) /\ WF_vars(CallRename(c))

FairSpec == Spec /\ Fairness

-----------------------------------------------------------------------------
(* Properties.                                                              *)

Message ==
  [tag : {"call"}, from : Clients, method : {"request", "rename", "publish"}, ticket : Tickets]
  \cup [tag : {"handler", "cancel"}, ticket : Tickets]
  \cup [tag : {"data"}, pieces : Seq(Piece)] \cup [tag : {"exit"}]

ClientType == [buffer : Seq(Piece), queue : Seq(Frame), capture : 0..MaxCalls]

\* Every variable holds what the code's types allow.
TypeOK ==
  /\ calls \in [Clients -> [phase : Resting \cup {"installed", "waiting"},
                            method : {"request", "rename", "publish"},
                            ticket : 0..MaxCalls, waited : 0..(Budget + Slack),
                            got : 0..MaxCalls]]
  /\ issued \in 0..MaxCalls
  /\ mailbox \in Seq(Message)
  /\ alive \in BOOLEAN
  /\ client \in ClientType /\ work \in ClientType
  /\ serving \in [job : {"none", "request", "publish"}, from : Clients \cup {NoClient},
                  ticket : 0..MaxCalls, silence : Nat, left : Nat, found : BOOLEAN]
  /\ reading \in Seq(Piece)
  /\ inflight \in [Clients -> 0..MaxCalls]
  /\ cache \in 0..MaxFrames
  /\ edits \subseteq [by : Tickets, frame : Frame]
  /\ port \in {"up", "dying", "closed"}
  /\ wire \in Seq(Piece)
  /\ owed \subseteq [ticket : Tickets, method : {"request", "rename"}]
  /\ told \subseteq Tickets
  /\ emitted \in Seq(Frame) /\ handled \in Seq(Frame) /\ clean \in BOOLEAN

\* A call that succeeds returns the answer to that very call: a late answer to
\* an earlier, abandoned request never satisfies a later one.
AnswersAreOwn ==
  \A c \in Clients : calls[c].phase = "ok" => calls[c].got = calls[c].ticket

\* Whoever waits on a live proc is in its line exactly once: its call is in the
\* mailbox, or it is the one being served.
InLine(t) == {i \in DOMAIN mailbox : mailbox[i].tag = "call" /\ mailbox[i].ticket = t}
WaitersAreInLine ==
  alive => \A c \in Clients : Waiting(c) =>
    \/ serving.ticket = calls[c].ticket /\ InLine(calls[c].ticket) = {}
    \/ serving.ticket # calls[c].ticket /\ \E i \in DOMAIN mailbox : InLine(calls[c].ticket) = {i}

\* While the proc lives, a cancel is routed to the request it means: the row of
\* an MCP request names the LSP request now being served for it, if any.
InflightIsCurrent ==
  alive => \A c \in Clients :
    inflight[c] = IF serving.job = "request" /\ serving.from = c THEN serving.ticket ELSE 0

\* Answers, waiters and in-flight rows agree on whose turn it is, whichever calls
\* have timed out or failed meanwhile.
CallsKeepTheirPlace == AnswersAreOwn /\ WaitersAreInLine /\ InflightIsCurrent

\* Until a call fails, every frame the server sent is dispatched exactly once
\* and in order, however reads split and coalesce them.
HandledInOrder == clean => IsPrefix(handled, emitted)

\* A receive loop never hangs.  A request's ends or dispatches another frame, the
\* server silent, dead or in the middle of a frame: it is only held as long as the
\* server keeps talking (see TypedErrorFirst).  A publish drain ends in any case.
LoopsAdvance ==
  /\ \A n \in 0..MaxFrames :
       (serving.job = "request" /\ Len(handled) = n)
         ~> (serving.job # "request" \/ Len(handled) > n)
  /\ serving.job = "publish" ~> serving.job # "publish"

\* Not so, though doc/adr/016 says it: a $/cancelRequest reaches the server while the request it means is in flight:
\* no request runs out of time with its cancel unread.
CancelIsPrompt ==
  TimedOut /\ serving.job = "request" =>
    \A i \in DOMAIN mailbox : mailbox[i] # [tag |-> "cancel", ticket |-> serving.ticket]

\* Not so: the override of with_handler ends with its body, an edit is captured only for
\* a rename that is still running.
OverrideEnds ==
  [][\A e \in edits' \ edits : \E c \in Clients :
       calls[c].ticket = e.by /\ calls[c].phase \in {"installed", "waiting"}]_vars

\* Not so: the capture handler is per call, it captures the edit of its own rename.
CapturesOwnEdit == \A e \in edits : e.frame.ticket \in {0, e.by}

\* Not so, when the server chatters: "the timeout_ms budget covers both the LSP-side
\* latency and any notifications drained while waiting" (proc.gleam 339-341), so the
\* typed error surfaces before the caller's own timeout and actor.call never raises
\* on a live proc that is serving the call.  wait_for_response starts the whole
\* budget again after every frame (lifecycle.gleam 511, 515, 526).
TypedErrorFirst ==
  alive => \A c \in Clients :
    Waiting(c) /\ serving.ticket = calls[c].ticket => calls[c].waited < Budget + Slack

\* Not so, after a failed call: the server gets one answer per request of its own.
AnsweredOnce ==
  \A i, j \in DOMAIN handled :
    handled[i].kind \in ServerRequests /\ handled[i] = handled[j] => i = j

\* Not so, after a failed call: the diagnostics cache holds the latest publish: a step never replaces a
\* version with an earlier one.
CacheIsLatest == [][cache' >= cache]_vars

\* Not so, after a timeout inside a frame: bytes left over from one read are
\* carried to the next, what the parser holds never starts inside a frame.
StreamInStep ==
  \A s \in {client.buffer, work.buffer \o reading} : Joined(s)

\* Not so: the server's own requests are answered, whether or not the host calls
\* again.  One that arrived with an answer waits for the next call.
ServerRequestsAnswered ==
  \A n \in 1..MaxFrames :
    (Len(emitted) >= n /\ emitted[n].kind \in ServerRequests)
      ~> (\E i \in DOMAIN handled : handled[i].n = n)

=============================================================================
