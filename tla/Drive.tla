------------------------------- MODULE Drive --------------------------------
(* The drivers the test scripts use: bin/_pharos_drive.py (drive, which      *)
(* writes every request and then reads; drive_serial, which waits for each)  *)
(* and bin/_pharos_drive_http.py (one POST each). Each starts a pharos of    *)
(* its own, and the two talk through pipes of bounded size. Pharos is seen   *)
(* from outside here: it takes requests, answers those it has in any order,  *)
(* may be slow, silent or dead, and leaves at the end of its input.          *)
EXTENDS Naturals, FiniteSets, SequencesExt

CONSTANTS Requests,   \* number of requests; a request is its index, the first initializes
          Notes,      \* the requests without an id
          Styles,     \* which drivers: subset of {"batch", "serial", "http"}
          PipeSize,   \* requests, and answers, a pipe holds
          LogSize,    \* log lines the stderr pipe holds; every answer logs one
          Faults      \* which of "crash", "torn", "stubborn", "orphan", "shared_io" and
                      \* "closed_flush" this instance considers

ASSUME DriveAssumption ==
  /\ Requests \in Nat \ {0} /\ Notes \subseteq 2..Requests
  /\ Styles \subseteq {"batch", "serial", "http"}
  /\ PipeSize \in Nat \ {0} /\ LogSize \in Nat \ {0}

VARIABLES
  style,      \* the driver
  phase,      \* where it is
  next,       \* the request it writes, or waits for
  responses,  \* what it will return: a sequence of [id, by: "server" | "driver"]
  buf,        \* pieces read and not yet parsed (out_buf)
  session,    \* http: it has a session id
  stdin,      \* requests in the pipe
  closed,     \* the driver has closed stdin
  stdout,     \* pieces of lines in the pipe
  logs,       \* lines in the stderr pipe
  server,     \* "booting" | "up" | "dead"
  work,       \* requests pharos has taken and not answered
  wrote       \* history: the answers whose line pharos wrote in full

driver == <<style, phase, next, responses, buf, session>>
pipes == <<stdin, closed, stdout, logs>>
pharos == <<server, work, wrote>>
vars == <<style, phase, next, responses, buf, session, stdin, closed, stdout, logs,
          server, work, wrote>>

Asked == (1..Requests) \ Notes
Initialize == 1

-----------------------------------------------------------------------------
(* Lines. A read may cut a line: it is two pieces on the pipe, and counts    *)
(* once the second is there; what is left of a line without it does not parse.*)

Line(r) == <<[id |-> r, end |-> FALSE], [id |-> r, end |-> TRUE]>>
\* What s has at the places in I, in order.
Kept(s, I) ==
  LET upto[n \in 0..Len(s)] ==
        IF n = 0 THEN <<>>
        ELSE IF n \in I THEN Append(upto[n - 1], s[n]) ELSE upto[n - 1]
  IN  upto[Len(s)]

Ends(s) == {i \in 1..Len(s) : s[i].end}
Whole(s) == Kept(s, Ends(s))
Answers(s) == [i \in 1..Len(Whole(s)) |-> [id |-> Whole(s)[i].id, by |-> "server"]]
Rest(s) == IF Ends(s) = {} THEN s ELSE SubSeq(s, Max(Ends(s)) + 1, Len(s))
Synthetic(r) == [id |-> r, by |-> "driver"]
Seen == {responses[i].id : i \in 1..Len(responses)}

\* drive_serial's reader stops at the line it waits for and leaves the rest.
Targets(s) == {i \in Ends(s) : s[i].id = next}
Upto(s) == IF Targets(s) = {} THEN s ELSE SubSeq(s, 1, Min(Targets(s)))
After(s) == IF Targets(s) = {} THEN Rest(s) ELSE SubSeq(s, Min(Targets(s)) + 1, Len(s))

-----------------------------------------------------------------------------
Init ==
  /\ style \in Styles
  /\ phase = IF style = "http" THEN "port" ELSE "write"
  /\ next = 1 /\ responses = <<>> /\ buf = <<>> /\ session = FALSE
  /\ stdin = <<>> /\ closed = (style = "http") /\ stdout = <<>> /\ logs = 0
  /\ server = "booting" /\ work = {} /\ wrote = <<>>

(* Writing. A write waits for room in the pipe, whatever pharos meanwhile     *)
(* writes; with nobody at the other end it raises out of the driver.          *)

Write ==
  /\ phase = "write" /\ server # "dead" /\ Len(stdin) < PipeSize /\ ~closed
  /\ stdin' = Append(stdin, next)
  /\ \/ /\ style = "batch" /\ next = Requests
        /\ phase' = "read" /\ UNCHANGED next
     \/ /\ next < Requests /\ (style = "batch" \/ next \in Notes)
        /\ next' = next + 1 /\ UNCHANGED phase
     \/ /\ style = "serial" /\ next \notin Notes
        /\ phase' = "read" /\ UNCHANGED next
     \/ /\ style = "serial" /\ next = Requests /\ next \in Notes
        /\ phase' = "close" /\ UNCHANGED next
  /\ UNCHANGED <<style, responses, buf, session, closed, stdout, logs, pharos>>

WriteFails ==
  /\ phase = "write" /\ server = "dead"
  /\ phase' = "raised"
  /\ UNCHANGED <<style, next, responses, buf, session, pipes, pharos>>

(* Reading: a chunk is any part of what the pipe holds. Stderr is drained in   *)
(* the same loop.                                                             *)

ReadBatch ==
  /\ phase = "read" /\ style = "batch" /\ ~(Asked \subseteq Seen)
  /\ \E n \in 1..Len(stdout) :
       LET chunk == buf \o SubSeq(stdout, 1, n) IN
         /\ responses' = responses \o Answers(chunk)
         /\ buf' = Rest(chunk)
         /\ stdout' = SubSeq(stdout, n + 1, Len(stdout))
  /\ UNCHANGED <<style, phase, next, session, stdin, closed, logs, pharos>>

\* Every id is seen, or the deadline has passed, or pharos has closed its stdout.
StopReading ==
  /\ phase = "read" /\ style = "batch"
  /\ phase' = "close"
  /\ UNCHANGED <<style, next, responses, buf, session, pipes, pharos>>

\* (mutation) The index runs past the last request.
NextRequestOn(p) ==
  /\ next' = p + 1
  /\ phase' = IF p = Requests THEN "close" ELSE "write"

NextRequest(p) ==
  /\ next' = IF p = Requests THEN p ELSE p + 1
  /\ phase' = IF p = Requests THEN "close" ELSE "write"

ReadSerial ==
  /\ phase = "read" /\ style = "serial"
  /\ \E n \in 1..Len(stdout) :
       LET chunk == buf \o SubSeq(stdout, 1, n) IN
         /\ responses' = responses \o Answers(Upto(chunk))
         /\ buf' = After(chunk)
         /\ stdout' = SubSeq(stdout, n + 1, Len(stdout))
         /\ IF Targets(chunk) # {} THEN NextRequest(next) ELSE UNCHANGED <<next, phase>>
  /\ UNCHANGED <<style, session, stdin, closed, logs, pharos>>

\* The request's deadline has passed, or pharos has closed its stdout: the
\* driver answers in its place, so that the script can name the request.
GiveUp ==
  /\ phase = "read" /\ style = "serial"
  /\ responses' = Append(responses, Synthetic(next))
  /\ NextRequest(next)
  /\ UNCHANGED <<style, buf, session, pipes, pharos>>

ReadLogs ==
  /\ phase \in {"read", "collect"} /\ logs > 0
  /\ logs' = 0
  /\ UNCHANGED <<driver, stdin, closed, stdout, pharos>>

(* The end: close stdin, collect what is still to come for five seconds, kill. *)
(* Python before its issue 74389 was fixed flushes the closed stdin in         *)
(* communicate and raises ("closed_flush").                                    *)

Close ==
  /\ phase = "close"
  /\ closed' = TRUE
  /\ phase' = IF "closed_flush" \in Faults THEN "raised" ELSE "collect"
  /\ UNCHANGED <<style, next, responses, buf, session, stdin, stdout, logs, pharos>>

Kill ==
  /\ phase = "collect" /\ server # "dead"
  /\ server' = "dead" /\ work' = {}
  /\ UNCHANGED <<driver, pipes, wrote>>

\* (mutation) What the loop has left in the buffer is forgotten.
CollectPipe ==
  /\ phase = "collect" /\ server = "dead"
  /\ responses' = responses \o Answers(stdout)
  /\ buf' = <<>> /\ stdout' = <<>> /\ logs' = 0
  /\ phase' = "done"
  /\ UNCHANGED <<style, next, session, stdin, closed, pharos>>

Collect ==
  /\ phase = "collect" /\ server = "dead"
  /\ responses' = responses \o Answers(buf \o stdout)
  /\ buf' = <<>> /\ stdout' = <<>> /\ logs' = 0
  /\ phase' = "done"
  /\ UNCHANGED <<style, next, session, stdin, closed, pharos>>

(* HTTP: wait for the port file, POST each request, end the process. Nobody    *)
(* reads stderr until the process is gone.                                    *)

PortAppears ==
  /\ phase = "port" /\ server = "up"
  /\ phase' = "post"
  /\ UNCHANGED <<style, next, responses, buf, session, pipes, pharos>>

\* The file has not appeared in time: nothing is returned, after stderr has been
\* read to its end, which here is not preceded by a kill.
PortNever ==
  /\ phase = "port"
  /\ phase' = "unheard"
  /\ UNCHANGED <<style, next, responses, buf, session, pipes, pharos>>

Unheard ==
  /\ phase = "unheard" /\ server = "dead"
  /\ phase' = "done" /\ logs' = 0
  /\ UNCHANGED <<style, next, responses, buf, session, stdin, closed, stdout, pharos>>

Post ==
  /\ phase = "post" /\ server = "up"
  /\ IF session \/ next = Initialize THEN work' = work \cup ({next} \ Notes) /\ phase' = "await"
     ELSE UNCHANGED work /\ phase' = "refused"
  /\ UNCHANGED <<style, next, responses, buf, session, pipes, server, wrote>>

NextPost(answer) ==
  /\ responses' = responses \o (IF next \in Notes /\ answer.by = "server" THEN <<>> ELSE <<answer>>)
  /\ next' = IF next = Requests THEN next ELSE next + 1
  /\ phase' = IF next = Requests THEN "reap" ELSE "post"

\* The answer comes on the request's own connection, with the session id of an
\* initialize.
PostAnswered ==
  /\ phase = "await" /\ next \notin work /\ server = "up"
  /\ session' = (session \/ next = Initialize)
  /\ NextPost([id |-> next, by |-> "server"])
  /\ UNCHANGED <<style, buf, pipes, pharos>>

\* No session id (the initialize has failed): pharos answers with an HTTP error.
\* Or nothing comes in time, or nobody listens any more.
PostFails ==
  /\ \/ phase = "refused"
     \/ phase = "await"
     \/ phase = "post" /\ server = "dead"
  /\ NextPost(Synthetic(next))
  /\ UNCHANGED <<style, buf, session, pipes, pharos>>

\* terminate, five seconds, kill.
Reap ==
  /\ phase = "reap"
  /\ server' = "dead" /\ work' = {} /\ logs' = 0
  /\ phase' = "done"
  /\ UNCHANGED <<style, next, responses, buf, session, stdin, closed, stdout, wrote>>

-----------------------------------------------------------------------------
(* Pharos, from outside.                                                      *)

Boot == server = "booting" /\ server' = "up" /\ UNCHANGED <<driver, pipes, work, wrote>>

Take ==
  /\ server = "up" /\ stdin # <<>>
  /\ "shared_io" \in Faults => Len(stdout) < 2 * PipeSize
  /\ stdin' = Tail(stdin)
  /\ work' = work \cup ({Head(stdin)} \ Notes)
  /\ UNCHANGED <<driver, closed, stdout, logs, server, wrote>>

\* An answer needs room for its log line and, over stdio, for itself. Over HTTP
\* a notification is acknowledged, not answered.
Answer(r) ==
  /\ server = "up" /\ r \in work /\ logs < LogSize
  /\ style # "http" => Len(stdout) < 2 * PipeSize
  /\ stdout' = IF style = "http" THEN stdout ELSE stdout \o Line(r)
  /\ wrote' = IF style = "http" THEN wrote ELSE Append(wrote, r)
  /\ work' = work \ {r}
  /\ logs' = logs + 1
  /\ UNCHANGED <<driver, stdin, closed, server>>

\* It dies, or dies in the middle of a line; what it has written stays readable.
Die ==
  /\ "crash" \in Faults /\ server \in {"booting", "up"} /\ phase \notin {"done", "raised"}
  /\ server' = "dead" /\ work' = {}
  /\ UNCHANGED <<driver, pipes, wrote>>

DieTorn(r) ==
  /\ "torn" \in Faults /\ server = "up" /\ r \in work /\ style # "http"
  /\ stdout' = Append(stdout, Head(Line(r)))
  /\ server' = "dead" /\ work' = {}
  /\ UNCHANGED <<driver, stdin, closed, logs, wrote>>

\* The end of its input, everything answered (McpDispatch: NothingLostAtExit); or
\* a SIGTERM, which it may fail to heed.
Exit ==
  /\ \/ server = "up" /\ closed /\ stdin = <<>> /\ work = {} /\ style # "http"
     \/ server # "dead" /\ phase = "unheard" /\ "stubborn" \notin Faults
  /\ server' = "dead" /\ work' = {}
  /\ UNCHANGED <<driver, pipes, wrote>>

-----------------------------------------------------------------------------
DriverMoves == \/ Write \/ WriteFails \/ ReadBatch \/ StopReading \/ ReadSerial \/ GiveUp
               \/ ReadLogs \/ Close \/ Kill
               \/ PortAppears \/ PortNever \/ Post \/ PostAnswered \/ PostFails
\* These read the pipes to their end, with no deadline once pharos has been
\* killed.  The end comes when nobody holds the other side any more: pharos, and
\* the language servers it has started, which inherit its stderr.
ReadsToEnd == Collect \/ Unheard \/ Reap
DriverStep == DriverMoves \/ ReadsToEnd
PharosStep == \/ Boot \/ Take \/ Die \/ Exit
              \/ \E r \in Asked : Answer(r) \/ DieTorn(r)
Next == DriverStep \/ PharosStep
Spec == Init /\ [][Next]_vars

\* The driver runs and its clocks do; a process that is told to end, and heeds
\* it, ends. Nothing is asked of pharos otherwise: it may never answer. A language
\* server leaves when its own input ends, unless the instance has an "orphan".
Fairness ==
  /\ WF_vars(DriverMoves)
  /\ "orphan" \notin Faults => WF_vars(ReadsToEnd)
  /\ WF_vars(Boot) /\ WF_vars(Take) /\ WF_vars(Exit)
FairSpec == Spec /\ Fairness

-----------------------------------------------------------------------------
(* What a script relies on (module DriveService): find_response takes the     *)
(* first response with the id.                                                *)

Firsts(r) == {i \in 1..Len(responses) : responses[i].id = r}
\* (mutation) The last response with the id.
LastResponse(r) == responses[Max(Firsts(r))].by

find_response(r) == responses[Min(Firsts(r))].by

Found(r) == IF Firsts(r) = {} THEN IF phase = "done" THEN "missing" ELSE "open"
            ELSE IF find_response(r) = "server" THEN "answered" ELSE "failed"
outcome == [r \in Asked |-> Found(r)]
over == CASE phase = "done" -> "returned" [] phase = "raised" -> "raised" [] OTHER -> "no"

Service == INSTANCE DriveService WITH
       Requests <- Requests, Notes <- Notes, style <- style, outcome <- outcome, over <- over

\* The drivers keep the promise: responses settle requests once, in order, failed
\* only by the drivers that wait; and a driver comes back, with or without
\* answers, whatever pharos does: silent, blocked on a full stderr, killed in
\* mid-line (_pharos_drive.py 57-111, _pharos_drive_http.py 66-147); as long as no
\* language server outlives it.
ServicePromise == Service!Spec /\ Service!Ends

-----------------------------------------------------------------------------
(* Properties.                                                                *)

\* Every variable holds what the drivers' types allow.
TypeOK ==
  /\ style \in Styles /\ next \in 1..Requests /\ session \in BOOLEAN /\ closed \in BOOLEAN
  /\ phase \in {"write", "read", "close", "collect", "done", "raised",
                "port", "unheard", "post", "await", "refused", "reap"}
  /\ \A i \in 1..Len(responses) :
       responses[i] \in [id : 1..Requests, by : {"server", "driver"}]
  /\ \A i \in 1..Len(buf) : buf[i] \in [id : Asked, end : BOOLEAN]
  /\ \A i \in 1..Len(stdout) : stdout[i] \in [id : Asked, end : BOOLEAN]
  /\ \A i \in 1..Len(stdin) : stdin[i] \in 1..Requests
  /\ logs \in 0..LogSize /\ server \in {"booting", "up", "dead"} /\ work \subseteq 1..Requests

\* What pharos wrote in full before it ended is what the script gets, in that
\* order and once, however reads cut it and whenever deadlines passed: nothing is
\* lost between the loop, its buffer and communicate (_pharos_drive.py 76-120).
EveryLineArrives ==
  (phase = "done" /\ style # "http")
    => Kept(responses, {i \in 1..Len(responses) : responses[i].by = "server"})
         = [i \in 1..Len(wrote) |-> [id |-> wrote[i], by |-> "server"]]

=============================================================================
