------------------------------ MODULE Dogfood -------------------------------
(* The dogfood pass (bin/dogfood-23lang.py): every tool is called for every   *)
(* language over one transport, a call that times out is cancelled, its       *)
(* budget raised and the call made once more, and every cell of the plan gets *)
(* a row in a report, which bin/pass-to-matrix.py turns into a matrix.        *)
(* Pharos is seen from outside: an answer may be late, come after the call    *)
(* was given up, or never; pharos may die.                                    *)
EXTENDS Naturals, FiniteSets, SequencesExt

CONSTANTS
  Options,    \* ways to start it: [transport, profile, filter, skip, memory_only, poll]
  TARGETS,    \* sequence of [id, fixture, override, symbol, edit]
  PER_LANG_TOOLS, GLOBAL_TOOLS,
  DEFAULT_FILTERED_TOOLS,
  BROKEN_LSP_THRESHOLD,   \* timeouts after which a language is given up; the code has 3
  MemoryCells,   \* sequence of [tool, want]: "ok", "error" or "payload"
  MaxOdd         \* bound: answers that are late, or neither plain results nor timeouts

ASSUME DogfoodAssumption ==
  /\ BROKEN_LSP_THRESHOLD \in Nat \ {0}
  /\ \A o \in Options : o.transport \in {"stdio", "http"} /\ o.profile \in {"all", "default"}
  /\ TARGETS \in Seq([id : STRING, fixture : STRING, override : BOOLEAN, symbol : BOOLEAN, edit : BOOLEAN])
  /\ \A i \in 1..Len(TARGETS) : TARGETS[i].id \notin {"none", "(memory)", "(global)", "(end)"}
  /\ \A i, j \in 1..Len(TARGETS) : TARGETS[i].id = TARGETS[j].id => i = j
  /\ PER_LANG_TOOLS \in Seq(STRING) /\ GLOBAL_TOOLS \in Seq(STRING)
  /\ \A i, j \in 1..Len(PER_LANG_TOOLS) : PER_LANG_TOOLS[i] = PER_LANG_TOOLS[j] => i = j
  /\ MemoryCells \in Seq([tool : STRING, want : {"ok", "error", "payload"}])

VARIABLES
  opt,        \* how it was started
  plan,       \* the cells still to do
  now,        \* the language under way, its state reset when it changes
  prepared,   \* the items the prepare tools of this language have returned
  timeouts,   \* consecutive_timeouts
  lsp_broken,
  rid, poll_rid,   \* the last id of the pass, and of the poller
  waiting,    \* what the harness waits for: [for, rid]; for = "none": nothing
  rows,       \* the report: [lang, tool, ok, note]
  exit,       \* "running", the exit code, "fatal" or "raised"
  inflight,   \* requests pharos has and has not answered: [rid, of, lsp, abandon]
  out,        \* answers on their way: [rid, of, kind]
  server,     \* "up" | "dead"
  odd,        \* how many such answers there have been
  mixed       \* history: an answer was taken for another request

pass == <<opt, plan, now, prepared, timeouts, lsp_broken, rows, exit>>
ids == <<rid, poll_rid, waiting>>
pharos == <<inflight, out, server>>
behind == <<out, server, mixed>>
counts == <<odd, mixed>>
language == <<now, prepared, timeouts, lsp_broken>>
vars == <<opt, plan, now, prepared, timeouts, lsp_broken, rid, poll_rid, waiting, rows, exit,
          inflight, out, server, odd, mixed>>

-----------------------------------------------------------------------------
(* What is called, and with what.                                             *)

Cell(l, t) == [lang |-> l, tool |-> t]
Cells(l, tools) == [i \in 1..Len(tools) |-> Cell(l, tools[i])]
Target(l) == TARGETS[CHOOSE i \in 1..Len(TARGETS) : TARGETS[i].id = l]
Languages == {TARGETS[i].id : i \in 1..Len(TARGETS)}
Want(t) == MemoryCells[CHOOSE i \in 1..Len(MemoryCells) : MemoryCells[i].tool = t].want

\* No filter: the memory probe first. --memory-only: nothing else.
Chosen(o) == {i \in 1..Len(TARGETS) : o.filter = {} \/ TARGETS[i].id \in o.filter}
Probe(o) == IF o.filter = {} \/ o.memory_only
            THEN Cells("(memory)", [i \in 1..Len(MemoryCells) |-> MemoryCells[i].tool]) ELSE <<>>
Plan(o) ==
  Probe(o) \o IF o.memory_only THEN <<>>
  ELSE FlattenSeq([i \in 1..Len(TARGETS) |->
                     IF i \in Chosen(o) THEN Cells(TARGETS[i].id, PER_LANG_TOOLS) ELSE <<>>])
       \o Cells("(global)", GLOBAL_TOOLS)

\* The prepare tools return an item, which the tools chained to them are given.
Gives == [call_hierarchy_prepare |-> "call", type_hierarchy_prepare |-> "type", find_symbol |-> "symbol"]
Needs == [call_hierarchy_incoming_calls |-> "call", call_hierarchy_outgoing_calls |-> "call",
          type_hierarchy_supertypes |-> "type", type_hierarchy_subtypes |-> "type",
          find_referencing_symbols |-> "symbol", edit_at_symbol |-> "symbol"]

\* They are called for a language, in either profile.
ASSUME ChainedAssumption ==
  \A t \in DOMAIN Gives \cup DOMAIN Needs :
    /\ t \notin DEFAULT_FILTERED_TOOLS \cup ToSet(GLOBAL_TOOLS)
    /\ \A i \in 1..Len(MemoryCells) : MemoryCells[i].tool # t

build_args(tool, t) ==
  /\ tool \in DOMAIN Needs => Needs[tool] \in prepared
  /\ tool \in {"find_symbol", "get_symbols_overview"} => t.symbol
  /\ tool = "edit_at_symbol" => t.edit

expect_reject(tool) == opt.profile = "default" /\ tool \in DEFAULT_FILTERED_TOOLS
PerLang(c) == c.lang \in Languages

-----------------------------------------------------------------------------
(* Answers: pharos's, and "silence" or "transport" for what comes instead; an  *)
(* HTTP answer whose body is empty or cannot be read is "silence" too.         *)
(* "item" is a content with the item, or the payload, that is looked for;     *)
(* "quoting" an error whose text has "server gap" in it, "refused" an error of *)
(* the protocol.                                                               *)

Outcome(ok, note) == [ok |-> ok, note |-> note]
classify(kind, expected) ==
  CASE kind \in {"not enabled", "not found"} /\ expected -> Outcome(TRUE, "filtered")
    [] kind \in {"content", "item"} -> IF expected THEN Outcome(FALSE, "leak") ELSE Outcome(TRUE, "ok")
    [] kind = "gap" -> Outcome(TRUE, "gap")
    [] kind = "gated" -> Outcome(TRUE, "gated")
    [] kind = "tool timeout" -> Outcome(FALSE, "tool timeout")
    [] kind = "silence" -> Outcome(FALSE, "no response")
    [] kind = "quoting" -> Outcome(FALSE, "quoted")
    [] OTHER -> Outcome(FALSE, "error")

is_timeout_summary(note) == note \in {"tool timeout", "no response"}

\* What pharos may say to a request.
Odd(kind, m) == \/ m.rid # waiting.rid /\ m.of.try # "poll"
                \/ kind \in {"gap", "gated", "error", "quoting", "refused", "silence"}
                \/ kind = "content" /\ (m.of.cell.tool \in DOMAIN Gives \/ expect_reject(m.of.cell.tool))
Kinds(m) ==
  IF m.rid # waiting.rid \/ m.of.try = "poll" THEN {"content"}
  ELSE (IF opt.transport = "http" THEN {"silence"} ELSE {}) \cup
       IF m.of.try = "bump" THEN {"content", "error", "refused"}
       ELSE IF expect_reject(m.of.cell.tool) THEN {"not enabled", "not found", "content"}
       ELSE CASE m.of.cell.lang = "(memory)" -> {"content", "item", "error"}
              [] m.of.cell.lang = "(global)" -> {"content", "error"}
              [] OTHER -> {"content", "gap", "gated", "tool timeout", "error", "quoting"}
                          \cup (IF m.of.cell.tool \in DOMAIN Gives THEN {"item"} ELSE {})

-----------------------------------------------------------------------------
Idle == [for |-> "none", rid |-> 0]
RidStart == 100
PollRidStart == 900000

\* A cell takes three ids at most: the pass stays below the poller.
ASSUME IdsFit == \A o \in Options : RidStart + 3 * Len(Plan(o)) < PollRidStart

Init ==
  /\ opt \in Options
  /\ plan = Plan(opt) /\ now = "none" /\ rows = <<>> /\ exit = "running"
  /\ prepared = {} /\ timeouts = 0 /\ lsp_broken = FALSE
  /\ rid = RidStart /\ poll_rid = PollRidStart
  /\ waiting = [for |-> "initialize", rid |-> 1]
  /\ inflight = {} /\ out = <<>> /\ server = "up"
  /\ odd = 0 /\ mixed = FALSE

\* The handshake: pharos answers it, or there is no pass; over stdio its write
\* raises if pharos is gone. Then the filter must name a language that there is.
Initialize ==
  /\ waiting.for = "initialize" /\ exit = "running"
  /\ exit' \in {"fatal"}
       \cup (IF server = "dead" /\ opt.transport = "stdio" THEN {"raised"} ELSE {})
       \cup (IF server = "up" /\ (opt.memory_only \/ Chosen(opt) # {}) THEN {"running"} ELSE {})
  /\ waiting' = Idle
  /\ UNCHANGED <<opt, plan, language, rows, rid, poll_rid, pharos, counts>>

(* One request at a time.                                                     *)

Of(c, try) == [cell |-> c, try |-> try]
Message(id, of, lsp) == [rid |-> id, of |-> of, lsp |-> lsp, abandon |-> FALSE]
Send(for, id, of, lsp, before) ==
  /\ waiting' = [for |-> for, rid |-> id]
  /\ inflight' = before \cup (IF server = "up" THEN {Message(id, of, lsp)} ELSE {})
  /\ UNCHANGED odd

\* Over stdio a write to a dead pharos raises, and there is no report; over HTTP
\* it is an error like any other.
Reachable == server = "up" \/ opt.transport = "http"
Raise == exit' = "raised" /\ UNCHANGED <<opt, plan, language, rows, ids, inflight, odd>>

NoPoll(before) == waiting' = Idle /\ inflight' = before /\ UNCHANGED <<poll_rid, odd>>

\* The poller's two calls, with ids of its own. Nothing depends on what they
\* return, and a write that fails is nothing to it: what matters is which of the
\* two have not been answered when it gives them up.
Snapshot(id) == Message(id, Of(Cell("(poll)", "runtime"), "poll"), FALSE)
Poll(before) ==
  /\ waiting' = Idle /\ poll_rid' = poll_rid + 2
  /\ \E S \in SUBSET {Snapshot(poll_rid + 1), Snapshot(poll_rid + 2)} :
       /\ server = "dead" => S = {}
       /\ odd' = odd + Cardinality(S) /\ odd' <= MaxOdd
       /\ inflight' = before \cup S
\* After a tool its interval may have passed.
MayPoll(before) == (opt.poll /\ Poll(before)) \/ NoPoll(before)

Turn == waiting.for = "none" /\ exit = "running"
Current == Head(plan)
Row(c, ok, note) == [lang |-> c.lang, tool |-> c.tool, ok |-> ok, note |-> note]
Record(ok, note) == rows' = Append(rows, Row(Current, ok, note)) /\ plan' = Tail(plan)

(* A language. One that was opted out of, or has no fixture or no file, has    *)
(* its rows, and its state is not touched.                                     *)

Absent(l) == l \in opt.skip \/ Target(l).fixture # "present"

SkipLanguage ==
  /\ Turn /\ plan # <<>> /\ PerLang(Current) /\ Absent(Current.lang)
  /\ rows' = rows \o [i \in 1..Len(PER_LANG_TOOLS) |-> Row(plan[i], FALSE, "skipped")]
  /\ plan' = SubSeq(plan, Len(PER_LANG_TOOLS) + 1, Len(plan))
  /\ UNCHANGED <<opt, language, exit, ids, pharos, counts>>

\* lang_start, global_tools_start and pass_complete: the poll is forced.
Stage == IF plan = <<>> THEN "(end)" ELSE Current.lang
Start ==
  /\ Turn /\ now # Stage /\ (Stage \in Languages => ~Absent(Stage))
  /\ now' = Stage /\ prepared' = {} /\ timeouts' = 0 /\ lsp_broken' = FALSE
  /\ IF opt.poll /\ Stage # "(memory)" /\ ~opt.memory_only THEN Poll(inflight) ELSE NoPoll(inflight)
  /\ UNCHANGED <<opt, plan, rows, exit, rid, behind>>

(* A cell.                                                                    *)

MyTurn == Turn /\ plan # <<>> /\ now = Stage
Uncalled == UNCHANGED <<opt, language, exit, poll_rid, waiting, pharos, counts>>

\* (mutation) The short-circuit leaves the cell out of the report.
ShortCircuitSilent ==
  /\ MyTurn /\ lsp_broken
  /\ rid' = rid + 1 /\ plan' = Tail(plan)
  /\ Uncalled /\ UNCHANGED rows

ShortCircuit ==
  /\ MyTurn /\ lsp_broken
  /\ rid' = rid + 1 /\ Record(FALSE, "short")
  /\ Uncalled

\* Nothing to call it with: no item, or the fixture has no symbol.
Callable == ~lsp_broken /\ (PerLang(Current) /\ ~expect_reject(Current.tool) => build_args(Current.tool, Target(now)))
NoArguments ==
  /\ MyTurn /\ ~lsp_broken /\ ~Callable
  /\ rid' = rid + 1 /\ Record(FALSE, "no arguments")
  /\ Uncalled

LspBound == PerLang(Current) /\ ~expect_reject(Current.tool)
Call ==
  /\ MyTurn /\ Callable
  /\ IF Reachable
     THEN /\ rid' = rid + 1
          /\ Send("call", rid', Of(Current, "call"), LspBound, inflight)
          /\ UNCHANGED <<opt, plan, language, rows, exit, poll_rid>>
     ELSE Raise
  /\ UNCHANGED behind

(* What came for the current call, or instead of it.                          *)

\* (mutation) The id is counted on before the call is cancelled.
CancelNext(id) == {IF m.rid = id + 1 THEN [m EXCEPT !.abandon = TRUE] ELSE m : m \in inflight}

\* What pharos has after notifications/cancelled.
cancel(id) == {IF m.rid = id THEN [m EXCEPT !.abandon = TRUE] ELSE m : m \in inflight}

\* (mutation) The language is given up on its second timeout.
TimedOutSoon == timeouts' = timeouts + 1 /\ lsp_broken' = (timeouts + 1 >= BROKEN_LSP_THRESHOLD - 1)

TimedOut == timeouts' = timeouts + 1 /\ lsp_broken' = (timeouts + 1 >= BROKEN_LSP_THRESHOLD)

Chained(o, kind) ==
  prepared' = IF o.ok /\ kind = "item" /\ Current.tool \in DOMAIN Gives
              THEN prepared \cup {Gives[Current.tool]} ELSE prepared

\* A memory cell may want an error, or a certain payload.
Expected(o, kind) ==
  IF Current.lang # "(memory)" THEN o.ok
  ELSE CASE Want(Current.tool) = "ok" -> o.ok
         [] Want(Current.tool) = "error" -> ~o.ok
         [] Want(Current.tool) = "payload" -> o.ok /\ kind = "item"

Finish(o, kind, before) ==
  /\ Record(Expected(o, kind), o.note)
  /\ Chained(o, kind)
  /\ IF LspBound /\ is_timeout_summary(o.note) THEN TimedOut
     ELSE timeouts' = (IF LspBound /\ o.ok THEN 0 ELSE timeouts) /\ UNCHANGED lsp_broken
  /\ IF LspBound THEN MayPoll(before) ELSE NoPoll(before)
  /\ UNCHANGED <<opt, now, exit, rid>>

Proceeds(for, id, of, lsp, before) ==
  IF Reachable
  THEN rid' = id /\ Send(for, id, of, lsp, before) /\ UNCHANGED <<opt, plan, language, rows, exit, poll_rid>>
  ELSE Raise

\* A timeout is cancelled; where the language has no budget of its own, its
\* budget is raised.
AfterCall(kind) ==
  LET o == classify(kind, expect_reject(Current.tool))
      t == LspBound /\ is_timeout_summary(o.note)
  IN /\ waiting.for = "call"
     /\ IF t /\ ~Target(now).override
        THEN Proceeds("bump", rid + 1, Of(Current, "bump"), FALSE, cancel(rid))
        ELSE Finish(o, kind, IF t THEN cancel(rid) ELSE inflight)

\* It is raised when there is a result, an error of the tool included, but not an
\* error of the protocol; if it is not raised the first timeout stands.
AfterBump(kind) ==
  /\ waiting.for = "bump"
  /\ IF kind \in {"silence", "transport", "refused"} THEN Finish(Outcome(FALSE, "no response"), kind, inflight)
     ELSE Proceeds("retry", rid + 1, Of(Current, "retry"), TRUE, inflight)

\* The second attempt is the last. Its success leaves the count of timeouts as it
\* is, and whatever its failure is, it counts as a timeout.
AfterRetry(kind) ==
  LET o == classify(kind, FALSE) IN
  /\ waiting.for = "retry"
  /\ Record(o.ok, IF o.ok THEN "retried" ELSE IF o.note = "quoted" THEN "exhausted, quoted" ELSE "exhausted")
  /\ Chained(o, kind)
  /\ IF o.ok THEN UNCHANGED <<timeouts, lsp_broken>> ELSE TimedOut
  /\ NoPoll(IF is_timeout_summary(o.note) THEN cancel(rid) ELSE inflight)
  /\ UNCHANGED <<opt, now, exit, rid>>

After(kind) == AfterCall(kind) \/ AfterBump(kind) \/ AfterRetry(kind)

(* send: the first answer with the id; those before it are dropped. Over HTTP  *)
(* each answer comes on its request's connection.                              *)

Asking == waiting.for \notin {"none", "initialize"} /\ exit = "running"
Awaited == Of(Current, waiting.for)
Mine == {i \in 1..Len(out) : out[i].rid = waiting.rid}

Receive ==
  /\ Asking
  /\ \E i \in Mine :
       /\ \A j \in Mine : i <= j
       /\ After(out[i].kind)
       /\ out' = SubSeq(out, i + 1, Len(out))
       /\ mixed' = (mixed \/ out[i].of # Awaited)
  /\ UNCHANGED server

\* (mutation) The read has no deadline.
NothingUnlessClosed ==
  /\ Asking /\ server = "dead"
  /\ After(IF opt.transport = "http" THEN "transport" ELSE "silence")
  /\ UNCHANGED behind

\* The deadline passes, or pharos has closed its end. Over HTTP either is an
\* exception, which is reported as an error of the transport.
Nothing ==
  /\ Asking
  /\ After(IF opt.transport = "http" THEN "transport" ELSE "silence")
  /\ UNCHANGED behind

\* The report, and the exit code.
Report ==
  /\ Turn /\ plan = <<>> /\ now = "(end)"
  /\ exit' = IF \A i \in 1..Len(rows) : rows[i].ok THEN "0" ELSE "1"
  /\ UNCHANGED <<opt, plan, language, rows, ids, pharos, counts>>

-----------------------------------------------------------------------------
(* Pharos, from outside.                                                      *)

\* It answers, in time or late: a call that was cancelled may have been answered
\* already, and need not be. (What it does not answer stays in flight.)
Answer(m) ==
  /\ server = "up" /\ exit = "running" /\ m \in inflight
  /\ \E kind \in Kinds(m) :
       /\ out' = IF opt.transport = "http" /\ m.rid # waiting.rid THEN out
                 ELSE Append(out, [rid |-> m.rid, of |-> m.of, kind |-> kind])
       /\ odd' = IF Odd(kind, m) THEN odd + 1 ELSE odd
       /\ odd' <= MaxOdd
  /\ inflight' = inflight \ {m}
  /\ UNCHANGED <<pass, ids, server, mixed>>

Die ==
  /\ server = "up" /\ exit = "running"
  /\ server' = "dead" /\ inflight' = {}
  /\ UNCHANGED <<pass, ids, out, counts>>

Harness == \/ Initialize \/ SkipLanguage \/ Start \/ ShortCircuit \/ NoArguments \/ Call
           \/ Receive \/ Nothing \/ Report
Next == Harness \/ Die \/ \E m \in inflight : Answer(m)
Spec == Init /\ [][Next]_vars

\* The harness runs and its deadlines pass. Pharos need never answer.
FairSpec == Spec /\ WF_vars(Harness)

-----------------------------------------------------------------------------
(* bin/pass-to-matrix.py: the report's mark of a row, the rows the parser      *)
(* takes, and the column a set of tools collapses to.                          *)

\* The mark goes by the row's text, which quotes pharos's.
mark(r) == CASE r.note \in {"gap", "quoted", "exhausted, quoted"} -> "GAP" [] r.note = "filtered" -> "FILT"
             [] r.note = "retried" -> "RETRY" [] OTHER -> IF r.ok THEN "OK" ELSE "FAIL"
parsed(l, t) == {mark(rows[i]) : i \in {j \in 1..Len(rows) : rows[j].lang = l /\ rows[j].tool = t}}
                \cap {"OK", "GAP", "FAIL", "SKIP"}
cell_results(l, col) == {IF parsed(l, t) = {} THEN "SKIP" ELSE CHOOSE m \in parsed(l, t) : TRUE : t \in col}

\* (mutation) A column is as good as its best tool.
CollapseBest(results) ==
  IF "OK" \in results THEN "ok" ELSE IF "GAP" \in results THEN "G"
  ELSE IF results = {"SKIP"} THEN "none" ELSE "F"

collapse(results) ==
  IF results = {"SKIP"} THEN "none"
  ELSE IF results \cap {"FAIL", "SKIP"} # {} THEN "F"
  ELSE IF "GAP" \in results THEN "G" ELSE "ok"

\* MAIN_COLS and SYMBOL_COLS: the hierarchy tools share a column with the tool that
\* prepares for them, two tools have none.
Unlisted == {"lsp_request_raw", "apply_workspace_edit"}
Family(item) == {t \in ToSet(PER_LANG_TOOLS) : \/ t \in DOMAIN Gives /\ Gives[t] = item
                                               \/ t \in DOMAIN Needs /\ Needs[t] = item}
Columns == {{t} : t \in ToSet(PER_LANG_TOOLS) \ (Unlisted \cup Family("call") \cup Family("type"))}
           \cup ({Family("call"), Family("type")} \ {{}})

-----------------------------------------------------------------------------
(* Properties.                                                                *)

\* Every variable holds what the harness's types allow.
TypeOK ==
  /\ opt \in Options /\ exit \in {"running", "0", "1", "fatal", "raised"} /\ server \in {"up", "dead"}
  /\ now \in Languages \cup {"none", "(memory)", "(global)", "(end)"}
  /\ prepared \subseteq {"call", "type", "symbol"}
  /\ lsp_broken = (timeouts >= BROKEN_LSP_THRESHOLD)
  /\ rid \in Nat /\ poll_rid \in Nat /\ waiting.rid \in Nat
  /\ waiting.for \in {"none", "initialize", "call", "bump", "retry"}
  /\ \A i \in 1..Len(rows) : rows[i].ok \in BOOLEAN
  /\ mixed \in BOOLEAN

TimeoutRow(r) == r.note \in {"tool timeout", "no response", "exhausted", "exhausted, quoted"}
PlainPass(r) == r.ok /\ r.note \notin {"retried", "filtered"}
Passed(l, t, n) == \E j \in 1..n : rows[j].lang = l /\ rows[j].tool = t /\ rows[j].ok

\* The report has the plan's cells, each once and in order, through every one of
\* the loop's early exits; a cell is left out as unresponsive only after as many
\* of the language as the threshold says have timed out with no plain success in between; and a chained
\* tool has been called only if the tool before it has passed (run_pass 1182-1443).
RowsAreEarned ==
  /\ exit \in {"0", "1"} => [i \in 1..Len(rows) |-> Cell(rows[i].lang, rows[i].tool)] = Plan(opt)
  /\ \A i \in 1..Len(rows) : rows[i].note = "short" =>
       BROKEN_LSP_THRESHOLD <= Cardinality({j \in 1..i - 1 :
         /\ rows[j].lang = rows[i].lang /\ TimeoutRow(rows[j])
         /\ \A k \in j + 1..i - 1 : ~PlainPass(rows[k])})
  /\ \A i \in 1..Len(rows), t \in DOMAIN Gives :
       (rows[i].tool \in DOMAIN Needs /\ Needs[rows[i].tool] = Gives[t]
          /\ rows[i].note \notin {"short", "skipped", "no arguments"}) => Passed(rows[i].lang, t, i - 1)

\* An answer is never taken for another request, a second attempt or a poll, late
\* as it may be; and over stdio every call to a language server but the one that
\* is waited for has been answered or cancelled: none is left to wedge a worker
\* (the reason given for cancel at 541-545).
CallsAreSettled ==
  /\ ~mixed
  /\ opt.transport = "stdio" /\ exit = "running" =>
       \A m \in inflight : m.lsp /\ m.rid # waiting.rid => m.abandon

\* Not so: the same over HTTP. There a deadline that passes is an exception, which
\* _post reports as an error of the transport (801-809), and is_timeout_summary,
\* which claims to know "the harness's own wall-clock deadline" (859-861), does not
\* recognise: no cancel, no second attempt, no short-circuit.
HttpCallsAreSettled ==
  opt.transport = "http" /\ exit = "running" =>
    \A m \in inflight : m.lsp /\ m.rid # waiting.rid => m.abandon

RowsOf(l, col) == {rows[i] : i \in {j \in 1..Len(rows) : rows[j].lang = l /\ rows[j].tool \in col}}
Sections == {rows[i].lang : i \in 1..Len(rows)} \cap Languages

Quoted(r) == r.note \in {"quoted", "exhausted, quoted"}

\* The matrix never shows more than the report: a column is a tick only if every
\* tool of it has passed, with G for a gap; and a failure shows as F, but for one
\* whose text quotes "server gap", which is no tick either
\* (pass-to-matrix.py collapse, over the rows parse keeps).
MatrixIsHonest ==
  exit \in {"0", "1"} => \A l \in Sections, col \in Columns :
    LET symbol == collapse(cell_results(l, col)) IN
      /\ symbol = "ok" => \A r \in RowsOf(l, col) : r.ok /\ r.note # "gap"
      /\ symbol = "G" => \A r \in RowsOf(l, col) : r.ok \/ Quoted(r)
      /\ (\E r \in RowsOf(l, col) : ~r.ok /\ ~Quoted(r)) => symbol = "F"

\* Not so: every failure shows as F. The report marks GAP whatever has "server gap"
\* in its text (1558-1560), an error message of a language server included, where
\* it says that a gap is one of three messages and "FAIL = anything else" (1540-1542).
FailuresShow ==
  exit \in {"0", "1"} => \A l \in Sections, col \in Columns :
    (\E r \in RowsOf(l, col) : ~r.ok) => collapse(cell_results(l, col)) = "F"

\* Not so: a tool that has passed shows as passed. The parser takes OK, GAP, FAIL
\* and SKIP; a pass after a retry is marked RETRY, and so shows as never run,
\* where parse says it handles it (pass-to-matrix.py 82).
MatrixIsComplete ==
  exit \in {"0", "1"} => \A l \in Sections, col \in Columns :
    (\A r \in RowsOf(l, col) : r.ok) => collapse(cell_results(l, col)) \in {"ok", "G"}

\* A pass ends, whatever pharos does: every wait has a deadline.
PassEnds == <>(exit # "running")
=============================================================================
