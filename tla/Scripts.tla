------------------------------- MODULE Scripts ------------------------------
(* The test scripts that drive a pharos and judge it: bin/test-suite.py,     *)
(* bin/dogfood-adr-029.py, bin/dogfood-adr-032.py. A batch of requests goes   *)
(* through a driver, which answers each (module DriveService): with pharos's  *)
(* answer, or with its own error when there is none in time; or it raises.    *)
(* The verdicts are those of module Verdicts. Pharos is seen from outside; it *)
(* may have regressed in any of the ways the scripts are there to notice.     *)
EXTENDS Verdicts, TLC

CONSTANTS Programs,   \* which scripts: subset of {"suite", "adr029", "adr032"}
          Languages,  \* which of Specs the suite runs
          SuiteTools, \* which of its cells the suite has
          Locks,      \* sequences of crates, as the lockfile lists them
          Projects,   \* what the project depends on and imports
          Forests,    \* the symbols of a dependency's file
          MaxBroken,  \* bound: how many regressions at once
          MaxLate     \* bound: how many requests are not answered in time

Tools == {"hover", "document_symbols", "workspace_symbols", "get_diagnostics", "position"}
ASSUME ScriptsAssumption ==
  Programs \subseteq {"suite", "adr029", "adr032"} /\ Languages \subseteq Specs /\ SuiteTools \subseteq Tools

VARIABLES
  script,   \* the script
  fixture,  \* adr032: the lockfile, the project, the symbols, and whether a second project is given
  broken,   \* what has regressed in pharos
  batch,    \* the batch under way
  todo,     \* its requests that are still to come
  got,      \* the answers: request -> answer
  ready,    \* the workspaces whose language server is ready, in the pharos of this batch
  anchor,   \* adr032: the symbol to ask references of, or 0
  rows,     \* the report: cell -> "PASS" | "FAIL" | "SKIP"
  late,     \* history: how many requests were not answered in time
  exit      \* "running", the exit code, or "raised"

vars == <<script, fixture, broken, batch, todo, got, ready, anchor, rows, late, exit>>
world == <<script, fixture, broken>>

-----------------------------------------------------------------------------
(* What may have regressed: a cell of adr029 or a tool of the suite, in one of *)
(* four ways: the request is refused (a JSON-RPC error), or the tool reports an *)
(* error nobody knows, or its content is not what was asked for, or it has      *)
(* none. For adr032 the ways in which routing may be wrong, and the requests    *)
(* that may be refused.                                                        *)

Routing == {"cold errors", "no routing", "note when routed", "no note on the floor",
            "blind route", "override ignored", "ambiguity errors", "cold go errors", "no go routing"}
Refusals == {"symbols refused", "go symbols refused", "references refused", "sessions refused"}
Ways(c) == {"refused", "wrong", "empty"} \cup IF c \in {"initialize", "tools"} THEN {} ELSE {"failed"}
Regressions(s) == CASE s = "suite" -> UNION {{t} \X Ways(t) : t \in SuiteTools}
                    [] s = "adr029" -> UNION {{c} \X Ways(c) : c \in Range(Cells029)}
                    [] s = "adr032" -> Routing \cup Refusals

\* What may have regressed at once: a cell is broken in one way at a time.
Few(S) == {B \in SUBSET S : Cardinality(B) <= MaxBroken}
Breakages(s) ==
  IF s = "adr032" THEN Few(Regressions(s))
  ELSE UNION {{{<<c, how[c]>> : c \in C} : how \in {h \in [C -> UNION {Ways(c) : c \in C}] :
                                                  \A c \in C : h[c] \in Ways(c)}} :
              C \in Few({r[1] : r \in Regressions(s)})}

\* How an answer looks that is broken in this way.
Spoilt(how) == CASE how = "refused" -> Error
                 [] how = "failed" -> ToolError("other")
                 [] how = "wrong" -> Result("other")
                 [] how = "empty" -> Result("empty")
\* The answers for a cell: those of a pharos that works, unless it is broken.
Answers(c, working) ==
  LET ways == {how \in Ways(c) : <<c, how>> \in broken}
  IN IF ways = {} THEN working ELSE {Spoilt(how) : how \in ways}

BatchA == <<"initialize", "tools", "hover", "caps", "definition">>
BatchB == <<"jdt_hover", "jdt_references", "fetch", "apply">>
batch_cold == <<"dep_symbols", "caps">>
batch_warm(a) == <<"project", IF a = 0 THEN "dep_symbols" ELSE "dep_references", "caps">>
batch_floor_references == <<"dep_references">>
batch_two_workspaces == <<"project", "second", "dep_symbols", "caps">>

\* Every batch starts a pharos of its own: nothing is warm.
Begin(b, requests) ==
  /\ batch' = b /\ todo' = requests /\ got' = <<>> /\ ready' = {}

Source(f) == rust_dependency_source(f.lock, f.project)
prefer_names(f) == LET names == crate_referenced_names(f.project, Source(f).name)
                   IN IF names = {} THEN project_identifiers(f.project) ELSE names

\* The symbols are those of the file the script chooses: a defining file declares
\* one of the names it was chosen for.
Declares(s, n) == \E i \in DOMAIN s : s[i].kind = "item" /\ s[i].depth = 0 /\ s[i].name = n
Fits(f) == defining_source_file(f.project, Source(f))
  => \E n \in Source(f).defs \cap crate_referenced_names(f.project, Source(f).name) : Declares(f.symbols, n)

NoFixture == [lock |-> <<>>, project |-> [direct |-> <<>>, imports |-> {}, words |-> {}],
              symbols |-> <<>>, second |-> FALSE, spec |-> [types |-> FALSE]]

Init ==
  /\ script \in Programs
  /\ fixture \in CASE script = "adr032" ->
                        {f \in [lock : Locks, project : Projects, symbols : Forests, second : BOOLEAN,
                                spec : {[types |-> FALSE]}] : Fits(f)}
                   [] script = "suite" -> {[NoFixture EXCEPT !.spec = s] : s \in Languages}
                   [] script = "adr029" -> {NoFixture}
  /\ broken \in Breakages(script)
  /\ batch = "setup" /\ todo = <<>> /\ got = <<>> /\ ready = {}
  /\ anchor = 0 /\ rows = <<>> /\ late = 0 /\ exit = "running"

-----------------------------------------------------------------------------
(* Pharos, from outside: the answer to a request and the workspaces that are   *)
(* ready after it.                                                            *)

Go == batch \in {"go cold", "go warm"}
Broke(w, inGo) == (IF Go THEN inGo ELSE w) \in broken
Unrouted == Broke("no routing", "no go routing")
Warm == ready \cap {"project", "second"}

\* Where the dependency's file is served: by the one ready project, if routing is
\* on and there is one, and otherwise from its own directory (ADR-032).
Root(r) ==
  CASE r \in {"project", "second"} -> r
    [] OTHER -> IF \/ batch = "disabled" /\ "override ignored" \notin broken
                   \/ Unrouted \/ Cardinality(Warm) # 1
                THEN "cache" ELSE CHOOSE w \in Warm : TRUE

\* Whether the project refers to a symbol of the file: what a test module declares
\* cannot be referred to.
Imported(f, i) == /\ <<Source(f).name, f.symbols[i].name>> \in f.project.imports
                  /\ f.symbols[i].kind = "item" /\ ~Pruned(f.symbols, i)
Ours(f) == anchor # 0 /\ Imported(f, anchor)
Noted(r) == IF Root(r) = "cache" THEN "no note on the floor" \notin broken ELSE "note when routed" \in broken
HardError == \/ Warm = {} /\ Broke("cold errors", "cold go errors")
             \/ Cardinality(Warm) = 2 /\ "ambiguity errors" \in broken

\* An answer of adr032: also the note, references in the project, sessions listed.
Full(a) == a @@ [note |-> FALSE, own |-> FALSE, roots |-> {}]
Refused(r) == CASE r = "caps" -> "sessions refused" \in broken
                [] r = "dep_symbols" -> Broke("symbols refused", "go symbols refused")
                [] r = "dep_references" -> "references refused" \in broken
                [] OTHER -> FALSE
Routed(r) ==
  IF Refused(r) THEN Full(Error)
  ELSE IF r = "caps" THEN [Full(Result("sessions")) EXCEPT !.roots = ready]
  ELSE IF Root(r) = "cache" /\ HardError THEN Full(ToolError("other"))
  ELSE [Full(Result("content")) EXCEPT
          !.note = r = "dep_references" /\ Noted(r),
          !.own = /\ r = "dep_references" /\ Root(r) = "project" /\ Ours(fixture)
                  /\ "blind route" \notin broken]

\* What the script asks for is there; apply it asks to have rejected.
Probed(c) == Answers(c, {IF c = "apply" THEN ToolError("good") ELSE Result("good")})

Replies(r) == IF script = "adr032" THEN {Routed(r)} ELSE Probed(r)
Served(r) == IF script = "adr032" /\ r # "caps" THEN {Root(r)} ELSE {}

\* The request is answered; the server it needed is ready after that. A request
\* is refused before a server is looked for, or after (a worker that crashes).
Answered ==
  /\ todo # <<>> /\ exit = "running"
  /\ \E a \in Replies(Head(todo)) :
       /\ got' = (Head(todo) :> a) @@ got
       /\ IF a.result
          THEN ready' = IF a.isError THEN ready ELSE ready \cup Served(Head(todo))
          ELSE ready' \in {ready, ready \cup Served(Head(todo))}
  /\ todo' = Tail(todo)
  /\ UNCHANGED <<world, batch, anchor, rows, late, exit>>

\* It is not: the driver answers. Its server may become ready all the same.
TimesOut ==
  /\ todo # <<>> /\ exit = "running" /\ late < MaxLate
  /\ got' = (Head(todo) :> IF script = "adr032" THEN Full(Error) ELSE Error) @@ got
  /\ ready' \in {ready, ready \cup Served(Head(todo))}
  /\ todo' = Tail(todo) /\ late' = late + 1
  /\ UNCHANGED <<world, batch, anchor, rows, exit>>

\* Pharos is dead when the next request is written: the driver raises, and with
\* it the script, which reports nothing.
DriverRaises ==
  /\ todo # <<>> /\ exit = "running"
  /\ exit' = "raised"
  /\ UNCHANGED <<world, batch, todo, got, ready, anchor, rows, late>>

-----------------------------------------------------------------------------
Ready(b) == batch = b /\ todo = <<>> /\ exit = "running"
Verdict(c) == IF c THEN "PASS" ELSE "FAIL"
Report(r) == rows' = r @@ rows
Failures(r) == {c \in DOMAIN r : r[c] = "FAIL"}
Done(r) == /\ rows' = r /\ exit' = (IF Failures(r) = {} THEN "0" ELSE "1")
           /\ UNCHANGED <<batch, todo, got, ready>>

(* adr029: cells 1-5; if there is a URI to go on with, cells 6-9. Without one   *)
(* the exit code is the number of cells that failed.                           *)

Start029 ==
  /\ script = "adr029" /\ Ready("setup")
  /\ \/ Begin("A", BatchA) /\ UNCHANGED exit
     \/ exit' \in {"0", "2"} /\ UNCHANGED <<batch, todo, got, ready>>   \* no jdtls: skipped, or not set up
  /\ UNCHANGED <<world, anchor, rows, late>>

run_cells(cs) == [c \in Range(cs) |-> Verdict(cell029(c, got[c]))]
extract_jdt_uri == got["definition"].result /\ got["definition"].text = "good"

JudgeA ==
  /\ Ready("A")
  /\ IF extract_jdt_uri
     THEN Begin("B", BatchB) /\ Report(run_cells(BatchA)) /\ UNCHANGED exit
     ELSE /\ rows' = run_cells(BatchA)
          /\ exit' = ToString(Cardinality(Failures(rows')))
          /\ UNCHANGED <<batch, todo, got, ready>>
  /\ UNCHANGED <<world, anchor, late>>

JudgeB == Ready("B") /\ Done(run_cells(BatchB) @@ rows) /\ UNCHANGED <<world, anchor, late>>

(* adr032.                                                                     *)

has_dependency_note(a) == a.result /\ a.note
first_party_references(a) == a.result /\ a.own

\* Without a project's file or a dependency's source there is nothing to run.
Start032 ==
  /\ script = "adr032" /\ Ready("setup")
  /\ IF Source(fixture) = NoCrate
     THEN exit' \in {"0", "2"} /\ UNCHANGED <<batch, todo, got, ready>>
     ELSE Begin("cold", batch_cold) /\ UNCHANGED exit
  /\ UNCHANGED <<world, anchor, rows, late>>

ColdVerdict == Verdict(~tool_is_error(got["dep_symbols"]) /\ "cache" \in got["caps"].roots)
WarmVerdict == Verdict(Cardinality(got["caps"].roots) = 1 /\ "cache" \notin got["caps"].roots)

JudgeCold ==
  /\ Ready("cold")
  /\ Report(1 :> ColdVerdict)
  /\ anchor' = IF got["dep_symbols"].result /\ ~got["dep_symbols"].isError
               THEN anchor_from_symbols(fixture.symbols, prefer_names(fixture)) ELSE 0
  /\ Begin("warm", batch_warm(anchor'))
  /\ UNCHANGED <<world, late, exit>>

\* Cells 3 to 5 need a symbol; without one they are skipped.
JudgeWarm ==
  /\ Ready("warm")
  /\ IF anchor = 0
     THEN /\ Report((2 :> WarmVerdict) @@ [c \in 3..5 |-> "SKIP"])
          /\ Begin("disabled", batch_warm(0))
     ELSE /\ Report((2 :> WarmVerdict) @@ (3 :> Verdict(~has_dependency_note(got["dep_references"])))
                    @@ (5 :> Verdict(first_party_references(got["dep_references"]))))
          /\ Begin("floored", batch_floor_references)
  /\ UNCHANGED <<world, anchor, late, exit>>

\* (mutation) The floor's note is not asked for.
JudgeFlooredSilent ==
  /\ Ready("floored")
  /\ LET floor == got["dep_references"] IN
       rows' = [rows EXCEPT ![5] = Verdict(@ = "PASS" /\ ~first_party_references(floor))]
               @@ (4 :> "PASS")
  /\ Begin("disabled", batch_warm(0))
  /\ UNCHANGED <<world, anchor, late, exit>>

JudgeFloored ==
  /\ Ready("floored")
  /\ LET floor == got["dep_references"] IN
       rows' = [rows EXCEPT ![5] = Verdict(@ = "PASS" /\ ~first_party_references(floor))]
               @@ (4 :> Verdict(has_dependency_note(floor)))
  /\ Begin("disabled", batch_warm(0))
  /\ UNCHANGED <<world, anchor, late, exit>>

JudgeDisabled ==
  /\ Ready("disabled")
  /\ Report(6 :> Verdict("cache" \in got["caps"].roots))
  /\ Begin("go cold", batch_cold)
  /\ UNCHANGED <<world, anchor, late, exit>>

\* For go the cells ask nothing of the call itself, with or without a symbol.
JudgeGoCold ==
  /\ Ready("go cold")
  /\ Report(7 :> ColdVerdict)
  /\ Begin("go warm", batch_warm(0))
  /\ UNCHANGED <<world, anchor, late, exit>>

\* Cell 9 needs a second project.
JudgeGoWarm ==
  /\ Ready("go warm")
  /\ LET r == (8 :> WarmVerdict) @@ rows IN
       IF fixture.second
       THEN rows' = r /\ Begin("two", batch_two_workspaces) /\ UNCHANGED exit
       ELSE Done((9 :> "SKIP") @@ r)
  /\ UNCHANGED <<world, anchor, late>>

\* (mutation) The cell is numbered one too far.
JudgeTwoOff == Ready("two") /\ Done((10 :> ColdVerdict) @@ rows) /\ UNCHANGED <<world, anchor, late>>

JudgeTwo == Ready("two") /\ Done((9 :> ColdVerdict) @@ rows) /\ UNCHANGED <<world, anchor, late>>

(* The suite: one batch per language, one cell per tool. The cells do not      *)
(* depend on each other: an answer is drawn when its cell is judged.           *)

Start ==
  /\ script = "suite" /\ Ready("setup")
  /\ \/ batch' = "suite" /\ UNCHANGED exit
     \/ exit' = "2" /\ UNCHANGED batch        \* a language it does not know
  /\ UNCHANGED <<world, todo, got, ready, anchor, rows, late>>

\* The workspace is missing, or initialize fails: one row, failed.
SetupFails ==
  /\ Ready("suite") /\ rows = <<>>
  /\ Done("setup" :> "FAIL")
  /\ UNCHANGED <<world, anchor, late>>

Check(t, spec, a) ==
  CASE t = "hover" -> check_hover(spec, a)
    [] t = "document_symbols" -> check_document_symbols(spec, a)
    [] t = "workspace_symbols" -> check_workspace_symbols(spec, a)
    [] t = "get_diagnostics" -> check_diagnostics(spec, a)
    [] t = "position" -> check_position_tool(spec, a)

\* A tool that works answers with its landmark or with a signal of the server's.
ToolReplies(t) ==
  Answers(t, {Result("landmark"), ToolError("tool timeout"),
              ToolError(IF t = "get_diagnostics" THEN "no publish" ELSE "unhandled")})

CheckTool(t) ==
  /\ Ready("suite") /\ t \in SuiteTools \ DOMAIN rows /\ "setup" \notin DOMAIN rows
  /\ \/ \E a \in ToolReplies(t) : Report(t :> Verdict(Check(t, fixture.spec, a))) /\ UNCHANGED late
     \/ Report(t :> Verdict(Check(t, fixture.spec, Error))) /\ late' = late + 1 /\ late < MaxLate
  /\ UNCHANGED <<world, batch, todo, got, ready, anchor, exit>>

Conclude ==
  /\ Ready("suite") /\ DOMAIN rows = SuiteTools
  /\ Done(rows)
  /\ UNCHANGED <<world, anchor, late>>

Next ==
  \/ Answered \/ TimesOut \/ DriverRaises
  \/ Start029 \/ JudgeA \/ JudgeB
  \/ Start032 \/ JudgeCold \/ JudgeWarm \/ JudgeFloored \/ JudgeDisabled
  \/ JudgeGoCold \/ JudgeGoWarm \/ JudgeTwo
  \/ Start \/ SetupFails \/ Conclude \/ \E t \in SuiteTools : CheckTool(t)
Spec == Init /\ [][Next]_vars

-----------------------------------------------------------------------------
(* Properties.                                                                *)

\* Every variable holds what the scripts' types allow; a report names cells of
\* its script.
TypeOK ==
  /\ script \in Programs /\ broken \subseteq Regressions(script)
  /\ exit \in {"running", "0", "1", "2", "raised"}
            \cup IF script = "adr029" THEN {"3", "4", "5"} ELSE {}   \* as many as cells 1-5 that fail
  /\ late \in 0..MaxLate
  /\ ready \subseteq {"project", "second", "cache"}
  /\ \A r \in DOMAIN got : got[r].result \in BOOLEAN /\ got[r].isError \in BOOLEAN
  /\ \A c \in DOMAIN rows : rows[c] \in {"PASS", "FAIL", "SKIP"}
  /\ DOMAIN rows \subseteq CASE script = "suite" -> SuiteTools \cup {"setup"}
                             [] script = "adr029" -> Range(Cells029)
                             [] script = "adr032" -> 1..9
  /\ anchor \in 0..Len(fixture.symbols)

Cells == CASE script = "suite" -> SuiteTools
           [] script = "adr029" -> Range(Cells029)
           [] script = "adr032" -> 1..9
Skipped == rows = <<>> \/ \E c \in DOMAIN rows : rows[c] = "SKIP"

\* What the checks let pass. An answer without a result is no tool error, so a
\* cell that asks only for the absence of one takes a refusal, and whatever content
\* there is. The suite takes an empty answer for an index that is still warming, and
\* asks a landmark of three tools only, of two of them only where there are types;
\* of the diagnostics of a language that need not have any it asks nothing. Cell 7
\* of adr032 asks nothing of the call, if there is a session after it, and a refusal
\* hides what else is wrong with go.
Overlooked ==
  CASE script = "adr029" -> ({"hover", "jdt_references"} \X {"refused", "wrong", "empty"})
                            \cup ({"jdt_hover", "fetch"} \X {"wrong"})
    [] script = "adr032" -> IF "go symbols refused" \in broken
                            THEN {"go symbols refused", "cold go errors", "no go routing"} ELSE {}
    [] script = "suite" ->
         ({"hover", "document_symbols", "workspace_symbols", "position"} \X {"empty"})
         \cup {<<"position", "wrong">>}
         \cup (IF fixture.spec.types THEN {} ELSE {"hover", "workspace_symbols"} \X {"wrong"})
         \cup (IF fixture.spec.diagnostics THEN {}
               ELSE {"get_diagnostics"} \X {"failed", "wrong", "empty"})

\* There is a symbol to ask about: the project refers to one of the file's.
Askable == script = "adr032" => \E i \in DOMAIN fixture.symbols : Imported(fixture, i)

\* A script that ends in success, all its cells run and all its requests answered
\* in time, has been driving a pharos with no regression but those its checks
\* overlook; and one that ends in failure has met a regression (test-suite.py
\* 704-718, 809-839; dogfood-adr-029.py 80-227, 419-451; dogfood-adr-032.py 786-948).
Succeeded == exit = "0" /\ late = 0 /\ ~Skipped
Failed == exit \notin {"running", "raised", "0"} /\ late = 0 /\ rows # <<>>
RegressionsAreCaught ==
  /\ Succeeded => DOMAIN rows = Cells /\ broken \subseteq Overlooked
  /\ (Failed /\ batch # "suite" /\ Askable) => broken # {}
  /\ (Failed /\ batch = "suite" /\ "setup" \notin DOMAIN rows) => broken # {}

\* Not so: success means that nothing the script asks about has regressed. By its
\* header every cell of the suite is a result that "contains a language-specific
\* landmark substring" (test-suite.py 14-18), but check_position_tool looks for none
\* and an empty answer passes; cells 3 and 7 of adr029 are "no error" and "succeeds"
\* (dogfood-adr-029.py 93, 186), and a JSON-RPC error passes both.
NothingIsOverlooked == Succeeded => broken = {}

\* Not so: exit code 2 means that the set-up failed (dogfood-adr-029.py 17-20). With
\* two of cells 1-5 failed and no URI to go on with, it is their number.
ExitTwoIsSetup == exit = "2" => rows = <<>>

\* Not so: a cell that passes has had its request answered. An error without a
\* result, such as the one drive_serial makes up for a request that has timed out,
\* is not a tool's error: cells 3 and 7 of adr029 ("succeeds", 121 and 186) and 3
\* of adr032 pass on it, and 2 of adr032 when the call it is about never came
\* through.
PassesAreEarned ==
  (exit = "0" /\ ~Skipped) => late = 0
=============================================================================
