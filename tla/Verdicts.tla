------------------------------ MODULE Verdicts ------------------------------
(* How the test scripts read an answer and judge it: pure functions of       *)
(* bin/_pharos_drive.py, bin/test-suite.py, bin/dogfood-adr-029.py and        *)
(* bin/dogfood-adr-032.py. A text is a member of a small set: what a check    *)
(* looks for in it.                                                           *)
EXTENDS Naturals, FiniteSets, SequencesExt

(* Answers. One that has no result is a JSON-RPC error: of pharos, or the     *)
(* driver's own when a request has timed out.                                 *)

Error == [result |-> FALSE, isError |-> FALSE, text |-> "none"]
Result(t) == [result |-> TRUE, isError |-> FALSE, text |-> t]
ToolError(t) == [result |-> TRUE, isError |-> TRUE, text |-> t]

\* An answer without a result is not a tool error, and has no text.
tool_is_error(a) == a.result /\ a.isError
tool_text(a) == IF a.result THEN a.text ELSE "none"

-----------------------------------------------------------------------------
(* test-suite.py. A language is what its entry says about it.                 *)

\* The kinds of entries of SPECS: who is driven request by request, has types,
\* and is expected to have diagnostics.
Specs == { [serial |-> s, types |-> t, diagnostics |-> d] :
             <<s, t, d>> \in {<<TRUE, TRUE, TRUE>>, <<FALSE, TRUE, TRUE>>, <<TRUE, TRUE, FALSE>>,
                              <<FALSE, TRUE, FALSE>>, <<FALSE, FALSE, FALSE>>} }

\* What a text may say: the language's landmark, something else, nothing at all,
\* or one of the signals the checks know. "empty" is null, [] or an empty list.
Signals == {"unhandled", "outside", "lsp timeout", "range", "transport", "tool timeout",
            "no target", "no project", "no publish", "loading"}
Texts == Signals \cup {"landmark", "other", "empty", "none"}

\* The answer is there and a result; then the check's tolerance, which comes
\* before the tool's own error flag, and then what it expects.
_check_response(a, tolerated, expected) ==
  a.result /\ (a.text \in tolerated \/ (~a.isError /\ a.text \in expected))

check_hover(spec, a) ==
  _check_response(a, {"unhandled", "outside", "tool timeout"},
                  IF spec.types THEN {"landmark", "loading", "empty"} ELSE Texts)

check_document_symbols(spec, a) ==
  _check_response(a, {"unhandled", "empty", "tool timeout"}, {"landmark"})

check_workspace_symbols(spec, a) ==
  _check_response(a, {"no project", "empty", "lsp timeout", "unhandled", "transport", "tool timeout"},
                  IF spec.types THEN {"landmark"} ELSE Texts)

check_diagnostics(spec, a) ==
  _check_response(a, IF spec.diagnostics THEN {"no publish", "tool timeout"} ELSE Texts,
                  {"landmark"})

check_position_tool(spec, a) ==
  _check_response(a, {"unhandled", "lsp timeout", "outside", "range", "transport",
                      "tool timeout", "no target", "empty"}, Texts \ {"none"})

-----------------------------------------------------------------------------
(* dogfood-adr-029.py: the nine cells. "good" is the content a cell asks for.  *)

cell_result(a) == a.result /\ a.text = "good"
cell_content(a) == ~tool_is_error(a) /\ tool_text(a) = "good"
cell_no_error(a) == ~tool_is_error(a)
\* Any text will do, and for fetch any content that is not too short.
cell_some_content(a) == ~tool_is_error(a) /\ tool_text(a) \notin {"none", "empty"}
cell_rejected(a) == tool_is_error(a) /\ a.text = "good"

Cells029 == <<"initialize", "tools", "hover", "caps", "definition",
              "jdt_hover", "jdt_references", "fetch", "apply">>

cell029(c, a) ==
  CASE c \in {"initialize", "tools"} -> cell_result(a)
    [] c \in {"caps", "definition"} -> cell_content(a)
    [] c \in {"jdt_hover", "fetch"} -> cell_some_content(a)
    [] c \in {"hover", "jdt_references"} -> cell_no_error(a)
    [] c = "apply" -> cell_rejected(a)

-----------------------------------------------------------------------------
(* dogfood-adr-032.py: which dependency, and which of its symbols, to ask     *)
(* about. A crate is a record: its name, the names its files define, whether   *)
(* its lib.rs is large enough. A project: its direct dependencies in order,    *)
(* what it imports from which crate, and every word in its files.              *)

crate_referenced_names(project, crate) ==
  {n \in project.words : <<crate, n>> \in project.imports}
project_identifiers(project) == project.words

\* A file of the crate that defines a name the project imports from it.
defining_source_file(project, c) == c.defs \cap crate_referenced_names(project, c.name) # {}

Rank(direct, c) == IF c.name \in Range(direct)
                   THEN CHOOSE i \in DOMAIN direct : direct[i] = c.name ELSE Len(direct) + 1

\* Direct dependencies in the manifest's order, then the lockfile's.
Before(lock, direct, i, j) ==
  \/ Rank(direct, lock[i]) < Rank(direct, lock[j])
  \/ Rank(direct, lock[i]) = Rank(direct, lock[j]) /\ i <= j
Foremost(lock, direct, S) == lock[CHOOSE i \in S : \A j \in S : Before(lock, direct, i, j)]

NoCrate == [name |-> "none", defs |-> {}, lib |-> FALSE]

\* A crate with a defining file; failing that the first with a lib.rs.
rust_dependency_source(lock, project) ==
  LET hits == {i \in DOMAIN lock : defining_source_file(project, lock[i])}
      libs == {i \in DOMAIN lock : lock[i].lib}
  IN IF hits # {} THEN Foremost(lock, project.direct, hits)
     ELSE IF libs # {} THEN Foremost(lock, project.direct, libs) ELSE NoCrate

(* document_symbols: the tree in preorder, each node with its depth. A symbol *)
(* in a test module cannot be referenced from outside.                        *)

Ancestors(s, i) == {j \in 1..i : \A k \in j + 1..i : s[k].depth > s[j].depth}
Pruned(s, i) == \E j \in Ancestors(s, i) : s[j].kind = "module" /\ s[j].test
Candidates(s) == {i \in DOMAIN s : ~Pruned(s, i) /\ s[i].kind = "item"}
Others(s) == {i \in DOMAIN s : ~Pruned(s, i) /\ s[i].kind # "item"}

\* Names the script prefers first, then the shallower, then in order.
Closer(s, prefer, i, j) ==
  \/ s[i].name \in prefer /\ s[j].name \notin prefer
  \/ (s[i].name \in prefer) = (s[j].name \in prefer)
     /\ (s[i].depth < s[j].depth \/ (s[i].depth = s[j].depth /\ i <= j))

\* The node to ask references of, or 0.
anchor_from_symbols(s, prefer) ==
  IF Candidates(s) # {}
  THEN CHOOSE i \in Candidates(s) : \A j \in Candidates(s) : Closer(s, prefer, i, j)
  ELSE IF Others(s) # {} THEN Min(Others(s)) ELSE 0
=============================================================================
