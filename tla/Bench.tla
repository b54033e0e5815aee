------------------------------- MODULE Bench --------------------------------
(* The benchmark: bench/oracle.py makes a bank of questions from what pharos  *)
(* says of a workspace, bench/harness.py or bench/harness_deepseek.py puts     *)
(* each to a model with and without pharos, and bench/score.py marks the       *)
(* answers. The workspace and the model are seen from outside; a call of       *)
(* pharos may fail, pharos may die, and while its language server has not yet  *)
(* read every file an answer that succeeds knows nothing of the rest.          *)
EXTENDS Integers, FiniteSets, SequencesExt

CONSTANTS
  Worlds,      \* workspaces: [files, symbols], as below
  KINDS,       \* the active generators, in order: sequence
  Modes,       \* subset of {"per_kind", "round_robin"}
  Target,      \* how many questions, of each kind or in all
  Arms,        \* sequence of "control", "treatment"
  Trials, Limit,   \* Limit = 0: every question
  Harnesses,   \* subset of {"claude", "deepseek"}
  basename(_), \* os.path.basename of a path
  Identifiers, \* the names and kinds that are one word (is_identifier)
  Outcomes,    \* what a run may leave in its row: [tagged, form, error], see score_one
  MaxFail      \* bound: calls of pharos that fail while it lives

\* A file: [name, test, diagnostics], its name a whole path. A symbol: [name, test,
\* file, kind, first, last, line, character, refs, callers, impls]: the first and
\* last lines of its range, where its name is, the sites [file, line, character]
\* that find_references returns, its callers [name, file, kind], and the files of
\* its implementations, all of them once every file has been read.
Sites == [file : STRING, line : Nat, character : Nat]
WalkedFiles == [name : STRING, test : BOOLEAN, diagnostics : Nat]
IsSymbol(x) ==
  /\ DOMAIN x = {"name", "test", "file", "kind", "first", "last", "line", "character", "refs", "callers", "impls"}
  /\ x.first \in Nat /\ x.line \in Nat /\ x.last \in Nat /\ x.first <= x.line /\ x.line <= x.last
  /\ x.refs \in Seq(Sites) /\ IsFiniteSet(x.callers) /\ x.impls \in Seq(STRING)

\* No path is walked twice. A site is a reference to one declaration: what
\* find_references and goto_definition say agrees.
ASSUME WorkspaceAssumption ==
  \A w \in Worlds :
    /\ w.files \in Seq(WalkedFiles)
    /\ \A i, j \in 1..Len(w.files) : w.files[i].name = w.files[j].name => i = j
    /\ IsFiniteSet(w.symbols) /\ \A x \in w.symbols : IsSymbol(x)
    /\ \A x, y \in w.symbols : ToSet(x.refs) \cap ToSet(y.refs) # {} => x.file = y.file

GENERATORS_BY_NAME == {"references_count", "definition_path", "call_hierarchy_in", "collision_resolve",
                       "diagnostics_count", "containing_symbol", "implementations", "symbol_kind"}
ASSUME BenchAssumption ==
  /\ KINDS \in Seq(GENERATORS_BY_NAME) /\ KINDS # <<>> /\ IsInjective(KINDS)
  /\ Modes \subseteq {"per_kind", "round_robin"} /\ Harnesses \subseteq {"claude", "deepseek"}
  /\ Arms \in Seq({"control", "treatment"}) /\ IsInjective(Arms)
  /\ Outcomes \subseteq [tagged : BOOLEAN, error : BOOLEAN,
                         form : {"exact", "escaped", "whole", "later", "part", "wrong", "empty"}]
  /\ Target \in Nat /\ Trials \in Nat /\ Limit \in Nat /\ MaxFail \in Nat

VARIABLES
  world, mode, harness,   \* what was started
  phase,      \* "collect", "diagnose", "generate", "run", "done", "nothing", "aborted"
  file,       \* the next file to ask about
  symbols,    \* those collected, then filtered and shuffled
  records,    \* diagnostics per file: sequence of [file, count, full], see Question
  pool,       \* _diag_pool: the places in records of those in it, taken in order
  k, s,       \* the generator and the symbol under way
  count,      \* questions of this kind
  bank,       \* the questions
  todo,       \* runs still to do: sequence of [trial, q, arm]
  results,    \* rows: [trial, q, arm, tagged, form, error]
  server,     \* pharos: "up" | "dead"
  unseen,     \* the files its language server has not read yet
  fails       \* how many calls have failed

started == <<world, mode, harness>>
oracle == <<file, symbols, records, pool, k, s, count, bank, unseen>>
vars == <<world, mode, harness, phase, file, symbols, records, pool, k, s, count, bank,
          todo, results, server, unseen, fails>>

\* A call of pharos: it succeeds, or it raises, once it is dead every time.
Called(ok) == /\ ok => server = "up"
              /\ fails' = (IF ok \/ server = "dead" THEN fails ELSE fails + 1)
              /\ fails' <= MaxFail

-----------------------------------------------------------------------------
(* The generators. Each returns a question for a symbol, or None.              *)

\* full is history: whether every file had been read when pharos was asked.
None == [kind |-> "none"]
Question(kind, x, at, truth) ==
  [kind |-> kind, symbol |-> x.name, of |-> x, anchor |-> at, truth |-> truth, full |-> unseen = {}]
Site(f, l, c) == [file |-> f, line |-> l, character |-> c]
Decl(x) == Site(x.file, x.line, x.character)
LineOf(p) == <<p.file, p.line>>   \* of a site or of a symbol's declaration

\* find_references: the places in x.refs of those in files that have been read.
Refs(x) == {i \in 1..Len(x.refs) : x.refs[i].file \notin unseen}

MIN_REFS_FOR_COUNT_QUESTION == 2
gen_references_count(x) ==
  IF Cardinality(Refs(x)) < MIN_REFS_FOR_COUNT_QUESTION THEN None
  ELSE Question("references_count", x, Decl(x), Cardinality(Refs(x)))

\* goto_definition: the symbol a site refers to.
Defines(site) == {x \in world.symbols : site \in ToSet(x.refs) /\ x.file \notin unseen}

\* The first reference on no line of a declaration, and what is defined there.
Uses(x, declarations) == {i \in Refs(x) : LineOf(x.refs[i]) \notin declarations}
FirstUse(x, declarations) == x.refs[Min(Uses(x, declarations))]
AtUse(kind, x, declarations) ==
  IF Uses(x, declarations) = {} \/ Defines(FirstUse(x, declarations)) = {} THEN None
  ELSE Question(kind, x, FirstUse(x, declarations),
                (CHOOSE d \in Defines(FirstUse(x, declarations)) : TRUE).file)

gen_definition_uri(x) == AtUse("definition_path", x, {LineOf(x)})

Namesakes(x) == {y \in ToSet(symbols) : y.name = x.name}
precompute_collisions == {x \in ToSet(symbols) : Cardinality({y.file : y \in Namesakes(x)}) >= 2}

gen_collision_resolve(x) ==
  IF x \notin precompute_collisions THEN None
  ELSE AtUse("collision_resolve", x, {LineOf(y) : y \in Namesakes(x)})

CALLER_KINDS_FUNCTION_ISH == {"function", "method", "constructor"}
Callers(x) == {c \in x.callers : c.kind \in CALLER_KINDS_FUNCTION_ISH}
gen_call_hierarchy_in(x) ==
  LET callers == {<<c.file, c.name>> : c \in {d \in Callers(x) : d.file \notin unseen}}
  IN IF Cardinality(callers) < 2 THEN None
     ELSE Question("call_hierarchy_in", x, Decl(x), Cardinality(callers))

Impls(x) == {i \in 1..Len(x.impls) : x.impls[i] \notin unseen}
gen_implementations(x) ==
  IF Cardinality(Impls(x)) < 2 THEN None
  ELSE Question("implementations", x, Decl(x), Cardinality(Impls(x)))

SYMBOL_KIND_LABELS == {"class", "method", "field", "constructor", "enum", "interface", "function",
                       "variable", "constant", "enum member", "struct", "type parameter"}
gen_symbol_kind(x) ==
  IF x.kind \notin SYMBOL_KIND_LABELS THEN None ELSE Question("symbol_kind", x, Decl(x), x.kind)

\* (mutation) Only a symbol that begins on the line counts as nested.
NestedAt(x, y, line) == y.first = line /\ y.last <= x.last

Nested(x, y, line) == x.first <= y.first /\ y.first <= line /\ line <= y.last /\ y.last <= x.last
_ANON_NAME_PLACEHOLDERS ==
  {"", "<function>", "<anonymous>", "<lambda>", "<closure>", "default", "_"}
\* The second line of the range, if no other symbol of the file is nested there.
gen_containing_symbol(x) ==
  LET line == x.first + 1 IN
  IF \/ x.name \in _ANON_NAME_PLACEHOLDERS \/ x.last <= line
     \/ \E y \in ToSet(symbols) \ {x} : y.file = x.file /\ Nested(x, y, line)
  THEN None ELSE Question("containing_symbol", x, Site(x.file, line, 0), x.name)

\* The next file that has diagnostics; the pool is filled again when it is empty.
\* The symbol is the file's name without its directory.
Refilled == IF pool = {} THEN {i \in 1..Len(records) : records[i].count > 0} ELSE pool
NextRecord == records[Min(Refilled)]
gen_diagnostics_count(x) ==
  IF Refilled = {} THEN None
  ELSE [Question("diagnostics_count", x, Site(NextRecord.file, 0, 0), NextRecord.count)
          EXCEPT !.symbol = basename(NextRecord.file), !.full = NextRecord.full]

Calling == {"references_count", "definition_path", "call_hierarchy_in", "collision_resolve", "implementations"}
GENERATORS(kind, x) ==
  CASE kind = "references_count" -> gen_references_count(x)
    [] kind = "definition_path" -> gen_definition_uri(x)
    [] kind = "call_hierarchy_in" -> gen_call_hierarchy_in(x)
    [] kind = "collision_resolve" -> gen_collision_resolve(x)
    [] kind = "diagnostics_count" -> gen_diagnostics_count(x)
    [] kind = "containing_symbol" -> gen_containing_symbol(x)
    [] kind = "implementations" -> gen_implementations(x)
    [] kind = "symbol_kind" -> gen_symbol_kind(x)

\* What the text of a question says of where it is: files by their last part only,
\* and a containing symbol not by its name.
Wording(q) == <<q.kind, IF q.kind = "containing_symbol" THEN "" ELSE q.symbol,
                basename(q.anchor.file), q.anchor.line>>

-----------------------------------------------------------------------------
(* The oracle.                                                                *)

Files == world.files
Paths == {Files[i].name : i \in 1..Len(Files)}

Init ==
  /\ world \in Worlds /\ harness \in Harnesses
  /\ mode \in Modes /\ (mode = "per_kind" => Target > 0)
  /\ phase = "collect" /\ file = 1 /\ symbols = <<>> /\ records = <<>> /\ pool = {}
  /\ k = 1 /\ s = 1 /\ count = 0 /\ bank = <<>>
  /\ todo = <<>> /\ results = <<>> /\ server = "up" /\ fails = 0
  /\ unseen \in SUBSET Paths

\* The language server has read one file more.
Index ==
  /\ phase \in {"collect", "diagnose", "generate"} /\ server = "up"
  /\ \E f \in unseen : unseen' = unseen \ {f}
  /\ UNCHANGED <<started, phase, file, symbols, records, pool, k, s, count, bank, todo, results, server, fails>>

\* document_symbols of a file, which is empty when it has not been read; a file for
\* which it fails is skipped.
SymbolsOf(f) == SetToSeq({x \in world.symbols : x.file = f /\ f \notin unseen})
collect_symbols ==
  /\ phase = "collect" /\ file <= Len(Files)
  /\ \E ok \in BOOLEAN :
       /\ Called(ok)
       /\ symbols' = IF ok THEN symbols \o SymbolsOf(Files[file].name) ELSE symbols
  /\ file' = file + 1
  /\ UNCHANGED <<started, phase, records, pool, k, s, count, bank, todo, results, server, unseen>>

\* No symbols: there is nothing to ask. Otherwise those of tests are dropped and
\* the rest is shuffled.
Tested(x) == x.test \/ \E i \in 1..Len(Files) : Files[i].name = x.file /\ Files[i].test
Kept == {x \in ToSet(symbols) : ~Tested(x)}
Prepare ==
  /\ phase = "collect" /\ file > Len(Files)
  /\ IF symbols = <<>> THEN phase' = "nothing" /\ UNCHANGED <<symbols, file>>
     ELSE phase' = "diagnose" /\ symbols' \in SetToSeqs(Kept) /\ file' = 1
  /\ UNCHANGED <<started, records, pool, k, s, count, bank, todo, results, server, unseen, fails>>

\* get_diagnostics of a file: none are known while the files are being read.
Diagnosed(f) == [file |-> f.name, full |-> unseen = {},
                 count |-> IF f.name \in unseen THEN 0 ELSE f.diagnostics]
precompute_diagnostics ==
  /\ phase = "diagnose" /\ file <= Len(Files)
  /\ \E ok \in BOOLEAN :
       /\ Called(ok)
       /\ records' = IF ok THEN Append(records, Diagnosed(Files[file])) ELSE records
  /\ file' = file + 1
  /\ phase' = IF file = Len(Files) THEN "generate" ELSE phase
  /\ UNCHANGED <<started, symbols, pool, k, s, count, bank, todo, results, server, unseen>>

\* One attempt: the question, if there is one, is written with the next id.
Attempt(kind, x) ==
  \E ok \in IF kind \in Calling THEN BOOLEAN ELSE {TRUE} :
    LET q == IF ok THEN GENERATORS(kind, x) ELSE None IN
      /\ IF kind \in Calling THEN Called(ok) ELSE UNCHANGED fails
      /\ bank' = IF q = None THEN bank ELSE Append(bank, q)
      /\ count' = IF q = None THEN count ELSE count + 1
      /\ pool' = IF kind = "diagnostics_count" /\ Refilled # {} THEN Refilled \ {Min(Refilled)} ELSE pool

\* (mutation) One question of each kind too many.
PerKindAndOne ==
  /\ phase = "generate" /\ mode = "per_kind" /\ k <= Len(KINDS)
  /\ IF s <= Len(symbols) /\ count <= Target
     THEN Attempt(KINDS[k], symbols[s]) /\ s' = s + 1 /\ UNCHANGED k
     ELSE k' = k + 1 /\ s' = 1 /\ count' = 0 /\ UNCHANGED <<bank, pool, fails>>
  /\ UNCHANGED <<started, phase, file, symbols, records, todo, results, server, unseen>>

\* Each kind walks the symbols until it has enough.
PerKind ==
  /\ phase = "generate" /\ mode = "per_kind" /\ k <= Len(KINDS)
  /\ IF s <= Len(symbols) /\ count < Target
     THEN Attempt(KINDS[k], symbols[s]) /\ s' = s + 1 /\ UNCHANGED k
     ELSE k' = k + 1 /\ s' = 1 /\ count' = 0 /\ UNCHANGED <<bank, pool, fails>>
  /\ UNCHANGED <<started, phase, file, symbols, records, todo, results, server, unseen>>

\* Each symbol is asked of one kind, the kinds taking turns.
RoundRobin ==
  /\ phase = "generate" /\ mode = "round_robin" /\ s <= Len(symbols) /\ Len(bank) < Target
  /\ Attempt(KINDS[(s % Len(KINDS)) + 1], symbols[s])
  /\ s' = s + 1
  /\ UNCHANGED <<started, phase, file, symbols, records, k, todo, results, server, unseen>>

\* The harness takes over: the first questions, every trial and arm. That of
\* DeepSeek starts one pharos for the pass, before it catches anything: one that
\* dies, or answers initialize with an error, ends it.
Asked == IF Limit # 0 /\ Limit < Len(bank) THEN Limit ELSE Len(bank)
Runs == [i \in 1..Trials * Asked * Len(Arms) |->
           LET turn == (i - 1) \div Len(Arms)
           IN [trial |-> (turn \div Asked) + 1, q |-> (turn % Asked) + 1, arm |-> Arms[((i - 1) % Len(Arms)) + 1]]]
OnePharos == harness = "deepseek" /\ "treatment" \in ToSet(Arms)
Written ==
  /\ phase = "generate"
  /\ IF mode = "per_kind" THEN k > Len(KINDS) ELSE s > Len(symbols) \/ Len(bank) >= Target
  /\ phase' \in {"run"} \cup (IF OnePharos THEN {"aborted"} ELSE {})
  /\ todo' = Runs
  /\ server' \in (IF phase' = "run" THEN {"up"} ELSE {"up", "dead"})
  /\ UNCHANGED <<started, oracle, results, fails>>

-----------------------------------------------------------------------------
(* The harnesses. Each run gets a row, in which an exception is an error; but   *)
(* harness_deepseek lists pharos's tools before it catches anything.            *)

Lists == OnePharos /\ Head(todo).arm = "treatment"

Row(run, o) == [trial |-> run.trial, q |-> run.q, arm |-> run.arm,
                tagged |-> o.tagged, form |-> o.form, error |-> o.error]

run_one ==
  /\ phase = "run" /\ todo # <<>> /\ (Lists => server = "up")
  /\ \E o \in Outcomes : results' = Append(results, Row(Head(todo), o))
  /\ todo' = Tail(todo)
  /\ UNCHANGED <<started, phase, oracle, server, fails>>

\* (mutation) The exception is caught too far in: the run is given up, with no row.
AbortRun ==
  /\ phase = "run" /\ todo # <<>> /\ Lists
  /\ todo' = Tail(todo)
  /\ UNCHANGED <<started, phase, oracle, results, server, fails>>

\* It is dead, or answers with an error.
Abort ==
  /\ phase = "run" /\ todo # <<>> /\ Lists
  /\ phase' = "aborted"
  /\ UNCHANGED <<started, oracle, todo, results, server, fails>>

Finish ==
  /\ phase = "run" /\ todo = <<>>
  /\ phase' = "done"
  /\ UNCHANGED <<started, oracle, todo, results, server, fails>>

Die == /\ server = "up" /\ phase \in {"collect", "diagnose", "generate", "run"}
       /\ server' = "dead"
       /\ UNCHANGED <<started, phase, oracle, todo, results, fails>>

Next == \/ Index \/ collect_symbols \/ Prepare \/ precompute_diagnostics \/ PerKind \/ RoundRobin \/ Written
        \/ run_one \/ Abort \/ Finish \/ Die
Spec == Init /\ [][Next]_vars

-----------------------------------------------------------------------------
(* score.py. The form of an answer: the truth "exact"ly, HTML-"escaped", as a   *)
(* "whole" word among others, "later" than another integer, as a "part" of a    *)
(* longer word, not at all ("wrong"), or "empty". Only DeepSeek's rows keep the *)
(* text of an answer without its tags.                                          *)

score_one(row) ==
  LET kind == bank[row.q].kind
      OneWord == kind \in {"containing_symbol", "symbol_kind"} /\ bank[row.q].truth \in Identifiers
  IN
    /\ ~row.error
    /\ row.tagged \/ harness = "deepseek"
    /\ row.form \in
         CASE kind = "references_count" -> {"exact", "whole"}
           [] kind = "definition_path" -> {"exact", "escaped", "whole", "later", "part"}
           [] OneWord -> {"exact", "escaped", "whole", "later"}
           [] OTHER -> {"exact", "escaped"}

\* The line of an arm in the tables.
Of(arm) == {i \in 1..Len(results) : results[i].arm = arm}
summarize(arm) == [n |-> Cardinality(Of(arm)),
                   correct |-> Cardinality({i \in Of(arm) : score_one(results[i])}),
                   errors |-> Cardinality({i \in Of(arm) : results[i].error})]

-----------------------------------------------------------------------------
(* Properties.                                                                *)

\* The types of the state.
TypeOK ==
  /\ phase \in {"collect", "diagnose", "generate", "run", "done", "nothing", "aborted"}
  /\ file \in 1..Len(Files) + 1 /\ k \in 1..Len(KINDS) + 1 /\ s \in 1..Len(symbols) + 1
  /\ ToSet(symbols) \subseteq world.symbols /\ unseen \subseteq Paths /\ pool \subseteq 1..Len(records)
  /\ count <= Target /\ \A i \in 1..Len(bank) : bank[i] # None
  /\ \A i \in 1..Len(todo) : todo[i].q \in 1..Len(bank)
  /\ server \in {"up", "dead"} /\ fails <= MaxFail

\* The truth of a call hierarchy is over callers by file and name.
ToldApart(x) == \A c, d \in Callers(x) : c.file = d.file /\ c.name = d.name => c = d

\* A count is never too high, and is right if every file had been read. Places of
\* references are counted: more than there are references, where the server
\* gives one twice.
Tells(q, n) == 0 < q.truth /\ q.truth <= n /\ (q.full => q.truth = n)

\* What the truth of a question should be, from the workspace itself.
Sound(q) ==
  LET x == q.of IN
  CASE q.kind = "references_count" ->
         Tells(q, Len(x.refs)) /\ q.truth > 1 /\ (IsInjective(x.refs) => Tells(q, Cardinality(ToSet(x.refs))))
    [] q.kind \in {"definition_path", "collision_resolve"} ->
         /\ q.truth = x.file /\ q.anchor \in ToSet(x.refs) /\ LineOf(q.anchor) # LineOf(x)
         /\ q.kind = "collision_resolve" =>
              \A y \in ToSet(symbols) : y.name = x.name => LineOf(q.anchor) # LineOf(y)
    [] q.kind = "call_hierarchy_in" ->
         ToldApart(x) => Tells(q, Cardinality(Callers(x)))
    [] q.kind = "containing_symbol" ->
         /\ x.first < q.anchor.line /\ q.anchor.line < x.last
         /\ \A y \in ToSet(symbols) \ {x} :
              y.file = x.file /\ y.first <= q.anchor.line /\ q.anchor.line <= y.last
              => ~(x.first <= y.first /\ y.last <= x.last)
    [] q.kind = "diagnostics_count" ->
         \E f \in ToSet(Files) : f.name = q.anchor.file /\ Tells(q, f.diagnostics)
    [] q.kind = "implementations" -> Tells(q, Len(x.impls))
    [] q.kind = "symbol_kind" -> q.truth = x.kind

\* Whatever fails, and whatever pharos's server has not read yet, every question of
\* the bank is anchored where it is a question and has the right truth: at most what
\* there is, and all of it when it was made with every file read. No kind asks of
\* a symbol twice, and none asks of a file's diagnostics again before it has asked
\* of every other's (oracle.py 294-813 and 985-1030).
QuestionsAreSound ==
  /\ \A i \in 1..Len(bank) : Sound(bank[i])
  /\ \A i, j \in 1..Len(bank) : i < j /\ bank[i].kind = bank[j].kind =>
       IF bank[i].kind = "diagnostics_count"
       THEN bank[i].anchor.file = bank[j].anchor.file =>
              \A r \in ToSet(records) : r.count > 0 =>
                \E h \in i..j - 1 : bank[h].kind = bank[i].kind /\ bank[h].anchor.file = r.file
       ELSE bank[i].of # bank[j].of
  /\ IF mode = "per_kind"
     THEN \A kind \in ToSet(KINDS) : Cardinality({i \in 1..Len(bank) : bank[i].kind = kind}) <= Target
     ELSE Len(bank) <= Target

\* The two arms are put to the same questions: the rows and what is still to do
\* are every trial of every question in every arm, in order, so that of two arms
\* neither is ever more than one row ahead, and at the end neither is ahead at all.
\* A pass that ends early is one of DeepSeek's with pharos: before its first row,
\* or with a run of the arm that has pharos the next to do (harness.py 261-286, harness_deepseek.py 598-631).
ComparisonIsFair ==
  /\ phase \in {"run", "done", "aborted"} =>
       [i \in 1..Len(results) |-> [trial |-> results[i].trial, q |-> results[i].q, arm |-> results[i].arm]]
         \o todo = Runs
  /\ \A a, b \in ToSet(Arms) : LET A == summarize(a) B == summarize(b) IN
       /\ A.n <= B.n + 1
       /\ phase = "done" => A.n = B.n
  /\ phase = "aborted" => OnePharos /\ (results = <<>> \/ Head(todo).arm = "treatment")

\* Not so: no two questions of a bank read the same and have different truths. Two
\* files of one name in different directories are not told apart (oracle.py 675-678).
QuestionsAreUnambiguous ==
  \A i, j \in 1..Len(bank) : Wording(bank[i]) = Wording(bank[j]) => bank[i].truth = bank[j].truth

\* Not so: the truth of a count is what there is. The prewarm waits for one file to
\* have symbols, since an answer from a server that is still reading "silently
\* poisons the downstream sampling" (oracle.py 895-902); it need not have read the rest.
CountsAreWhole ==
  \A i \in 1..Len(bank) : LET q == bank[i] IN
    /\ q.kind = "references_count" => q.truth = Len(q.of.refs)
    /\ q.kind = "implementations" => q.truth = Len(q.of.impls)

\* Not so: a path that goes on after the truth is right (score.py 114-115).
PathsAreWhole == \A i \in 1..Len(results) : score_one(results[i]) => results[i].form # "part"

\* Not so: the question leaves a recursive symbol out of its own callers
\* ("Exclude ... itself if it is self-recursive"); the truth counts it.
RecursionIsExcluded == \A i \in 1..Len(bank) : bank[i].kind = "call_hierarchy_in" =>
  LET x == bank[i].of IN
  bank[i].truth = Cardinality({c \in Callers(x) : <<c.file, c.name>> # <<x.file, x.name>>})

\* Not so: methods of one name in one file are as many callers ("distinct function
\* or method callers"); the truth counts them once.
CallersAreCounted == \A i \in 1..Len(bank) :
  bank[i].kind = "call_hierarchy_in" => bank[i].truth = Cardinality(Callers(bank[i].of))

\* Not so: the line asked of is past the declaration ("not the declaration line");
\* a range may begin lines before its name.
LinesAreInTheBody == \A i \in 1..Len(bank) :
  bank[i].kind = "containing_symbol" => bank[i].of.line < bank[i].anchor.line

\* Not so: the truth is the innermost symbol there is; those of tests are not seen.
ContainersAreInnermost == \A i \in 1..Len(bank) : bank[i].kind = "containing_symbol" =>
  \A y \in world.symbols \ {bank[i].of} :
    ~(y.file = bank[i].of.file /\ Nested(bank[i].of, y, bank[i].anchor.line))
=============================================================================
