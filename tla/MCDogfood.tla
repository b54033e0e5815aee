----------------------------- MODULE MCDogfood ------------------------------
EXTENDS Dogfood

Started(t, p, f, s, m, poll) ==
  [transport |-> t, profile |-> p, filter |-> f, skip |-> s, memory_only |-> m, poll |-> poll]
MCOptions == { Started("stdio", "all", {"go"}, {}, FALSE, FALSE),
               Started("http", "all", {"go"}, {}, FALSE, FALSE),
               Started("stdio", "all", {"java"}, {}, FALSE, TRUE),
               Started("http", "default", {"java"}, {}, FALSE, FALSE),
               Started("stdio", "default", {}, {"go", "java"}, FALSE, FALSE),
               Started("stdio", "all", {"cobol"}, {}, FALSE, FALSE),
               Started("stdio", "all", {"go"}, {}, TRUE, FALSE) }
Lang(id, fixture, override, symbol) ==
  [id |-> id, fixture |-> fixture, override |-> override, symbol |-> symbol, edit |-> symbol]
MCTargets == <<Lang("go", "present", FALSE, TRUE), Lang("java", "present", TRUE, FALSE),
               Lang("perl", "missing", FALSE, FALSE)>>
MCPerLang == <<"hover", "call_hierarchy_prepare", "call_hierarchy_incoming_calls", "lsp_request_raw">>
MCGlobal == <<"runtime_processes">>
MCMemory == <<[tool |-> "memory_save", want |-> "ok"], [tool |-> "memory_save dup", want |-> "error"],
              [tool |-> "memory_audit", want |-> "payload"]>>
=============================================================================
