------------------------------ MODULE MCBench -------------------------------
(* An instance of Bench: a method that opens on its class's line, a name in two *)
(* files, one used on the other's line, a recursive function, a test within it, *)
(* two methods of one name that call the same function, two files of one name.  *)
EXTENDS Bench

MCSym(name, f, kind, first, line, last, refs, callers, impls) ==
  [name |-> name, test |-> FALSE, file |-> f, kind |-> kind, first |-> first, line |-> line,
   character |-> 0, last |-> last, refs |-> refs, callers |-> callers, impls |-> impls]
MCCall(name, f, kind) == [name |-> name, file |-> f, kind |-> kind]
MCFile(name, diagnostics) == [name |-> name, test |-> FALSE, diagnostics |-> diagnostics]

MCGoA == MCSym("go", "a", "function", 1, 2, 5, <<Site("a", 2, 0), Site("a", 4, 0), Site("b", 8, 9)>>,
               {MCCall("go", "a", "function"), MCCall("at", "b", "method"), MCCall("b", "b", "module")}, <<>>)
MCGoB == MCSym("go", "b", "enum member", 8, 8, 8, <<Site("b", 8, 0), Site("b", 3, 0)>>,
               {MCCall("run", "a", "method"), MCCall("run", "a", "function"), MCCall("at", "b", "method")}, <<"a", "b", "b">>)
MCBox == MCSym("Box", "b", "class", 1, 1, 6, <<Site("b", 1, 0), Site("a", 3, 0)>>, {}, <<"b", "a">>)
MCAt  == [MCSym("at", "b", "method", 1, 1, 4, <<Site("b", 1, 5)>>, {}, <<>>) EXCEPT !.character = 5]
MCProof == [MCSym("test_go", "a", "function", 2, 2, 3, <<Site("a", 2, 7)>>, {}, <<>>)
              EXCEPT !.test = TRUE, !.character = 7]

MCWorlds == {
  [files |-> <<MCFile("a", 1), MCFile("b", 2)>>, symbols |-> {MCGoA, MCProof, MCGoB, MCBox, MCAt}],
  [files |-> <<MCFile("a", 0), [MCFile("b", 1) EXCEPT !.test = TRUE]>>, symbols |-> {MCProof}] }

MCKinds == <<"references_count", "definition_path", "call_hierarchy_in", "collision_resolve",
             "diagnostics_count", "containing_symbol", "implementations", "symbol_kind">>
MCModes == {"per_kind", "round_robin"}
MCArms == <<"control", "treatment">>
MCHarnesses == {"claude", "deepseek"}
MCOutcome(tagged, form, error) == [tagged |-> tagged, form |-> form, error |-> error]
MCOutcomes == {MCOutcome(TRUE, "part", FALSE)}
MCbasename(f) == IF f \in {"a", "b"} THEN "mod.rs" ELSE f
MCIdentifiers == {"go", "Box", "at", "test_go", "function", "class", "method"}
=============================================================================
