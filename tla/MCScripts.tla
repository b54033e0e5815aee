----------------------------- MODULE MCScripts ------------------------------
EXTENDS Scripts

Crate(n, ds, l) == [name |-> n, defs |-> ds, lib |-> l]
MCLocks == { <<Crate("t", {"View"}, TRUE), Crate("d", ds, l)>> : ds \in {{}, {"World"}}, l \in BOOLEAN }
           \cup { <<Crate("t", {}, FALSE)>> }
MCProjects == { [direct |-> <<"d">>, imports |-> I, words |-> {"World", "View"}] :
                  I \in {{}, {<<"d", "World">>}, {<<"t", "View">>, <<"d", "World">>}} }

Item(d, n) == [depth |-> d, kind |-> "item", test |-> FALSE, name |-> n]
Module(t) == [depth |-> 0, kind |-> "module", test |-> t, name |-> "mod"]
MCForests == { <<>>,
               <<Module(TRUE), Item(1, "World"), Item(0, "View")>>,
               <<Item(0, "View"), Item(0, "World")>>,
               <<Module(TRUE), Item(1, "World"), Module(FALSE), Item(1, "View"), Item(1, "World")>> }
=============================================================================
