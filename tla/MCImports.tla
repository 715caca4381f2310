------------------------------ MODULE MCImports ------------------------------
(***************************************************************************)
(* Every import graph in which no file imports from itself nor f1 from f4: *)
(* up to the files' names, all but the complete graph.  What a module      *)
(* declares is what its imports allow of the declarations below: names     *)
(* that two modules define, values before their types, templates that      *)
(* other modules use, and a value of a type that is an instance of one.    *)
(***************************************************************************)
EXTENDS Compilation

CONSTANTS f1, f2, f3, f4

MCGraphs == {g \in [Files -> SUBSET Files] : f4 \notin g[f1] /\ \A f \in Files : f \notin g[f]}

MCNames == {"Id", "Key", "Alias", "T", "L", "v", "w"}

Decl(name, form, ref) == [name |-> name, form |-> form, ref |-> ref, template |-> FALSE]
Template(name, form, ref) == [name |-> name, form |-> form, ref |-> ref, template |-> TRUE]

Wanted(f, g) ==
  CASE f = f1 -> <<Decl("v", "value", <<f1, "Id">>), Decl("Id", "oid", None)>>
    [] f = f2 -> <<Decl("v", "value", <<f2, "Key">>),
                   IF f3 \in g THEN Decl("Key", "instance", <<f3, "T">>) ELSE Decl("Key", "sequence", None),
                   Decl("Id", "list", <<f2, "Key">>),
                   Decl("w", "instance", <<f3, "L">>)>>
    [] f = f3 -> <<Template("T", "oid", None), IF f1 \in g THEN Template("L", "list", <<f1, "Id">>) ELSE Template("L", "sequence", None),
                   Decl("v", "value", <<f1, "Id">>)>>
    [] f = f4 -> <<Decl("v", "value", <<f2, "Key">>), Decl("Alias", "rename", <<f1, "Id">>),
                   Decl("w", "instance", <<f3, "L">>)>>

Possible(f, d, g) == d.ref = None \/ d.ref[1] \in g \union {f}
MCContents ==
  [g \in MCGraphs |->
    [f \in Files |-> SelectSeq(Wanted(f, g[f]), LAMBDA d : Possible(f, d, g[f]))]]
=============================================================================
