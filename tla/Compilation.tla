---------------------------- MODULE Compilation ----------------------------
(***************************************************************************)
(* The compiler (ASN1.ex) under its driver (basic.ex): after the sort each *)
(* of three passes compiles every file, in the order of the sort, in one   *)
(* environment that all modules share.  One step per call of compile/2.    *)
(*                                                                         *)
(* A module is abstracted to its declarations, a declaration to a name,    *)
(* its form and the reference it makes.  The parser gives a reference with *)
(* the module that defines it, which is the module itself or one imported  *)
(* from; the compiler looks up the name alone.  Files have the names that  *)
(* the C99 emitter's qualified_name gives, without its redirects.          *)
(***************************************************************************)
EXTENDS ImportOrder

CONSTANTS
  Names,      \* of ASN.1 definitions
  Contents    \* for each import graph, each file's declarations in order

None == <<>>
Qualified == Files \X Names
Forms == {"oid", "sequence", "rename", "list", "instance", "value"}

(* Templates are definitions with parameters.                              *)
Declarations == [name : Names, form : Forms, ref : Qualified \union {None}, template : BOOLEAN]

(* What ASN.1 asks of modules: a name has one meaning in a module, and     *)
(* what a reference names is declared; only templates are instantiated.    *)
Legal(g, c) ==
  \A f \in Files :
    LET scope == {<<f, d.name>> : d \in Range(c[f])} \union ({d.ref : d \in Range(c[f])} \ {None}) IN
    /\ c[f] \in Seq(Declarations)
    /\ \A i, j \in DOMAIN c[f] : c[f][i].name = c[f][j].name => i = j
    /\ \A q, r \in scope : q[2] = r[2] => q = r
    /\ \A d \in Range(c[f]) :
         /\ d.template => d.form \notin {"instance", "value"}
         /\ d.ref = None => d.form \notin {"instance", "value", "rename"}
         /\ d.ref # None =>
              /\ d.ref[1] \in g[f] \union {f}
              /\ \E e \in Range(c[d.ref[1]]) : e.name = d.ref[2] /\ (e.template <=> d.form = "instance")

ASSUME CompilationAssumption == \A g \in ImportGraphs : Legal(g, Contents[g])

VARIABLES
  modules,    \* what each file declares
  pass,       \* of the driver's three loops over the files
  turn,       \* of a file in the loop
  own,        \* keys of the environment that begin with a module's name
  globals,    \* keys without one: the definition that a name stands for
  oids,       \* keys {:is_oid, name}
  templates,  \* keys {:ptype_def, module, name}
  written     \* the files written

compiling == <<modules, pass, turn, own, globals, oids, templates, written>>
allVars == <<vars, compiling>>

TwoPasses == 2   \* mutant
Passes == 3
File == result[turn]
Saving == pass = Passes
Compiled == pass > Passes

Imported(f) == {d.ref : d \in Range(modules[f])} \ ({None} \union ({f} \X Names))
Defined(f) == {<<f, d.name>> : d \in Range(modules[f])}

-----------------------------------------------------------------------------
(* One call of compile/2.  The i-th declaration finds what earlier calls   *)
(* and the declarations before it have left.                               *)

ImportedOnce(f) == IF pass = 1 THEN Imported(f) ELSE {}   \* mutant: in the first pass only
Registered(f) == Imported(f)

(* The file's own names are registered first, then what it imports; both   *)
(* take the name from whatever module had it.                              *)
Globals(f) ==
  [n \in Names |->
    LET here == {q \in Defined(f) \union Registered(f) : q[2] = n}
    IN IF here = {} THEN globals[n] ELSE CHOOSE q \in here : TRUE]

(* lookup ignores the reference's module.                                  *)
Lookup(f, ref) ==
  IF ref = None THEN None
  ELSE IF <<f, ref[2]>> \in own \union Defined(f) THEN <<f, ref[2]>> ELSE Globals(f)[ref[2]]

(* compilePType stores a template under its module and name.               *)
Stored(f, j) == [at |-> <<f, modules[f][j].name>>, form |-> modules[f][j].form, ref |-> modules[f][j].ref]
TemplatesBefore(f, i) ==
  templates \union {Stored(f, j) : j \in {j \in 1 .. i - 1 : modules[f][j].template}}

(* An instance is its template's body, or a renaming if the template is    *)
(* not known (yet).                                                        *)
Body(f, i) ==
  LET d == modules[f][i]
      known == {t \in TemplatesBefore(f, i) : t.at = d.ref}
  IN IF d.form # "instance" THEN [form |-> d.form, ref |-> d.ref]
     ELSE IF known = {} THEN [form |-> "rename", ref |-> d.ref]
     ELSE LET t == CHOOSE t \in known : TRUE IN [form |-> t.form, ref |-> t.ref]

OidsBefore(f, i) ==
  oids \union
    {<<f, modules[f][j].name>> :
       j \in {j \in 1 .. i - 1 : ~modules[f][j].template /\ Body(f, j).form = "oid"}}

(* compileValue: a value is written in every pass, if its type is known to *)
(* be an OBJECT IDENTIFIER by then; compileType: arrays are written in     *)
(* every pass, other types in the last.                                    *)
Emitted(f, i) ==
  LET d == modules[f][i] IN
  /\ ~d.template
  /\ CASE d.form = "value" -> Lookup(f, d.ref) \in OidsBefore(f, i)
       [] d.form # "value" -> Saving \/ Body(f, i).form = "list"

Output(f, i) ==
  [name |-> <<f, modules[f][i].name>>, form |-> Body(f, i).form, target |-> Lookup(f, Body(f, i).ref)]

(* save overwrites a file of the same name.                                *)
Written(f) ==
  LET new == {Output(f, i) : i \in {i \in DOMAIN modules[f] : Emitted(f, i)}}
  IN {w \in written : \A o \in new : o.name # w.name} \union new

Compile ==
  /\ phase = "done" /\ ~Compiled /\ turn <= Len(result)
  /\ \/ turn < Len(result) /\ turn' = turn + 1 /\ UNCHANGED pass
     \/ turn = Len(result) /\ turn' = 1 /\ pass' = pass + 1
  /\ own' = own \union Defined(File)
  /\ globals' = Globals(File)
  /\ templates' = TemplatesBefore(File, Len(modules[File]) + 1)
  /\ oids' = OidsBefore(File, Len(modules[File]) + 1)
  /\ written' = Written(File)
  /\ UNCHANGED <<vars, modules>>

CompilationInit ==
  /\ Init
  /\ modules = Contents[imports]
  /\ pass = 1 /\ turn = 1
  /\ own = {} /\ globals = [n \in Names |-> None]
  /\ oids = {} /\ templates = {} /\ written = {}

CompilationNext == (Next /\ UNCHANGED compiling) \/ Compile
CompilationSpec == CompilationInit /\ [][CompilationNext]_allVars /\ WF_allVars(CompilationNext)

-----------------------------------------------------------------------------
(* Correctness *)

(* What a definition means is settled by the modules alone.                *)
Declared(q) == CHOOSE d \in Range(modules[q[1]]) : d.name = q[2]
Meaning(d) ==
  IF d.form = "instance" THEN [form |-> Declared(d.ref).form, target |-> Declared(d.ref).ref]
  ELSE [form |-> d.form, target |-> d.ref]

(* A template's own reference is looked up where the instance is: it has   *)
(* to name the same definition there.                                      *)
SameNameHere(f, d) ==
  d.form = "instance" =>
    LET ref == Declared(d.ref).ref IN ref = None \/ ref \in Imported(f) \/ ref[1] = f

(* Values whose type is not named as OBJECT IDENTIFIER itself, or by a     *)
(* template, are skipped.                                                  *)
Generated(d) == ~d.template /\ (d.form = "value" => Meaning(Declared(d.ref)).form = "oid")

(* The files there are for a definition.                                   *)
FilesFor(f, d) == {w \in written : w.name = <<f, d.name>>}
Meant(f, d) == [name |-> <<f, d.name>>, form |-> Meaning(d).form, target |-> Meaning(d).target]

RightlyWritten(f, d) ==
  IF Generated(d) THEN SameNameHere(f, d) => FilesFor(f, d) = {Meant(f, d)} ELSE FilesFor(f, d) = {}

(* After the passes each definition has been written once, with what its   *)
(* references mean in its own module, whatever the order of the files, the *)
(* cycles among their imports, and the same names in other modules.        *)
WritesMeanings ==
  Compiled => \A f \in Files : \A d \in Range(modules[f]) : RightlyWritten(f, d)
=============================================================================
