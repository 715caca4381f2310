-------------------------- MODULE CompilationProofs --------------------------
(***************************************************************************)
(* Three passes suffice, for every set of files, every import graph and    *)
(* all legal modules: after them each definition has been written with     *)
(* its meaning.  The first pass makes all templates known, the second all  *)
(* types that are OBJECT IDENTIFIER, the third writes.                     *)
(***************************************************************************)
EXTENDS Compilation, ImportOrderProofs

Scope(f) == Defined(f) \union Imported(f)

TemplatesOf(f) == {Stored(f, j) : j \in {j \in DOMAIN modules[f] : modules[f][j].template}}
AllTemplates == UNION {TemplatesOf(f) : f \in Files}

IsOid(d) == ~d.template /\ Meaning(d).form = "oid"
OidsOf(f) == {<<f, d.name>> : d \in {d \in Range(modules[f]) : IsOid(d)}}
AllOids == UNION {OidsOf(f) : f \in Files}

(* Whatever the pass, the environment holds nothing that is not declared,  *)
(* and only files for definitions that get one.                            *)
OwnKeys == own \subseteq UNION {Defined(f) : f \in Files}
FilesOfGenerated ==
  \A w \in written : \E f \in Files : \E d \in Range(modules[f]) : Generated(d) /\ w.name = <<f, d.name>>
Sound == OwnKeys /\ templates \subseteq AllTemplates /\ oids \subseteq AllOids /\ FilesOfGenerated

(* What each pass has achieved for the files it has taken.                 *)
DoneIn(f, p) == pass > p \/ (pass = p /\ \E k \in 1 .. turn - 1 : result[k] = f)
Achieved ==
  \A f \in Files :
    /\ DoneIn(f, 1) => TemplatesOf(f) \subseteq templates
    /\ DoneIn(f, 2) => OidsOf(f) \subseteq oids
    /\ DoneIn(f, 3) => \A d \in Range(modules[f]) : RightlyWritten(f, d)

Given == imports \in ImportGraphs /\ modules = Contents[imports]
Schedule == /\ pass \in 1 .. 4 /\ turn \in Nat \ {0}
            /\ Sorting => pass = 1 /\ turn = 1

PInv == IInv /\ Given /\ Schedule /\ Sound /\ Achieved

-----------------------------------------------------------------------------
(* Legal modules *)

LEMMA LegalModule ==
  ASSUME Given, NEW f \in Files
  PROVE  /\ modules[f] \in Seq(Declarations) /\ DOMAIN modules[f] = 1 .. Len(modules[f])
         /\ Len(modules[f]) \in Nat
         /\ \A i, j \in DOMAIN modules[f] : modules[f][i].name = modules[f][j].name => i = j
         /\ \A d \in Range(modules[f]) :
              /\ d \in Declarations
              /\ \E i \in DOMAIN modules[f] : modules[f][i] = d
              /\ d.template => d.form \notin {"instance", "value"}
              /\ d.ref = None => d.form \notin {"instance", "value", "rename"}
         /\ \A i \in DOMAIN modules[f] : modules[f][i] \in Range(modules[f])
  <1>1. Legal(imports, modules)
    BY CompilationAssumption DEF Given
  <1>2. modules[f] \in Seq(Declarations)
    BY <1>1 DEF Legal
  <1>3. /\ \A i, j \in DOMAIN modules[f] : modules[f][i].name = modules[f][j].name => i = j
        /\ \A d \in Range(modules[f]) :
              /\ d.template => d.form \notin {"instance", "value"}
              /\ d.ref = None => d.form \notin {"instance", "value", "rename"}
    BY <1>1 DEF Legal
  <1>4. DOMAIN modules[f] = 1 .. Len(modules[f]) /\ Len(modules[f]) \in Nat
    BY <1>2, LenProperties
  <1>5. \A i \in DOMAIN modules[f] : modules[f][i] \in Declarations
    BY <1>2, <1>4, ElementOfSeq
  <1>6. \A d \in Range(modules[f]) : \E i \in DOMAIN modules[f] : modules[f][i] = d
    BY DEF Range
  <1>7. \A i \in DOMAIN modules[f] : modules[f][i] \in Range(modules[f])
    BY DEF Range
  <1>. QED
    BY <1>2, <1>3, <1>4, <1>5, <1>6, <1>7

(* A name has one declaration in its module.                               *)
LEMMA OneDeclaration ==
  ASSUME Given, NEW f \in Files
  PROVE  /\ \A d, e \in Range(modules[f]) : d.name = e.name => d = e
         /\ \A d \in Range(modules[f]) : Declared(<<f, d.name>>) = d
  <1>1. \A d, e \in Range(modules[f]) : d.name = e.name => d = e
    BY LegalModule
  <1>2. ASSUME NEW d \in Range(modules[f])
        PROVE  Declared(<<f, d.name>>) = d
    <2>1. Declared(<<f, d.name>>) = CHOOSE e \in Range(modules[f]) : e.name = d.name
      BY DEF Declared
    <2>. QED
      BY <1>1, <2>1
  <1>. QED
    BY <1>1, <1>2

(* What a reference names is declared, and it is in scope.                 *)
LEMMA ReferenceDeclared ==
  ASSUME Given, NEW f \in Files, NEW d \in Range(modules[f]), d.ref # None
  PROVE  /\ d.ref \in Qualified /\ d.ref[1] \in Files /\ d.ref[2] \in Names
         /\ d.ref = <<d.ref[1], d.ref[2]>>
         /\ Declared(d.ref) \in Range(modules[d.ref[1]])
         /\ Declared(d.ref).name = d.ref[2]
         /\ Declared(d.ref).template <=> d.form = "instance"
         /\ d.ref \in Scope(f)
  <1>1. d.ref \in Qualified /\ d.ref[1] \in Files /\ d.ref[2] \in Names /\ d.ref = <<d.ref[1], d.ref[2]>>
    BY LegalModule DEF Declarations, Qualified
  <1>2. PICK e \in Range(modules[d.ref[1]]) : e.name = d.ref[2] /\ (e.template <=> d.form = "instance")
    BY CompilationAssumption DEF Given, Legal
  <1>3. Declared(d.ref) = e
    BY <1>1, <1>2, OneDeclaration
  <1>4. d.ref \in Scope(f)
    <2>1. CASE d.ref[1] = f
      <3>1. d.ref = <<f, e.name>> /\ e \in Range(modules[f])
        BY <1>1, <1>2, <2>1
      <3>. QED
        BY <3>1 DEF Scope, Defined
    <2>2. CASE d.ref[1] # f
      <3>1. d.ref \notin {f} \X Names
        BY <1>1, <2>2
      <3>. QED
        BY <3>1 DEF Scope, Imported
    <2>. QED
      BY <2>1, <2>2
  <1>. QED
    BY <1>1, <1>2, <1>3, <1>4

(* A name stands for one definition in a module's scope.                   *)
LEMMA ScopeIsUnambiguous ==
  ASSUME Given, NEW f \in Files
  PROVE  /\ \A q, r \in Scope(f) : q[2] = r[2] => q = r
         /\ \A q \in Scope(f) : q \in Qualified /\ q # None
         /\ \A q \in Imported(f) : q[1] # f
  <1>1. \A q, r \in {<<f, d.name>> : d \in Range(modules[f])} \union ({d.ref : d \in Range(modules[f])} \ {None}) :
           q[2] = r[2] => q = r
    BY CompilationAssumption DEF Given, Legal
  <1>2. Scope(f) \subseteq {<<f, d.name>> : d \in Range(modules[f])} \union ({d.ref : d \in Range(modules[f])} \ {None})
    BY DEF Scope, Defined, Imported
  <1>3. \A q \in Defined(f) : q \in Qualified /\ q # None
    <2>1. SUFFICES ASSUME NEW d \in Range(modules[f])
                   PROVE  <<f, d.name>> \in Qualified /\ <<f, d.name>> # None
      BY DEF Defined
    <2>2. d.name \in Names
      BY LegalModule DEF Declarations
    <2>. QED
      BY <2>2 DEF Qualified, None
  <1>4. \A q \in Imported(f) : q \in Qualified /\ q # None /\ q[1] # f
    BY LegalModule DEF Imported, Declarations, Qualified
  <1>5. \A q, r \in Scope(f) : q[2] = r[2] => q = r
    BY <1>1, <1>2
  <1>. QED
    BY <1>3, <1>4, <1>5 DEF Scope

(* Lookup by the name alone finds what the name means in its module,       *)
(* whatever the other modules left in the environment.                     *)
LEMMA LookupRespectsScope ==
  ASSUME Given, OwnKeys, NEW f \in Files, NEW q \in Scope(f)
  PROVE  Lookup(f, q) = q
  <1>1. q \in Qualified /\ q # None /\ q = <<q[1], q[2]>> /\ q[2] \in Names
    BY ScopeIsUnambiguous DEF Qualified
  <1>2. CASE q \in Defined(f)
    <2>1. q[1] = f
      BY <1>2 DEF Defined
    <2>. QED
      BY <1>1, <1>2, <2>1 DEF Lookup
  <1>3. CASE q \in Imported(f)
    <2>1. q[1] # f
      BY <1>3, ScopeIsUnambiguous
    <2>2. <<f, q[2]>> \notin Defined(f)
      <3>1. SUFFICES ASSUME <<f, q[2]>> \in Defined(f)
                     PROVE  FALSE
        OBVIOUS
      <3>2. <<f, q[2]>> \in Scope(f) /\ <<f, q[2]>>[2] = q[2]
        BY <3>1 DEF Scope
      <3>3. <<f, q[2]>> = q
        BY <3>2, ScopeIsUnambiguous
      <3>. QED
        BY <2>1, <3>3
    <2>3. <<f, q[2]>> \notin own
      BY <2>2 DEF OwnKeys, Defined
    <2>4. Globals(f)[q[2]] = q
      <3> DEFINE here == {r \in Defined(f) \union Registered(f) : r[2] = q[2]}
      <3>1. here = {q}
        BY <1>3, ScopeIsUnambiguous DEF Scope, Registered
      <3>2. Globals(f)[q[2]] = IF here = {} THEN globals[q[2]] ELSE CHOOSE r \in here : TRUE
        BY <1>1 DEF Globals
      <3>. QED
        BY <3>1, <3>2
    <2>. QED
      BY <1>1, <2>2, <2>3, <2>4 DEF Lookup
  <1>. QED
    BY <1>2, <1>3 DEF Scope
-----------------------------------------------------------------------------
(* Templates and their instances *)

LEMMA TemplatesBeforeSound ==
  ASSUME Given, templates \subseteq AllTemplates, NEW f \in Files, NEW i \in 1 .. Len(modules[f]) + 1
  PROVE  TemplatesBefore(f, i) \subseteq AllTemplates
  <1>1. \A j \in 1 .. i - 1 : j \in DOMAIN modules[f]
    BY LegalModule
  <1>. QED
    BY <1>1 DEF TemplatesBefore, AllTemplates, TemplatesOf

LEMMA OneTemplate ==
  ASSUME Given, NEW t \in AllTemplates
  PROVE  t.form = Declared(t.at).form /\ t.ref = Declared(t.at).ref /\ Declared(t.at).template
  <1>1. PICK g \in Files : \E j \in DOMAIN modules[g] : modules[g][j].template /\ t = Stored(g, j)
    BY DEF AllTemplates, TemplatesOf
  <1>2. PICK j \in DOMAIN modules[g] : modules[g][j].template /\ t = Stored(g, j)
    BY <1>1
  <1>3. Declared(<<g, modules[g][j].name>>) = modules[g][j]
    BY LegalModule, OneDeclaration
  <1>. QED
    BY <1>2, <1>3 DEF Stored

(* The body of a definition is what it means, or a renaming if it is an    *)
(* instance of a template that is not known.                               *)
LEMMA BodyMeans ==
  ASSUME Given, templates \subseteq AllTemplates, NEW f \in Files, NEW i \in DOMAIN modules[f]
  PROVE  LET d == modules[f][i] IN
         \/ Body(f, i) = [form |-> Meaning(d).form, ref |-> Meaning(d).target]
         \/ /\ d.form = "instance" /\ Body(f, i).form = "rename"
            /\ ~(TemplatesOf(d.ref[1]) \subseteq templates)
  <1> DEFINE d == modules[f][i]
             known == {t \in TemplatesBefore(f, i) : t.at = d.ref}
  <1>1. d \in Range(modules[f]) /\ i \in 1 .. Len(modules[f]) + 1
    BY LegalModule
  <1>2. CASE d.form # "instance"
    BY <1>2 DEF Body, Meaning
  <1>3. CASE d.form = "instance" /\ known = {}
    <2>1. d.ref # None
      BY <1>1, <1>3, LegalModule
    <2>2. /\ Declared(d.ref) \in Range(modules[d.ref[1]]) /\ Declared(d.ref).name = d.ref[2]
          /\ Declared(d.ref).template /\ d.ref[1] \in Files /\ d.ref = <<d.ref[1], d.ref[2]>>
      BY <1>1, <1>3, <2>1, ReferenceDeclared
    <2>3. PICK j \in DOMAIN modules[d.ref[1]] : modules[d.ref[1]][j] = Declared(d.ref)
      BY <2>2, LegalModule
    <2>4. Stored(d.ref[1], j) \in TemplatesOf(d.ref[1])
      BY <2>2, <2>3 DEF TemplatesOf
    <2>5. Stored(d.ref[1], j).at = d.ref
      BY <2>2, <2>3 DEF Stored
    <2>6. Stored(d.ref[1], j) \notin templates
      BY <1>3, <2>5 DEF TemplatesBefore
    <2>7. Body(f, i).form = "rename"
      BY <1>3 DEF Body
    <2>. QED
      BY <1>3, <2>4, <2>6, <2>7
  <1>4. CASE d.form = "instance" /\ known # {}
    <2> DEFINE t == CHOOSE t \in known : TRUE
    <2>1. t \in known
      BY <1>4
    <2>2. t \in AllTemplates /\ t.at = d.ref
      BY <1>1, <2>1, TemplatesBeforeSound
    <2>3. t.form = Declared(d.ref).form /\ t.ref = Declared(d.ref).ref
      BY <2>2, OneTemplate
    <2>4. Body(f, i) = [form |-> t.form, ref |-> t.ref]
      BY <1>4 DEF Body
    <2>. QED
      BY <1>4, <2>3, <2>4 DEF Meaning
  <1>. QED
    BY <1>2, <1>3, <1>4

-----------------------------------------------------------------------------
(* Types that are OBJECT IDENTIFIER *)

LEMMA OidOf ==
  ASSUME Given, NEW f \in Files, NEW d \in Range(modules[f])
  PROVE  <<f, d.name>> \in AllOids <=> IsOid(d)
  <1>1. ASSUME <<f, d.name>> \in AllOids
        PROVE  IsOid(d)
    <2>1. PICK g \in Files : <<f, d.name>> \in OidsOf(g)
      BY <1>1 DEF AllOids
    <2>2. PICK e \in Range(modules[g]) : <<f, d.name>> = <<g, e.name>> /\ IsOid(e)
      BY <2>1 DEF OidsOf
    <2>. QED
      BY <2>2, OneDeclaration
  <1>2. IsOid(d) => <<f, d.name>> \in AllOids
    BY DEF AllOids, OidsOf
  <1>. QED
    BY <1>1, <1>2

LEMMA OidsBeforeSound ==
  ASSUME Given, templates \subseteq AllTemplates, oids \subseteq AllOids,
         NEW f \in Files, NEW i \in 1 .. Len(modules[f]) + 1
  PROVE  OidsBefore(f, i) \subseteq AllOids
  <1>1. SUFFICES ASSUME NEW j \in 1 .. i - 1, ~modules[f][j].template, Body(f, j).form = "oid"
                 PROVE  <<f, modules[f][j].name>> \in AllOids
    BY DEF OidsBefore
  <1>2. j \in DOMAIN modules[f] /\ modules[f][j] \in Range(modules[f])
    BY LegalModule
  <1>3. Meaning(modules[f][j]).form = "oid"
    BY <1>1, <1>2, BodyMeans
  <1>. QED
    BY <1>1, <1>2, <1>3, OidOf DEF IsOid

LEMMA OidsComplete ==
  ASSUME Given, templates = AllTemplates, NEW f \in Files
  PROVE  OidsOf(f) \subseteq OidsBefore(f, Len(modules[f]) + 1)
  <1>1. SUFFICES ASSUME NEW d \in Range(modules[f]), IsOid(d)
                 PROVE  <<f, d.name>> \in OidsBefore(f, Len(modules[f]) + 1)
    BY DEF OidsOf
  <1>2. PICK j \in DOMAIN modules[f] : modules[f][j] = d
    BY LegalModule
  <1>3. j \in 1 .. (Len(modules[f]) + 1) - 1
    BY <1>2, LegalModule
  <1>4. Body(f, j).form = "oid"
    <2>1. CASE d.form = "instance"
      <3>1. d.ref # None
        BY <2>1, LegalModule
      <3>2. d.ref[1] \in Files
        BY <3>1, ReferenceDeclared
      <3>3. TemplatesOf(d.ref[1]) \subseteq templates
        BY <3>2 DEF AllTemplates
      <3>. QED
        BY <1>1, <1>2, <3>3, BodyMeans DEF IsOid
    <2>2. CASE d.form # "instance"
      BY <1>1, <1>2, <2>2, BodyMeans DEF IsOid
    <2>. QED
      BY <2>1, <2>2
  <1>. QED
    BY <1>1, <1>2, <1>3, <1>4 DEF OidsBefore, IsOid
-----------------------------------------------------------------------------
(* What one call writes *)

(* Only definitions that get a file are given one, in any pass.            *)
LEMMA EmittedGenerated ==
  ASSUME Given, Sound, NEW f \in Files, NEW i \in DOMAIN modules[f], Emitted(f, i)
  PROVE  Generated(modules[f][i])
  <1> DEFINE d == modules[f][i]
  <1>1. d \in Range(modules[f]) /\ i \in 1 .. Len(modules[f]) + 1
    BY LegalModule
  <1>2. ~d.template
    BY DEF Emitted
  <1>3. ASSUME d.form = "value"
        PROVE  Meaning(Declared(d.ref)).form = "oid"
    <2>1. d.ref # None
      BY <1>1, <1>3, LegalModule
    <2>2. /\ d.ref[1] \in Files /\ Declared(d.ref) \in Range(modules[d.ref[1]])
          /\ d.ref = <<d.ref[1], Declared(d.ref).name>> /\ d.ref \in Scope(f)
      BY <1>1, <2>1, ReferenceDeclared
    <2>3. Lookup(f, d.ref) = d.ref
      BY <2>2, LookupRespectsScope DEF Sound
    <2>4. d.ref \in OidsBefore(f, i)
      BY <1>3, <2>3 DEF Emitted
    <2>5. d.ref \in AllOids
      BY <1>1, <2>4, OidsBeforeSound DEF Sound
    <2>. QED
      BY <2>2, <2>5, OidOf DEF IsOid
  <1>. QED
    BY <1>2, <1>3 DEF Generated

(* In the last pass they all are, with their meanings.                     *)
Known == templates = AllTemplates /\ oids = AllOids

LEMMA GeneratedEmitted ==
  ASSUME Given, Sound, Known, Saving, NEW f \in Files, NEW i \in DOMAIN modules[f], Generated(modules[f][i])
  PROVE  Emitted(f, i)
  <1> DEFINE d == modules[f][i]
  <1>1. d \in Range(modules[f])
    BY LegalModule
  <1>2. ASSUME d.form = "value"
        PROVE  Lookup(f, d.ref) \in OidsBefore(f, i)
    <2>1. d.ref # None
      BY <1>1, <1>2, LegalModule
    <2>2. /\ d.ref[1] \in Files /\ Declared(d.ref) \in Range(modules[d.ref[1]])
          /\ d.ref = <<d.ref[1], Declared(d.ref).name>> /\ d.ref \in Scope(f)
          /\ ~Declared(d.ref).template
      BY <1>1, <1>2, <2>1, ReferenceDeclared, LegalModule
    <2>3. Lookup(f, d.ref) = d.ref
      BY <2>2, LookupRespectsScope DEF Sound
    <2>4. IsOid(Declared(d.ref))
      BY <1>2, <2>2 DEF Generated, IsOid
    <2>5. d.ref \in AllOids
      BY <2>2, <2>4, OidOf
    <2>. QED
      BY <2>3, <2>5 DEF Known, OidsBefore
  <1>. QED
    BY <1>2 DEF Emitted, Generated

LEMMA OutputMeant ==
  ASSUME Given, Sound, Known, NEW f \in Files, NEW i \in DOMAIN modules[f],
         SameNameHere(f, modules[f][i])
  PROVE  Output(f, i) = Meant(f, modules[f][i])
  <1> DEFINE d == modules[f][i]
  <1>1. d \in Range(modules[f])
    BY LegalModule
  <1>2. Body(f, i) = [form |-> Meaning(d).form, ref |-> Meaning(d).target]
    <2>1. CASE d.form = "instance"
      <3>1. d.ref # None
        BY <1>1, <2>1, LegalModule
      <3>2. d.ref[1] \in Files
        BY <1>1, <3>1, ReferenceDeclared
      <3>3. TemplatesOf(d.ref[1]) \subseteq templates
        BY <3>2 DEF Known, AllTemplates
      <3>. QED
        BY <3>3, BodyMeans DEF Sound
    <2>2. CASE d.form # "instance"
      BY <2>2, BodyMeans DEF Sound
    <2>. QED
      BY <2>1, <2>2
  <1>3. Meaning(d).target = None \/ Meaning(d).target \in Scope(f)
    <2>1. CASE d.form = "instance"
      <3> DEFINE e == Declared(d.ref)
      <3>1. d.ref # None
        BY <1>1, <2>1, LegalModule
      <3>2. d.ref[1] \in Files /\ e \in Range(modules[d.ref[1]])
        BY <1>1, <3>1, ReferenceDeclared
      <3>3. e.ref = None \/ e.ref \in Imported(f) \/ e.ref[1] = f
        BY <2>1 DEF SameNameHere
      <3>4. ASSUME e.ref # None, e.ref[1] = f
            PROVE  e.ref \in Scope(f)
        <4>1. Declared(e.ref) \in Range(modules[f]) /\ e.ref = <<f, Declared(e.ref).name>>
          BY <3>2, <3>4, ReferenceDeclared
        <4>. QED
          BY <4>1 DEF Scope, Defined
      <3>5. Meaning(d).target = e.ref
        BY <2>1 DEF Meaning
      <3>. QED
        BY <3>3, <3>4, <3>5 DEF Scope
    <2>2. CASE d.form # "instance"
      <3>1. Meaning(d).target = d.ref
        BY <2>2 DEF Meaning
      <3>. QED
        BY <1>1, <3>1, ReferenceDeclared
    <2>. QED
      BY <2>1, <2>2
  <1>4. Lookup(f, Meaning(d).target) = Meaning(d).target
    <2>1. CASE Meaning(d).target = None
      BY <2>1 DEF Lookup
    <2>2. CASE Meaning(d).target \in Scope(f)
      BY <2>2, LookupRespectsScope DEF Sound
    <2>. QED
      BY <1>3, <2>1, <2>2
  <1>. QED
    BY <1>2, <1>4 DEF Output, Meant

(* Nothing but the state of the environment tells what is right.           *)
LEMMA MeaningsStay ==
  ASSUME modules' = modules
  PROVE  /\ \A d : Generated(d)' <=> Generated(d)
         /\ \A f, d : SameNameHere(f, d)' <=> SameNameHere(f, d)
         /\ \A f, d : Meant(f, d)' = Meant(f, d)
         /\ \A d : IsOid(d)' <=> IsOid(d)
  <1>1. \A q : Declared(q)' = Declared(q)
    BY Zenon DEF Declared
  <1>2. \A d : Meaning(d)' = Meaning(d)
    BY Zenon DEF Meaning, Declared
  <1>3. \A d : Generated(d)' <=> Generated(d)
    BY <1>1, <1>2, Zenon DEF Generated
  <1>4. \A f, d : SameNameHere(f, d)' <=> SameNameHere(f, d)
    BY Zenon DEF SameNameHere, Imported, Declared
  <1>5. \A f, d : Meant(f, d)' = Meant(f, d)
    BY <1>2 DEF Meant
  <1>6. \A d : IsOid(d)' <=> IsOid(d)
    BY <1>2 DEF IsOid
  <1>. QED
    BY <1>3, <1>4, <1>5, <1>6

LEMMA WrittenNames ==
  ASSUME Given, Sound, NEW f \in Files, NEW w \in Written(f)
  PROVE  \/ w \in written /\ \A i \in DOMAIN modules[f] : Emitted(f, i) => w.name # <<f, modules[f][i].name>>
         \/ \E i \in DOMAIN modules[f] : Emitted(f, i) /\ w = Output(f, i) /\ w.name = <<f, modules[f][i].name>>
  <1>1. \A i : Output(f, i).name = <<f, modules[f][i].name>>
    BY DEF Output
  <1>. QED
    BY <1>1 DEF Written

LEMMA FilesOfGeneratedStep ==
  ASSUME Given, Sound, NEW f \in Files, modules' = modules, written' = Written(f)
  PROVE  FilesOfGenerated'
  <1>1. SUFFICES ASSUME NEW w \in Written(f)
                 PROVE  \E g \in Files : \E d \in Range(modules[g]) : Generated(d) /\ w.name = <<g, d.name>>
    BY MeaningsStay DEF FilesOfGenerated
  <1>2. CASE w \in written
    BY <1>2 DEF Sound, FilesOfGenerated
  <1>3. ASSUME NEW i \in DOMAIN modules[f], Emitted(f, i), w.name = <<f, modules[f][i].name>>
        PROVE  \E d \in Range(modules[f]) : Generated(d) /\ w.name = <<f, d.name>>
    BY <1>3, EmittedGenerated, LegalModule
  <1>. QED
    BY <1>2, <1>3, WrittenNames

LEMMA RightInLastPass ==
  ASSUME Given, Sound, Known, Saving, NEW f \in Files, NEW d \in Range(modules[f]),
         modules' = modules, written' = Written(f)
  PROVE  RightlyWritten(f, d)'
  <1>1. PICK i \in DOMAIN modules[f] : modules[f][i] = d
    BY LegalModule
  <1>2. \A k \in DOMAIN modules[f] : modules[f][k].name = d.name => k = i
    BY <1>1, LegalModule
  <1>3. CASE Generated(d) /\ SameNameHere(f, d)
    <2>1. Emitted(f, i) /\ Output(f, i) = Meant(f, d)
      BY <1>1, <1>3, GeneratedEmitted, OutputMeant
    <2>2. Output(f, i) \in Written(f) /\ Output(f, i).name = <<f, d.name>>
      BY <1>1, <2>1 DEF Written, Output
    <2>3. \A w \in Written(f) : w.name = <<f, d.name>> => w = Output(f, i)
      BY <1>1, <1>2, <2>1, WrittenNames
    <2>4. FilesFor(f, d)' = {Meant(f, d)}
      BY <2>1, <2>2, <2>3 DEF FilesFor
    <2>. QED
      BY <1>3, <2>4, MeaningsStay DEF RightlyWritten
  <1>4. CASE ~Generated(d)
    <2>1. ASSUME NEW w \in Written(f), w.name = <<f, d.name>>
          PROVE  FALSE
      <3>1. ~Emitted(f, i)
        BY <1>1, <1>4, EmittedGenerated
      <3>2. w \in written
        BY <1>1, <1>2, <2>1, <3>1, WrittenNames
      <3>3. PICK g \in Files : \E e \in Range(modules[g]) : Generated(e) /\ w.name = <<g, e.name>>
        BY <3>2 DEF Sound, FilesOfGenerated
      <3>. QED
        BY <1>4, <2>1, <3>3, OneDeclaration
    <2>2. FilesFor(f, d)' = {}
      BY <2>1 DEF FilesFor
    <2>. QED
      BY <1>4, <2>2, MeaningsStay DEF RightlyWritten
  <1>5. CASE Generated(d) /\ ~SameNameHere(f, d)
    BY <1>5, MeaningsStay DEF RightlyWritten
  <1>. QED
    BY <1>3, <1>4, <1>5

(* Other modules' files are left alone.                                    *)
LEMMA RightElsewhere ==
  ASSUME Given, Sound, NEW f \in Files, NEW g \in Files \ {f}, NEW d \in Range(modules[g]),
         modules' = modules, written' = Written(f), RightlyWritten(g, d)
  PROVE  RightlyWritten(g, d)'
  <1>1. FilesFor(g, d)' = FilesFor(g, d)
    <2>1. \A w \in Written(f) : w.name = <<g, d.name>> => w \in written
      BY WrittenNames
    <2>2. \A w \in written : w.name = <<g, d.name>> => w \in Written(f)
      BY DEF Written, Output
    <2>. QED
      BY <2>1, <2>2 DEF FilesFor
  <1>. QED
    BY <1>1, MeaningsStay DEF RightlyWritten
-----------------------------------------------------------------------------
(* The passes *)

LEMMA DeclaredStay ==
  ASSUME modules' = modules
  PROVE  /\ \A f : Defined(f)' = Defined(f)
         /\ \A f : TemplatesOf(f)' = TemplatesOf(f)
         /\ \A f : OidsOf(f)' = OidsOf(f)
         /\ AllTemplates' = AllTemplates /\ AllOids' = AllOids
         /\ OwnKeys' <=> own' \subseteq UNION {Defined(f) : f \in Files}
  <1>1. \A f : Defined(f)' = Defined(f)
    BY Zenon DEF Defined
  <1>2. \A f : TemplatesOf(f)' = TemplatesOf(f)
    BY Zenon DEF TemplatesOf, Stored
  <1>3. \A f : OidsOf(f)' = OidsOf(f)
    BY Zenon DEF OidsOf, IsOid, Meaning, Declared
  <1>4. AllTemplates' = AllTemplates
    BY <1>2 DEF AllTemplates
  <1>5. AllOids' = AllOids
    BY <1>3 DEF AllOids
  <1>6. OwnKeys' <=> own' \subseteq UNION {Defined(f) : f \in Files}
    BY <1>1 DEF OwnKeys
  <1>. QED
    BY <1>1, <1>2, <1>3, <1>4, <1>5, <1>6

LEMMA IInvStays == IInv /\ UNCHANGED vars => IInv'
  BY DEF IInv, vars, TypeOK, Distinct, Bookkeeping, ImportersTaken, EachFileOnce, Sorting, Sorted, Importers

(* A call is a step of the pass for the one file that it takes.            *)
LEMMA FileTaken ==
  ASSUME IInv, Schedule, Compile
  PROVE  /\ File \in Files
         /\ \A f \in Files, p \in 1 .. 3 : DoneIn(f, p)' => DoneIn(f, p) \/ (f = File /\ p = pass)
  <1>1. result \in Seq(Files) /\ Len(result) \in Nat /\ Range(result) = Files
    BY LenProperties DEF IInv, TypeOK, EachFileOnce, Sorted, Compile
  <1>2. turn \in 1 .. Len(result) /\ result' = result
    BY <1>1 DEF Schedule, Compile, vars
  <1>3. File \in Files
    BY <1>1, <1>2, ElementOfSeq DEF File
  <1>4. ASSUME NEW f \in Files, NEW p \in 1 .. 3, DoneIn(f, p)'
        PROVE  DoneIn(f, p) \/ (f = File /\ p = pass)
    <2>1. CASE turn < Len(result) /\ turn' = turn + 1 /\ UNCHANGED pass
      <3>1. pass > p \/ (pass = p /\ \E k \in 1 .. turn : result[k] = f)
        BY <1>2, <1>4, <2>1 DEF DoneIn, Schedule
      <3>. QED
        BY <1>2, <3>1 DEF DoneIn, File, Schedule
    <2>2. CASE turn = Len(result) /\ turn' = 1 /\ pass' = pass + 1
      <3>1. pass >= p
        BY <1>4, <2>2 DEF DoneIn, Schedule
      <3>2. PICK k \in 1 .. Len(result) : result[k] = f
        BY <1>1, LenProperties DEF Range
      <3>. QED
        BY <1>2, <2>2, <3>1, <3>2 DEF DoneIn, File, Schedule
    <2>. QED
      BY <2>1, <2>2 DEF Compile
  <1>. QED
    BY <1>3, <1>4

(* What the earlier passes leave to the later ones.                        *)
LEMMA EarlierPasses ==
  ASSUME Schedule, Sound, Achieved
  PROVE  /\ pass > 1 => templates = AllTemplates
         /\ pass > 2 => Known
  <1>1. pass > 1 => templates = AllTemplates
    BY DEF Achieved, DoneIn, AllTemplates, Sound
  <1>2. pass > 2 => oids = AllOids
    BY DEF Achieved, DoneIn, AllOids, Sound
  <1>. QED
    BY <1>1, <1>2 DEF Schedule, Known

LEMMA CompileSound ==
  ASSUME PInv, Compile
  PROVE  Sound'
  <1>1. Given /\ Sound /\ File \in Files /\ modules' = modules
    BY FileTaken DEF PInv, Compile
  <1>2. Len(modules[File]) + 1 \in 1 .. Len(modules[File]) + 1
    BY <1>1, LegalModule
  <1>3. OwnKeys'
    <2>1. own \union Defined(File) \subseteq UNION {Defined(f) : f \in Files}
      BY <1>1 DEF Sound, OwnKeys
    <2>. QED
      BY <1>1, <2>1, DeclaredStay DEF Compile
  <1>4. templates' \subseteq AllTemplates'
    <2>1. TemplatesBefore(File, Len(modules[File]) + 1) \subseteq AllTemplates
      BY <1>1, <1>2, TemplatesBeforeSound DEF Sound
    <2>. QED
      BY <1>1, <2>1, DeclaredStay DEF Compile
  <1>5. oids' \subseteq AllOids'
    <2>1. OidsBefore(File, Len(modules[File]) + 1) \subseteq AllOids
      BY <1>1, <1>2, OidsBeforeSound DEF Sound
    <2>. QED
      BY <1>1, <2>1, DeclaredStay DEF Compile
  <1>6. FilesOfGenerated'
    BY <1>1, FilesOfGeneratedStep DEF Compile
  <1>. QED
    BY <1>3, <1>4, <1>5, <1>6 DEF Sound

LEMMA CompileAchieves ==
  ASSUME PInv, Compile
  PROVE  Achieved'
  <1>1. Given /\ Sound /\ Schedule /\ Achieved /\ File \in Files /\ modules' = modules /\ pass \in 1 .. 3
    BY FileTaken DEF PInv, Compile, Schedule, Compiled, Passes
  <1>2. /\ templates' = TemplatesBefore(File, Len(modules[File]) + 1)
        /\ oids' = OidsBefore(File, Len(modules[File]) + 1)
        /\ written' = Written(File)
    BY DEF Compile
  <1>3. templates \subseteq templates' /\ oids \subseteq oids'
    BY <1>2 DEF TemplatesBefore, OidsBefore
  <1>4. ASSUME NEW f \in Files, DoneIn(f, 1)'
        PROVE  TemplatesOf(f)' \subseteq templates'
    <2>1. CASE DoneIn(f, 1)
      BY <1>1, <1>3, <2>1, DeclaredStay DEF Achieved
    <2>2. CASE f = File
      <3>1. \A j \in DOMAIN modules[f] : j \in 1 .. (Len(modules[f]) + 1) - 1
        BY <1>1, LegalModule
      <3>2. TemplatesOf(f) \subseteq TemplatesBefore(f, Len(modules[f]) + 1)
        BY <3>1 DEF TemplatesOf, TemplatesBefore
      <3>. QED
        BY <1>1, <1>2, <2>2, <3>2, DeclaredStay
    <2>. QED
      BY <1>4, <2>1, <2>2, FileTaken DEF PInv
  <1>5. ASSUME NEW f \in Files, DoneIn(f, 2)'
        PROVE  OidsOf(f)' \subseteq oids'
    <2>1. CASE DoneIn(f, 2)
      BY <1>1, <1>3, <2>1, DeclaredStay DEF Achieved
    <2>2. CASE f = File /\ pass = 2
      <3>1. templates = AllTemplates
        BY <1>1, <2>2, EarlierPasses
      <3>2. OidsOf(f) \subseteq OidsBefore(f, Len(modules[f]) + 1)
        BY <1>1, <3>1, OidsComplete
      <3>. QED
        BY <1>1, <1>2, <2>2, <3>2, DeclaredStay
    <2>. QED
      BY <1>5, <2>1, <2>2, FileTaken DEF PInv
  <1>6. ASSUME NEW f \in Files, DoneIn(f, 3)', NEW d \in Range(modules[f])
        PROVE  RightlyWritten(f, d)'
    <2>1. CASE f = File /\ pass = 3
      <3>1. Known
        BY <1>1, <2>1, EarlierPasses
      <3>2. Saving
        BY <2>1 DEF Saving, Passes
      <3>. QED
        BY <1>1, <1>2, <1>6, <2>1, <3>1, <3>2, RightInLastPass
    <2>2. CASE DoneIn(f, 3) /\ f # File
      <3>1. RightlyWritten(f, d)
        BY <1>1, <1>6, <2>2 DEF Achieved
      <3>. QED
        BY <1>1, <1>2, <1>6, <2>2, <3>1, RightElsewhere
    <2>3. CASE DoneIn(f, 3) /\ f = File
      <3>1. pass = 3
        BY <1>1, <2>3 DEF DoneIn
      <3>. QED
        BY <2>1, <2>3, <3>1
    <2>. QED
      BY <1>6, <2>1, <2>2, <2>3, FileTaken DEF PInv
  <1>. QED
    BY <1>1, <1>4, <1>5, <1>6 DEF Achieved

LEMMA CompileInv == PInv /\ Compile => PInv'
  <1>1. SUFFICES ASSUME PInv, Compile
                 PROVE  PInv'
    OBVIOUS
  <1>2. IInv'
    BY <1>1, IInvStays DEF PInv, Compile
  <1>3. Given'
    BY <1>1 DEF PInv, Given, Compile, vars
  <1>4. Schedule'
    BY <1>1 DEF PInv, Schedule, Compile, vars, Sorting, Compiled, Passes
  <1>. QED
    BY <1>1, <1>2, <1>3, <1>4, CompileSound, CompileAchieves DEF PInv

(* The compiler is not called before the sort has ended, and a file that   *)
(* no pass has taken owes nothing.                                         *)
LEMMA SortInv == PInv /\ Next /\ UNCHANGED compiling => PInv'
  <1>1. SUFFICES ASSUME PInv, Next, UNCHANGED compiling
                 PROVE  PInv'
    OBVIOUS
  <1>2. IInv'
    BY <1>1, TakeInv, FinishInv DEF PInv, Next
  <1>3. modules' = modules /\ pass' = pass /\ turn' = turn /\ own' = own /\ templates' = templates
        /\ oids' = oids /\ written' = written
    BY <1>1 DEF compiling
  <1>4. Sorting /\ imports' = imports
    BY <1>1 DEF Next, Take, Finish, Sorting
  <1>5. Given'
    BY <1>1, <1>3, <1>4 DEF PInv, Given
  <1>6. pass' = 1 /\ turn' = 1
    BY <1>1, <1>3, <1>4 DEF PInv, Schedule
  <1>7. Schedule'
    BY <1>6 DEF Schedule
  <1>8. Sound'
    BY <1>1, <1>3, DeclaredStay, MeaningsStay DEF PInv, Sound, OwnKeys, FilesOfGenerated
  <1>9. Achieved'
    <2>1. \A f \in Files, p \in 1 .. 3 : ~DoneIn(f, p)'
      BY <1>6 DEF DoneIn
    <2>. QED
      BY <2>1 DEF Achieved
  <1>. QED
    BY <1>2, <1>5, <1>7, <1>8, <1>9 DEF PInv

LEMMA StutterInv == PInv /\ UNCHANGED allVars => PInv'
  <1>1. SUFFICES ASSUME PInv, UNCHANGED allVars
                 PROVE  PInv'
    OBVIOUS
  <1>2. UNCHANGED vars /\ modules' = modules /\ pass' = pass /\ turn' = turn /\ own' = own
        /\ templates' = templates /\ oids' = oids /\ written' = written
    BY <1>1 DEF allVars, compiling
  <1>3. IInv'
    BY <1>1, <1>2, IInvStays DEF PInv
  <1>4. imports' = imports /\ result' = result /\ phase' = phase
    BY <1>2 DEF vars
  <1>5. Given' /\ Schedule'
    BY <1>1, <1>2, <1>4 DEF PInv, Given, Schedule, Sorting
  <1>6. Sound'
    BY <1>1, <1>2, DeclaredStay, MeaningsStay DEF PInv, Sound, OwnKeys, FilesOfGenerated
  <1>7. Achieved'
    <2>1. \A f \in Files, p \in 1 .. 3 : DoneIn(f, p)' <=> DoneIn(f, p)
      BY <1>2, <1>4 DEF DoneIn
    <2>2. \A f, d : RightlyWritten(f, d)' <=> RightlyWritten(f, d)
      <3>1. \A f, d : FilesFor(f, d)' = FilesFor(f, d)
        BY <1>2 DEF FilesFor
      <3>. QED
        BY <1>2, <3>1, MeaningsStay DEF RightlyWritten
    <2>. QED
      BY <1>1, <1>2, <2>1, <2>2, DeclaredStay DEF PInv, Achieved
  <1>. QED
    BY <1>3, <1>5, <1>6, <1>7 DEF PInv

LEMMA CompilationInitInv == CompilationInit => PInv
  <1>1. SUFFICES ASSUME CompilationInit
                 PROVE  PInv
    OBVIOUS
  <1>2. IInv
    BY <1>1, InitInv DEF CompilationInit
  <1>3. Given
    BY <1>1 DEF CompilationInit, Init, Given
  <1>4. Schedule
    BY <1>1 DEF CompilationInit, Schedule
  <1>5. Sound
    BY <1>1 DEF CompilationInit, Sound, OwnKeys, FilesOfGenerated
  <1>6. Achieved
    <2>1. \A f \in Files, p \in 1 .. 3 : ~DoneIn(f, p)
      BY <1>1 DEF CompilationInit, DoneIn
    <2>. QED
      BY <2>1 DEF Achieved
  <1>. QED
    BY <1>2, <1>3, <1>4, <1>5, <1>6 DEF PInv

(* After the driver's three passes of compile/2 over all files every       *)
(* definition of every module has been written once, with what its         *)
(* references mean in its own module, whatever the order of the files and  *)
(* the cycles among their imports.                                         *)
THEOREM ThreePassesSuffice == CompilationSpec => []WritesMeanings
  <1>1. PInv /\ [CompilationNext]_allVars => PInv'
    BY SortInv, CompileInv, StutterInv DEF CompilationNext
  <1>2. PInv => WritesMeanings
    <2>1. SUFFICES ASSUME PInv, Compiled, NEW f \in Files, NEW d \in Range(modules[f])
                   PROVE  RightlyWritten(f, d)
      BY DEF WritesMeanings
    <2>2. DoneIn(f, 3)
      BY <2>1 DEF PInv, Schedule, DoneIn, Compiled, Passes
    <2>. QED
      BY <2>1, <2>2 DEF PInv, Achieved
  <1>. QED
    BY CompilationInitInv, <1>1, <1>2, PTL DEF CompilationSpec

(* The sort is done once, before the passes, and they leave its order and  *)
(* its warning alone: with the compiler too every file is in the order     *)
(* once, importers first unless a cycle was reported, and cycles are       *)
(* reported exactly if there are any.                                      *)
THEOREM OrderStays == CompilationSpec => [](EachFileOnce /\ ImportersFirst /\ CyclesReported)
  <1>1. CompilationInit => CInv
    BY CyclesInit DEF CompilationInit
  <1>2. CInv /\ [CompilationNext]_allVars => CInv'
    <2>1. [CompilationNext]_allVars => [Next]_vars
      BY DEF CompilationNext, Compile, allVars
    <2>. QED
      BY <2>1, CyclesStep
  <1>3. CInv => EachFileOnce /\ ImportersFirst /\ CyclesReported
    <2>1. CInv => IInv /\ CyclesReported
      BY DEF CInv
    <2>2. IInv => EachFileOnce
      BY DEF IInv
    <2>. QED
      BY <2>1, <2>2, InvariantOrders
  <1>. QED
    BY <1>1, <1>2, <1>3, PTL DEF CompilationSpec
=============================================================================
