----------------------------- MODULE ImportOrder -----------------------------
(***************************************************************************)
(* DependencyAnalyzer.topological_sort of the driver scripts (basic.ex,    *)
(* copied in x-series.ex and 3gpp.ex): the order in which the three passes *)
(* of the compiler take the files.  One step per file taken from the queue *)
(* (do_kahn_sort).  The order of the imports within a file and of the      *)
(* files in their directory is abstracted to any order.                    *)
(***************************************************************************)
EXTENDS Integers, Sequences, FiniteSets, SequencesExt

CONSTANTS
  Files,
  ImportGraphs   \* which files each file's module imports from

ASSUME ImportOrderAssumption ==
  /\ IsFiniteSet(Files)
  /\ ImportGraphs \subseteq [Files -> SUBSET Files]

VARIABLES
  imports,     \* graph: file -> files it imports from
  degree,      \* in_degree
  queue,
  result,      \* in the order returned, which the code builds reversed
  remaining,
  phase,       \* "sorting", then "done"
  warned       \* "Warning: Cycle detected in module dependencies"

vars == <<imports, degree, queue, result, remaining, phase, warned>>

Importers(f) == {g \in Files : f \in imports[g]}

Init ==
  /\ imports \in ImportGraphs
  /\ degree = [f \in Files |-> Cardinality(Importers(f))]
  /\ queue \in SetToSeqs({f \in Files : degree[f] = 0})
  /\ result = <<>>
  /\ remaining = Files
  /\ phase = "sorting"
  /\ warned = FALSE

ReadyAtOne(f) == degree[f] - 1 <= 1   \* mutant: before the last importer
Ready(f) == degree[f] - 1 = 0

KeptRemaining(f) == remaining   \* mutant
Removed(f) == remaining \ {f}

(* The files that the taken one imports from lose an importer, and those   *)
(* without one left join the queue.                                        *)
Take ==
  LET file == Head(queue) IN
  /\ phase = "sorting" /\ queue # <<>>
  /\ result' = Append(result, file)
  /\ remaining' = Removed(file)
  /\ degree' = [f \in Files |-> degree[f] - (IF f \in imports[file] THEN 1 ELSE 0)]
  /\ \E added \in SetToSeqs({f \in imports[file] : Ready(f)}) : queue' = Tail(queue) \o added
  /\ UNCHANGED <<imports, phase, warned>>

DoneSilently == warned' = FALSE   \* mutant
Warn == warned' = (remaining # {})

DrainedOfAll == remaining = {}   \* mutant
Drained == queue = <<>>

(* What is left when the queue is empty is appended, in any order.         *)
Finish ==
  /\ phase = "sorting" /\ Drained
  /\ \E rest \in SetToSeqs(remaining) : result' = result \o rest
  /\ Warn
  /\ phase' = "done"
  /\ UNCHANGED <<imports, degree, queue, remaining>>

Next == Take \/ Finish

Spec == Init /\ [][Next]_vars /\ WF_vars(Next)
-----------------------------------------------------------------------------
(* Correctness *)

(* Every variable has its type.                                            *)
TypeOK ==
  /\ imports \in [Files -> SUBSET Files]
  /\ degree \in [Files -> Int]
  /\ queue \in Seq(Files) /\ result \in Seq(Files)
  /\ remaining \in SUBSET Files
  /\ phase \in {"sorting", "done"}
  /\ warned \in BOOLEAN

Sorted == phase = "done"

(* Every file is compiled exactly once in each pass, cycles or not.        *)
EachFileOnce ==
  Sorted => /\ Len(result) = Cardinality(Files)
            /\ Range(result) = Files

(* Imports have no cycle when each set of files has one that imports from  *)
(* none of them.                                                           *)
Acyclic == \A S \in (SUBSET Files) \ {{}} : \E f \in S : imports[f] \intersect S = {}

(* The warning is given exactly for import graphs with a cycle.            *)
CyclesReported == Sorted => (warned <=> ~Acyclic)

Before(f, g) == \A i, j \in DOMAIN result : result[i] = f /\ result[j] = g => i < j

(* The order is a topological one: unless a cycle was reported, a file    *)
(* comes before all the files it imports from.                             *)
ImportersFirst ==
  Sorted /\ ~warned => \A f \in Files : \A g \in imports[f] : Before(f, g)

(* "orders files so dependencies compile first" (basic.ex:21).             *)
DependenciesFirst ==
  Sorted /\ ~warned => \A f \in Files : \A g \in imports[f] : Before(g, f)

(* The sort ends, whatever the cycles.                                     *)
SortEnds == <>Sorted
=============================================================================
