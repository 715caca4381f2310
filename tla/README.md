# A TLA+ verification of erpuno/asn1

`erpuno/asn1` is an ASN.1 compiler written in Elixir (`Compiler/`), a BER/DER
runtime in C99 (`Languages/C99/Parser/`), sample clients and tests in six
languages (`Languages/`), and a collection of ASN.1 specifications
(`Specifications/`). This directory holds TLA+ models of its core logic, the
TLC configurations that check them on small instances, and proofs, checked by
TLAPS, of what holds for every value of the constants. Source paths below are
relative to the repository's root.

## Inventory

| Component | State | Operations | Correct when |
|---|---|---|---|
| Parser, `Parser/src/asn1_parser.c` | caller's node array with `count` and `capacity`; read offset; the C stack, one frame per open constructed node | `asn1_parse`, `asn1_children`, `asn1_next_child`, `asn1_root_node` | succeeds exactly on the encodings within its limits, and the array then *is* the tree: depth, subtree sizes, byte ranges, iterators agree; never reads or writes outside the two buffers; returns |
| Serializer, `Parser/src/asn1_serializer.c`, `asn1_internal.h` | buffer, `length`, `capacity`; markers kept by callers | `init`, `primitive`, `raw`, `constructed_begin`, `constructed_end` | the calls build the tree their callers describe, in DER, whatever `end` shifts; failures only for lack of room |
| Value codecs, `Parser/src/asn1_types.c` | none | parse and serialize of INTEGER, BOOLEAN, OID, BIT STRING, strings | serialize then parse is the identity; parse accepts canonical values only |
| Dependency analyzer, `basic.ex` (copied in `x-series.ex`, `3gpp.ex`) | import graph, in-degrees, queue, result; colours, path, fields found | `topological_sort`, `detect_type_cycles` | every file once, in an order that follows the imports, cycles reported; every recursive type is boxed somewhere, no other is |
| Compiler core, `Compiler/ASN1.ex` | the application environment: aliases from names to target names, per module and global; pass number; names of generated files | `compile/0`, `compile/2`, `setEnv`, `setEnvGlobal`, `lookup`, `save` | forward references and imports resolve; lookup ends; no generated file overwrites another |
| C99 emitter, `Compiler/ASN1/C99Emitter.ex` | headers and sources per module | one callback per ASN.1 construct | the generated encoder and decoder are inverse; headers include what they use in an order that exists |
| Other emitters (Go, Java, Rust, Swift, TypeScript) | as above | as above | as above, over runtimes outside the repository |
| CMP client, `Languages/C99/c99_client.c` | message, buffers, a socket | derive the key, build, protect, send, receive, parse | the MAC covers the bytes sent, and is the standard's; only a complete response is taken for a message |
| Driver scripts, samples, specifications, `dumpasn1.c` | none of their own | | not modelled |

How they interact: the driver orders the files and calls the compiler; the
compiler calls one emitter through callbacks; the emitter's output calls the
value codecs and the serializer, and reads the parser's node array through the
iterators. The runtime is sequential: no threads, no callbacks, no shared
state beyond the structures that callers own. What is hard in it is data that
several steps must keep consistent: sizes and offsets fixed up after the fact,
limits reached half way, errors that leave a structure half written, and
arithmetic at the edges of its types. `PROJECT.json` lists these hazards, each
at its line, with the properties that would catch them.

## Modules

| Module | Models | State and actions |
|---|---|---|
| `NodeIterator` | `asn1_children`, `asn1_next_child` | operators only |
| `BerParser` | `asn1_parse` | `data`, `rules`: the arguments; `capacity`, `nodes`: `asn1_parse_result_t`; `offset`: `buf.offset`; `stack`: the recursion of `parse_node`, one frame per node whose children are being parsed; `header`: the locals of `parse_identifier`, `parse_length`, `parse_node`; `pc`: the loop about to run. One action per loop iteration or return: `ReadIdentifier`, `ReadTagOctet`, `ReadLength`, `ReadLengthOctet`, `AddPrimitive`, `OpenConstructed`, `NextChild`, `CloseNode`, `ChildrenFail`, `DepthExceeded`, `InputExhausted`, `EndCall`; `BeginCall` and `RejectCall` are the caller's |
| `BerGrammar` | nothing of the code: what BER and DER are, as a set-valued decoder and an encoder over trees | recursive operators, TLC only |
| `BerConformance` | `BerParser` against `BerGrammar` | the tree seen through the iterators, `AgreesWithGrammar` |
| `BerParserProofs` | theorems about `BerParser` | |
| `DerHeader` | `asn1_encode_identifier`, `asn1_encode_length` | operators only |
| `DerSerializer` | the serializer and its callers' protocol | `capacity`, `out`: `asn1_serializer_t`; `markers`: the callers' local `marker` variables, outermost first; one action per function, with its success and its failure as disjuncts. `Contents` cuts the buffer at its placeholders, which is what `DocumentBuilder` has open |
| `DocumentBuilder` | nothing of the code: what a serializer promises, in octets | `Add`, `Begin`, `End`, `Fail`, `Restart` on the contents of the open elements, each kept apart until its length is known: no placeholders, nothing moves |
| `TreeBuilder` | nothing of the code: what a serializer promises, in trees | `Add`, `Begin`, `End`, `Fail`, `Restart` on a stack of elements under construction |
| `SerializerConformance` | the refinement of `TreeBuilder` by `DerSerializer` | the mapping reads the buffer, placeholders cut out, with `BerGrammar` |
| `DerSerializerProofs` | theorems about `DerSerializer` | |
| `ImportOrder` | `topological_sort` | `imports`: `graph`; `degree`, `queue`, `result`, `remaining`: the arguments of `do_kahn_sort`; `Take` is one call that takes a file from the queue, `Finish` the one that finds it empty |
| `ImportOrderProofs` | theorems about `ImportOrder` | |
| `TypeCycles` | `detect_type_cycles` | `defs`: `all_types` and its graph; `color`; `stack`: the recursion of `dfs_visit`; `boxed`: the fields found. `Start`, `Visit` (one neighbour), `Leave` |
| `TypeCyclesProofs` | theorems about `TypeCycles` | |
| `Compilation` | the driver's three passes of `ASN1.compile/2`, after the sort of `ImportOrder` | `modules`: what the parser returns for each file; `own`, `globals`, `oids`, `templates`: the application environment by kind of key; `written`: the files; `pass` and `turn`: the driver's loops. `Compile` is one call of `compile/2` for one file |
| `CompilationProofs` | theorems about `Compilation` | |
| `Asn1Types` | every codec of `asn1_types.c` | a caller holds a node or a value and parses and serializes in turn (`phase`); one action per function; loops over octets are recursive functions (`Shifted`, `OidScan`, `OidContent`, `TextLengths`) |
| `Asn1TypesProofs` | theorems about `Asn1Types` | |
| `GenCodec` | the encoders and decoders that `C99Emitter.ex` generates for aliases, lists, sequences and choices | `Types`: the definitions; `CallEncode` and `CallDecode` are a caller's calls (as in `main.c`) of the functions of `root`, which are recursive operators over trees |
| `GenCodecConformance` | `GenCodec` against the encoding rules of X.690 | operators and properties, TLC only |
| `Sha256` | the client's SHA-256, HMAC and key derivation around the compression of a block, and the standards' definitions of them | functions only |
| `CmpClient` | `c99_client.c` and its server | `pc`, one action per phase of `main`; the client's buffers (`content`, `mac`, `message`, `resp`); `wire`, `inflight`, `closed`: the connection; `ServerAnswers`, `ServerCloses` |
| `CmpClientProofs` | theorems about `CmpClient` | |
| `Induction` | nothing of the code: induction on the natural numbers, the existence of recursive functions, division | lemmas that the other proofs use |
| `MCBerParser`, `MCDerSerializer`, `MCImports`, `MCAsn1Types`, `MCGenCodec`, `MCCmpClient` | the instances TLC checks | |

How they compose: `BerParser` and `DerSerializer` use one vocabulary of nodes,
and `BerConformance` and `SerializerConformance` show that the first yields and
the second writes the trees of `BerGrammar`. That is why `GenCodec` and
`Asn1Types` can work on trees and nodes instead of octets. `Compilation`
extends `ImportOrder`: the passes take the files in whatever order the sort
has produced. `CmpClient` extends `Sha256`, and both use `DerHeader` for the
headers and the big-endian digits.

Conventions: offsets count from 0 as in the code, node indices from 1. An
error return that passes through every open caller without a further effect is
one step. Messages and positions in `asn1_error_t` are left out. Definitions
whose comment says `mutant` are plausible bugs; a run with one of them in place
of the definition after it finds the property listed in `PROJECT.json`
violated, so every property here is one that the code could break.

## What the runs check

| Run | Question | Bounds |
|---|---|---|
| `parser` | does the parser succeed on the encodings, and only on them, with the tree they encode; are the node array, the iterators and the byte ranges right for nested trees and damaged ones; does anything of one call reach the next, and does parsing end? | every octet string of up to 4 octets over 7: end-of-contents, BOOLEAN and SEQUENCE identifiers, the long-form identifier, zero, short, indefinite and long lengths; trees of depth up to 4 in every mix of definite and indefinite forms, with lengths in the short and the long form, each small one also with an octet replaced, removed or added; capacities 1, 2, 3 and 6, depth limit 3, so that both limits are met exactly and exceeded; after each input a second call on the same result, with one of the strings of `Again` |
| `serializer` | do the calls write the document, and so the tree, that their callers describe? | every sequence of 5 calls; values of 0, 1, 124 and 128 octets put the content of an element on both sides of 128 and 256 once wrapped; capacities from always exceeded to sufficient; tags in one, two and three octets. Reserving 2 octets instead of 5 makes content above 255 outgrow its placeholder, the branch of the code that otherwise needs content above 4 GiB |
| `codecs` | is what the value codecs write read back, do the numbers read denote what the octets denote, and is what is received sent on as it was? | every `int64_t` and `uint64_t` (of 2 octets), every OID of up to 4 components at the boundaries of an octet, a septet and a component; received nodes with contents at the sign, minimality and length limits of every type |
| `gencodec` | are the generated encoder and decoder inverse, and is what they write the standard's encoding? | 21 definitions with the constructs of the repository's specifications, and with ENUMERATED and strings that are written as OCTET STRING, as fields, variants, elements and aliases, nested up to three deep, all combinations of optional fields, lists up to the limit; and every document one edit (a child removed, doubled, moved, a list past its limit) away from one of those, fed to every decoder |
| `imports` | is every file compiled once, importers first, with cycles reported, and do three passes write every definition with its meaning? | every import graph of 4 files without an import of a file by itself and without one of the 12 edges: up to the files' names all graphs but the complete one, with every combination of chains, diamonds and cycles with a tail; every order of the queue; modules in which names collide, values stand before their types, and templates are used across files |
| `cycles` | do the boxed fields break every cycle of types? | every reference graph of 3 definitions with fields or lists, searched from anywhere in any order: cycles of length 1 to 3, shared and nested ones |
| `client` | does what is sent carry a MAC of what it protects, is the MAC the standard's, is a cut answer ever taken for a message, and does the client end? | blocks of 8 octets with a bit count of 2; bodies that put the message on both sides of every boundary of the padding, do not fit in the buffer, or are not encodable; answers that are a message, another element, text or nothing, with lengths in the short and the long form, one as long as the buffer takes and one longer, cut at every point; the connection closed at any time |

Five runs show where the code differs from what it says of itself. `long_tags`:
the DER parser, documented as strict and canonical, accepts a long-form tag
number with leading zero septets, and one wider than `tag_number`, so that
encoding the tree again gives different octets. `long_lengths`: the bounds
check of `asn1_buffer_read_bytes` adds in `size_t`; for a length near the
largest `size_t` the sum wraps and `data_length` is not within the input as
documented. `BytesTiled` and `AgreesWithGrammar` therefore leave such inputs
aside: no node parsed has a length whose sum with the offset of its value wraps
(`NoWrap`). `import_order`: `kahn_sort` counts as in-degree the files that
import a file, so the order is importers first where the module's
documentation says dependencies first; `imports` checks the order the code
does produce. `alias_cycles`: if a cycle of types closes at a definition that
only renames another, no field of it is boxed; whether it closes there depends
on the type at which the search starts, which is a matter of names. `cycles`
therefore has fields and lists only. Renamings that lead in a circle, which
ASN.1 forbids, are left out (`AliasesEnd`). `oid_text`: `asn1_oid_to_string` is
documented to return the required size if the buffer is too small, and returns
the length up to the first component that does not fit; `codecs` checks what is
left of the promise (`TextFits`): the text is whole exactly if the length
returned is less than the size.

Scaling. `size_t` has 2 octets in the parser's runs instead of 8, and a tag
number 12 bits from at most 2 septets instead of 32 from 5: the arithmetic is
the code's, modulo a smaller power of 2, and the relation between the two
limits (a number of septets that carries more bits than the type) is the same.
Likewise integers have 2 octets, OID components 11 bits from at most 2 septets,
generated arrays 3 elements instead of 32, and SHA-256 blocks of 8 octets
instead of 64 with an arbitrary compression function. Nothing in the models
depends on these numbers, and the proofs hold for all of them.

Fairness. `asn1_parse` runs on its caller's thread and waits for nothing, so
its steps are weakly fair and its caller's are not. The serializer needs no
fairness: each call is one step, and no liveness property is stated for it.
The sort, the search and the passes are functions of a sequential script:
their steps are weakly fair, and the model stops when the script has ended,
which is why these runs do not check for deadlock; nor do those of the codecs
and the client, whose callers and whose program stop. `ClientEnds` assumes that
the client runs (`WF_vars(Client)`) and that the server answers or closes
(`WF_vars(Server)`): `recv` has no timeout, so a silent server would keep the
client for ever.

Protocol. `DerSerializer` assumes of callers what generated code does
(`emit_sequence_encoder`, `C99Emitter.ex:929-947`): markers are local variables
of nested calls, ended innermost first, and a caller that gets an error returns
it. A caller that ignores errors is not modelled here.

## What is proved

`BerParserProofs` proves, for every set of inputs, capacity, depth limit and
width of the integers:

- `ParserTypeCorrect`: the offset stays within the input, the node array within
  the capacity, the stack within the depth limit. `TypeOK` is not inductive: a
  node's depth is in range only because `DepthExceeded` comes before it is
  made, and a frame's node exists only because frames are opened when nodes
  are. `TypeInv` adds both (`DepthChecked`, `FramesOrdered`).
- `SubtreesExact`: depth and subtree size describe one tree in every state of
  a parse. The invariant adds that the next node to be appended lies within the
  innermost open node and outside every finished one (`NextNodeOutside`).
- `FinishedNodesStable`: within a call a node that is not open is never written.
- `ChildrenFoundOnce`: after a successful parse the child iterators visit every
  node but the root once, under its parent. The array is a pre-order of depths
  (`PreOrder`): a node is at most one deeper than the one before it. So the node
  after a subtree is a sibling or belongs to an ancestor, and the iterators'
  walk, an induction over its steps (`ChildWalkSteps`, `WalkFindsSiblings`),
  misses none.
- `BytesAccountedFor`: after a successful parse in which no length wraps, every
  node is what its octets encode: its class, form and tag number are those of
  the identifier octets, its length is the one announced, in the minimal form if
  the rules are DER, and its content lies where the header ends. The children
  tile that content up to the node's end or its end-of-contents octets, so every
  octet of the input is accounted for once. `HeaderRead` says what the locals of
  `parse_identifier` and `parse_length` have accumulated of the octets since the
  node's start, one loop iteration after the other; `Offsets`, where each frame's
  content began and where the innermost one stands; `Layout`, that the finished
  children of a node follow each other from there without gap or overlap; and
  `NodesRead`, that every node in the array, open or not, is what was read for it
  (`AppendRead`, `AppendLayout`, `CloseLayout`).
- `StepsAdvance`: every step of a call that goes on appends a node, which the
  capacity limits, or leaves less `Work`: input to read, nodes to finish, a child
  to look for. This is the part of `ParseReturns` that needs no fairness.

`DerSerializerProofs` proves, for every capacity, element and sequence of calls:

- `SerializerTypeCorrect`: nothing is written past the buffer.
- `MarkersValid`: every open element's placeholder is intact at its marker, so
  the unsigned subtraction in `end` never wraps.
- `PrefixesStable`: what precedes the innermost open element's length is final.

There `IInv` is `TypeOK /\ Placeholders`.

- `SerializerBuildsDocument`: the serializer implements `DocumentBuilder`, a
  refinement step by step. What lies between two placeholders is the content
  that `DocumentBuilder` keeps for one element; appending extends the last region
  (`CutAppend`), `begin` starts a new one (`CutOpen`), and `end`, which patches
  and moves, joins the last two with the length between them (`CutClose`). It
  holds for contents of any length, those included that outgrow their placeholder.
- `FailsOnlyIfFull`: a call fails only if the document it would lead to, with
  every open element ended, does not fit in the buffer together with the octets
  that the placeholders hold beyond their lengths, or if the element that ends
  is longer than its placeholder can announce. The buffer holds the contents and
  the placeholders, and every length takes one octet at least (`CutTooLarge`,
  `NoRoomToAppend`, `NoRoomToBegin`); a length that needs more octets than were
  reserved is of content with that many digits (`LongLength`).

`ImportOrderProofs` proves, for every finite set of files and every import
graph:

- `SortIsPermutation`: the result has every file exactly once, cycles or not.
- `OrderIsTopological`: unless a cycle is reported, a file precedes all the
  files it imports from.
- `WarnsOfCycles`: the sort warns exactly of the graphs in which imports form a
  cycle.
- `SortAdvances`: a step takes one of the files that remain, or ends the sort,
  so there is at most one step more than there are files (the part of `SortEnds`
  that needs no fairness).

The first three are not inductive. The invariant says what the in-degrees count, the
importers that remain (`Bookkeeping`); that a file without any is in the queue
or in the result, in exactly one of them and once (`Distinct`); and that the
importers of a file in the result stand before it (`ImportersTaken`). For the
warning it adds that no file of a circle, a set in which each file has an
importer in the set, is ever taken (`CirclesRemain`): the first one taken
would have had an importer left. When the queue is empty the files that remain
are such a set. `Acyclic` speaks of imports instead of importers; `TurnAround`
shows that a finite relation has a circle in one direction exactly if it has one
in the other, by a smallest such set.

`CompilationProofs` proves, for every set of files, every import graph and all
legal modules:

- `OrderStays`: what the sort promises holds throughout the passes, which leave
  the sort's state alone.
- `ThreePassesSuffice`: after the passes every definition that gets a file has
  exactly one, with its form and with the definition that its reference means
  in its own module; no other has one.

The argument follows the passes. `lookup` by a name alone finds what the name
means in the module being compiled, whatever other modules left in the
environment, because the module's own names and imports are registered before
its declarations are looked at (`LookupRespectsScope`). So the environment is
never wrong, only incomplete (`Sound`), and what a call leaves depends on what
was complete before it: after the first pass all templates are known, after the
second all types that are OBJECT IDENTIFIER, and so the third writes everything
rightly and replaces what earlier passes wrote (`Achieved`). The sort's
`EachFileOnce` makes a pass one; nothing else about the order is used, so the
same holds of `compile/0` (`ASN1.ex:57`), which makes the three passes in the
order in which `list_dir` finds the files. The assumption,
`CompilationAssumption`, is that modules are legal ASN.1 (`Legal`): a name has
one meaning in a module, and what a reference names is declared in a module it
imports from or its own.

`TypeCyclesProofs` proves, for every set of types and every reference graph:

- `PathIsGray`: the definitions on the path are the gray ones, each referred to
  by the one before it.
- `BoxedIsRecursive`: a boxed field refers to a type that reaches itself.
- `CyclesAreBroken`: when the search has ended, the references left unboxed
  form no cycle, if no definition is a renaming. `BrokenInv` keeps the usual
  argument of depth-first search: an unboxed reference of a black definition
  leads to a black one, and the black ones alone have no cycle.
- `SearchAdvances`: a step visits a type, looks at a neighbor for the last time
  or leaves a type for good, so the search takes finitely many (the part of
  `SearchEnds` that needs no fairness). What is left to do (`White`, `Unseen`,
  `NotBlack`) only shrinks; a neighbor that was looked at is never looked at
  again because a type is open only once.

`CmpClientProofs` proves, for every message, buffer, encoding and compression
function:

- `MessageIsCovered`: a message that exists carries the MAC of exactly the
  header and body it contains. The code ignores the encoders' results where it
  computes the MAC; the invariant `Progress` says what each step has computed
  *if* those encodings succeeded, and the final encoding, whose result is
  checked, repeats them in a buffer of the same size, so it succeeds only
  if they did.
- `AnswerIsReported`: however an answer is cut, the client says it has decoded
  a message only if the server sent one and all of it has come; and a message
  that was sent and does not get decoded had octets that the one `recv` did not
  return. What came and what is still under way make up the answer (`Stream`);
  the first delimiter lies at the end of the head (`FirstDelimiter`), and an
  element whose header says it is complete is (`ElementIsWhole`).
- `ServerAcceptsMac`: the MAC is the one of FIPS 180-4, RFC 2104 and RFC 4210,
  so a server that has the password accepts the message. A context has absorbed
  a message (`Absorbed`) when its state is that after the message's whole blocks
  and its buffer holds the rest; `sha256_update` absorbs whatever pieces the
  message comes in (`UpdateAbsorbs`); `sha256_final` writes the standard's padding,
  in one block or in two (`FinalIsStandard`). HMAC (`HmacIsStandard`) and the
  iterated key (`StandardKeySteps`, `KeyInv`) follow.

`Asn1TypesProofs` proves, for words, components and buffers of every size, all
nodes and all values:

- `WrittenReturns`: what a serializer writes its parser accepts and reads as the
  value written, in any number of turns. The exception, an OBJECT IDENTIFIER
  whose second component is beyond 39, is stated (`Representable`).
- `ForwardedUnchanged`: a received value is sent on in the octets received, or,
  where a type has other forms, in no more.
- `NumbersAreRead`: the parsers of INTEGER return what the octets denote in two's
  complement. `asn1_parse_int64` refuses an INTEGER only if its type does not hold
  the number or the form is not minimal (`Int64Refused`); `asn1_parse_uint64` only
  if its type does not hold it, or the form is not minimal and longer than a word
  and one octet (`Uint64Refused`, `Uint64TooLong`). What is minimal and longer than
  a word is beyond it (`BeyondAWord`).
- `AccessorsAgree`, `TextIsWhole`: the bit count and the bits of a bit string
  agree; `asn1_oid_to_string` stays in its buffer and tells if the text is whole.

The octets of a number are its quotients by powers of 256, modulo 256
(`OctetsOfNumber`, `NumberOfOctets`); k octets hold the numbers whose quotient
by the power k - 1 is one octet with a sign (`FitsQuotient`). A form is minimal
exactly if the number does not fit in one octet less (`MinimalIsShortest`), so
there is one shortest form (`ShortestUnique`); both serializers write it, and
`asn1_parse_int64` accepts no other. An OBJECT IDENTIFIER is an induction in both
directions: the scan of what was written finds one component more for each
that is appended (`ScansComponent`), and what has been found after i octets takes
no more than i to write (`Retained`), even if the arithmetic of `uint32_t` drops
bits on the way. The invariant `CodecInv` relates the node, the value and what
was sent and received: parsed values were read from the node, sent nodes were
written for the value, and a value that came from a peer is still what the
peer's node says. A rejected node is one that no value can be read from.

The library's induction theorems take an operator as a parameter, which none of
the provers can instantiate. `Induction` therefore states induction with a set for
the predicate (`UpTo`, `AllNaturals`), from a least element that the library's
theorem on finite subsets gives (`LeastNatural`), and with it that the functions
which a recursive definition chooses exist (`LoopExists`). The proofs about
loops rest on it: the iterators' walk, SHA-256's blocks, the key's iterations,
octets, components and texts.

The assumptions are the named `ASSUME`s of the modules. Most are types of the
constants. The others: `PowersArePositive` and `PowersOfBases`, facts of
arithmetic that the provers do not have; `ValuesAssumption`, that callers pass
what the types of C and `asn1_types.h` admit (at most 7 unused bits, which are
zero); `ResponsesAssumption`, that the blank line after an answer's head is its
first, as HTTP has it, and that a message is one complete element;
`HeadsAssumption`, that the head holds no NUL, where `strstr` would stop;
`CompilationAssumption` (above). TLC evaluates all of them.

Only model-checked, because they rest on recursive operators over trees, which
the provers cannot use: agreement with the grammar (`AgreesWithGrammar`,
`DerCanonical`), the refinement of `TreeBuilder` (`ImplementsBuilder`), and all
of `GenCodec` (`WritesStandard`, `ValueReturns`, `EachChildOnce`).
`BytesAccountedFor` proves one direction of the first without trees: what is
accepted is the encoding that the node array describes; that every encoding
within the limits is accepted stays with TLC. Because they are liveness:
`ParseReturns`, `SortEnds`, `SearchEnds`, `ClientEnds`; of the first three the
measures above are proved.

## Known limits of the code

Reading the source for the models showed the following, beside the findings
above. Each is either a hypothesis of a property or outside the inputs of a run.

Runtime. The first octet of an OBJECT IDENTIFIER is truncated for second
components of 176 and more, and 2.40 and above read back as 3.0 (`Representable`
in `RoundTrip`). `asn1_parse_uint64` accepts forms that are not minimal,
`asn1_parse_int64` does not; but beyond a word and one octet it refuses them too,
even if the number fits (`asn1_types.h:64`: "error if negative or doesn't fit").
`asn1_serialize_bit_string` writes the unused bits
as they are given, and `asn1_parse_bit_string` refuses those that are not zero
(`ValuesAssumption` has the values whose unused bits are).

Client. `strstr` searches memory that was not received when the delimiter is
not in what was; the model has what that can lead to (`FindBody`), not the read
itself. A message is one that the parser accepts when it is whole: a larger
one than `nodes[512]` or than the depth limit counts as no message
(`ParseBody`). Keys are digests, so the branch of HMAC for keys longer than a
block is never taken by the program, nor in the run; `HmacIsStandard` is proved
with it.

Generated codecs (`Handled` in `GenCodecConformance` names what is left out of
`WritesStandard` and `ValueReturns`; `EachChildOnce` has no such exception).
- An optional reference without a tag, unless it is the last field, takes the
  next field's child.
- IMPLICIT on INTEGER, BOOLEAN, ENUMERATED and NULL: the field is written with
  its universal tag, which its decoder then does not match; in a CHOICE the
  emitter calls `asn1_serialize_integer_tagged` (`C99Emitter.ex:1234`), which the
  runtime does not have.
- IMPLICIT on UTF8String: `universal_tag` does not know it.
- IMPLICIT on a constructed type: the decoder's copy of the node is not in the
  array, so it has no children.
- In a CHOICE, IMPLICIT on an OID or a time is written as EXPLICIT, and a nested
  SEQUENCE OF is not written at all.
- ENUMERATED is an `int64_t` and is written, and required, as INTEGER
  (`C99Emitter.ex:198`, `:627`, `:1606`).
- VisibleString, NumericString, GeneralString, T61String, VideotexString,
  GraphicString and ISO646String share the struct of OCTET STRING
  (`C99Emitter.ex:220`, `:230-235`) and, outside a CHOICE, its tag. A field
  VisibleString or NumericString of a sequence, untagged or IMPLICIT, is looked
  for under its own tag (`:1057-1060`, `:1530`), so the decoder refuses what the
  encoder wrote; with an EXPLICIT tag it reads OCTET STRING again, and in a
  CHOICE the other way round: only an EXPLICIT variant disagrees. There the
  struct is passed as another one of the same layout, which some compilers
  refuse. The other strings of the list have no universal tag in the emitter and
  are not written at all as untagged variants of a CHOICE.
- References to `@cyclic_types` (`C99Emitter.ex:437-441`) become raw nodes, in the
  model fields of `AnyType`. Definitions that refer to themselves, whose field is a
  node while its functions are those of the definition, are not modelled.
- SET is written with the tag of SEQUENCE, while an alias of SET OF is a list with
  the tag of SET; neither is among the definitions. Decoders of sequences do not
  look at the identifier; children after the last field are ignored; a list is cut at 32
  elements without an error; context tags above 30 are not written in long
  form.

Compiler.
- A value is written only if its type is named as OBJECT IDENTIFIER itself, or
  by an instance of a template (`Generated`): a type renamed twice has its values
  skipped.
- What a template refers to is looked up where the template is used
  (`SameNameHere`), which may not know the name.
- An import of something that a module itself imports names a definition
  that does not exist.
- Two names of one module that differ in case alone share a file
  (`C99Emitter.ex:2177`); the suffix that the Go emitter's names get for this is
  not checked again (`ASN1.ex:841`).

## Not modelled, and the plan

The plan was, in order: the parser, the serializer, the sort and the search,
the value codecs, the generated codecs, the passes of the compiler, the CMP
client, and proofs of each. All of it is done, with these parts left out:

- The compiler's classes, its `:ptypes` overrides, special cases by name
  (`ASN1.ex:878-879`) and the redirects of `qualified_name`: tables of one
  collection of specifications. The names of generated files other than C's:
  they follow rules of each target language. How the C99 emitter spells names,
  headers and includes: text.
- Reading the files for their imports and type names (`basic.ex`): regular
  expressions over text; the sort and the search start from what it yields.
- The other emitters (Go, Java, Rust, Swift, TypeScript): text generation over
  runtimes that are not in the repository. The hazards at their level (what the
  generated code does) cannot be read from the templates alone.
- Drivers and samples: sequential scripts, read for how the rest is used.
- `dumpasn1.c`: third party. The specifications: data.
- `asn1_error_t`'s messages and positions; `asn1_length_bytes_needed` and
  `asn1_identifier_bytes_needed`, which nothing calls.
