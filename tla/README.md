# Philis in TLA+

Philis is a layout engine for analog circuits. What it holds today is its
front: the `api` crate (`src/crates/api`), which reads SPICE netlists, builds
circuits by calls, takes them through the tiers of a flow whose engine is still
a stub, reads and writes GDSII layouts, and offers all this as a command and as
a Python module. The engine crates (`constraints`,
`geom`, `place`, `route`, `solver`, `tech`, `verify`) are plans in prose with
empty libraries. This directory models the front: its parsers as step-by-step
programs over every short input, its GDSII streams down to the bytes and the bits
of a number, its builder as an implementation of a one-line promise, its flow as
a caller's arbitrary sequence of calls, and its front ends as what their users
are shown.

The code is sequential. There are no threads, nothing is persisted, nothing is
sent. What makes it hard to test is of another kind: inputs in orders nobody
wrote (headers inside blocks, names inside references, streams cut anywhere),
two records of one fact that must not drift apart (a list and a map of
definitions, a vector and an index of cells), loops that gather errors over
data declared in any order, handles that outlive what they were made from,
writers whose output must be in their reader's language, lengths and sums that
outgrow their fields, and scanners that take a value for a key.

## 1. Inventory

Paths are under `src/crates/api/src`.

| Part | State | Operations | What makes it correct |
|---|---|---|---|
| SPICE reader, `io/spice.rs` | text, logical lines, the open subckt, the netlist under construction | `reassemble`, `parse` | no word is lost; each card goes to its block; list and map of definitions agree; each error has its cause |
| SPICE netlist and writer, `io/spice.rs` | top-level devices, definitions, their order, directives | `from_devices`, `select_subckt`, `promote_first_subckt`, `device_count`, `to_spice` | what is written is read back |
| Circuit builder, `builder.rs` | devices, nets with connections, constraints | `add_*`, `net`, `constrain`, `build` | `build` names every error and warning of the circuit as it stands, and no other |
| Built circuit and hints, `builder.rs` | a netlist and warnings | `solve`, `solve_with` | the same flow as the other ways |
| Ports, `port.rs` | none | index, name, lookup by name | a terminal is one index, whatever it is called |
| Constraint vocabulary, `core.rs` | none | `kind`, `device_refs`, `is_engine_supported`, `intent_class` | what `build` warns of is what the intent classes call unsupported |
| Flow tiers, `flow.rs`, `layout.rs` | the caller's `Circuit`, `Constraints`, `Placed`, `Layout` | `from_spice_str`, `select_subckt`, `use_first_subckt_as_top`, `analyze`, `place`, `route`, `run` | one netlist per result; one result per netlist |
| Stage oracles, `core.rs` | none | `run_constraints`, `run_placement`, `run_routing`, `run_flow` | stubs: counts and degraded certificates |
| Certificates, `core.rs` | gate verdicts, hard vector, degraded flag | `is_accepted`, `is_signoff_quality`, `evaluate_gate_acceptance`, `is_feasible`, `lex_le` | answers nest; the order is total and its levels gate |
| GDSII library and writer, `io/gds.rs` | cells, index by name, units | `add_cell`, `add_rect`, `write` | index and cells agree; what is written is read back; each record has the length its header tells |
| GDSII reader, `io/gds.rs` | stream position, current cell, pending element | `Gds::read` | each element is counted, and in the cell of its structure; a cut stream loses only its end |
| GDSII reals, `io/gds.rs` | none | `f64_to_real8`, `real8_to_f64` | inverse of one another where they can be |
| Layout inspectors and checks, `layout.rs`, `verify.rs` | none | stubs that answer constants | |
| PDK reader, `io/pdk.rs` | a `Pdk` | `from_json_*`, `from_toml_*`, `from_path`, `from_env` | what the author declared is what is read |
| Quickstart, `lib.rs` | cells, a box | `parse`, `place_and_route` | the first fault is reported at its row; the summary is right or shows that it is not |
| Command line, `main.rs`; Python binding, `python.rs` | none; a promoted circuit | menu and batch; `Circuit`, `run`, `place_and_route` | of one deck every user is told the same |
| Units, `units.rs`; benchmarks, `src/bench` | none | conversions; timing | |

How they interact: `Circuit::from_spice_str` calls the SPICE reader and keeps
its netlist; the builder makes a netlist by `from_devices`; both go through
`run_*`, which read no more of a netlist than its `device_count`; a layout
carries the netlist and the flow's result, and an exported library goes through
the GDSII writer. The command and the Python module promote the first subckt
and call `run`, or call the quickstart, which stands alone; they hand a PDK to
`run`, which no stage looks at. The certificates of the stubs are read through the answers of
`core.rs`.

## 2. The modules

### SPICE

- **SpiceCard** - a line is a sequence of words. A word keeps the class of its
  first characters, whether it is a `key=value`, and the rest of its text as a
  value of the constant `Id`. A name that `from_devices` was given is a `Word`
  too: one that is no `LineWord` (`text`) is empty or has white space, a line break
  or a comment mark inside. `ParseDevice` is `parse_device`, `WriteDevice` is
  `write_device`, and the same for headers.
- **SpiceNetlist** - the netlist and every operation on it but reading. A device
  is kept as the card it was parsed from: `parse_device` is a function of its
  card alone, so that the fields can be computed where they are looked at.
  `IsNetlist` says what every netlist is: the flow assumes it of its inputs and
  the reader is proved to give nothing else.
- **Listing** - what it is for a sequence to list the values of a function in the
  order of their places; the properties of both readers say with it that cards
  and elements are where they belong, in order.
- **SpiceReader** - `SpiceNetlist::parse`. `status = "lex"` is the loop of
  `reassemble`, `status = "parse"` the loop over logical lines, one step per
  iteration; a branch of the loop is an action (`SkipBlank`, `StartLogical`,
  `Continue`, `DanglingContinuation`; `OpenSubckt`, `CloseSubckt`, `AddToBody`,
  ...). `text`, `row`, `logical`, `pos`, `open` are the variables of the code,
  `top`, `defs`, `order`, `directives` the fields of the netlist.
- **SpiceRoundTrip** - extends the reader: a netlist that was read, or made from
  names, is promoted by any calls, written, and read by the same steps. `Lines`
  is what is found in the written text: a name of one word is a row of its own,
  one of another kind is the lines and words that the constant `Spelt` gives, a
  blank line for the empty name.

### Builder

- **CircuitPromise** - the abstract specification: a circuit is edited in any
  order, and `Build` answers in one step with the set of all its errors
  (`CircuitErrors`, said declaratively over the whole circuit), or with the
  circuit and its warnings.
- **CircuitBuilder** - `CircuitDef` with `build` step by step: a phase for each
  of its six loops (names of devices, names of nets, terminals, references,
  floating nets, unsupported constraints), `i` and `j` for their indices, `seen`,
  `owner`, `errors` and `warnings` for its locals; a reference of a constraint is
  checked in a step of its own, and a circuit with an error is refused before the
  loops that warn. Its edits are the abstract ones, its answer holds lists where
  the promise holds sets; `KeepsPromise == Promise!Spec` under that mapping
  says that it implements the promise. The promise warns by `intent_class`, the
  code by `is_engine_supported`: the refinement shows that the tables agree.
- **Ports** - the three families, their indices and names, and the lookup by
  kind and name. A terminal is a device and an index, so that "g" of a
  transistor and "p" of a resistor are one terminal to the builder; the runs
  connect both.

### GDSII

- **GdsLibrary** - `Gds` and its writer. A record keeps its type, whether its
  payload's length fits its data type, and its values; `ReadBack` is what
  `write_ascii` followed by `parse_ascii` makes of a name: it ends at its first
  NUL, and bytes that are not ASCII become characters of their own.
- **GdsReader** - `Gds::read`, one step per record; `curCell` and `pending` are
  `cur_cell` and `pending`. The rest of a stream after its last whole record is
  one of three tails, which are the three answers of `next_record` there.
- **GdsRoundTrip** - a library is built by `add_cell` and `add_rect`, or read
  from a foreign stream; it is written, and the whole of it or a part is read.

- **GdsReal** - the 8-byte reals. The magnitude of a number is the set of the
  weights of its one-bits: multiplying by 16 shifts the set, rounding looks at
  the bits below a place. `ScaleDown` and `ScaleUp` are the passes of the two
  loops of `f64_to_real8`, `Pack` what follows them; `Decode` is `real8_to_f64`
  with the rounding of 56 bits to a double's 53. The widths are constants.
- **GdsBytes** - what lies below the records: `WriteRecord` appends a header
  with its 16-bit length and a payload, doubles go through GdsReal one by one;
  a stream may be cut at any byte (`Open`); `EndOfFile`, `BadRecordLength` and
  `NextRecord` are the three ways out of `next_record`. What was read without
  cells may be written again (`Rewrite`), with whatever units it came with.
  `written` and `marks` remember what was written and where, for the properties.

### Flow

- **Certificates** - pure operators: acceptance, signoff quality, the hard
  vector's order, the stubs' certificates.
- **Candidates** - what is compared by them: any three candidates of a set of
  hard vectors, any certificate of a set.
- **Flow** - extends SpiceNetlist and Certificates. The caller holds at most one
  circuit, one `Constraints` and one `Placed` and may call anything on any of
  them at any time; the handles carry the netlist they were made from, as the
  code's clones do. The three ways through the flow (the staged tiers and `run`,
  the builder's `solve`, a direct `run_flow`) are three actions with the
  code's three bodies.
- **Quickstart** - `parse` row by row and `place_and_route` cell by cell, over
  integers of a width, in a build that stops on overflow and in one that wraps.
- **PdkReader** - a JSON text as the sequence of its tokens, a TOML text as its
  lines; the scanners as they look for the first occurrence of a key, and keep
  the strings of a list in their order. `Json` and `Toml` say how an author
  writes a schema down.
- **FrontEnds** - extends the three: a user at the terminal, whose invocations
  keep nothing, or in Python, whose circuit is kept promoted and run again, or
  in Rust (Flow). `shown` is what the user was told of each deck.

### Proofs

- **SpiceReaderProofs** and, on top of it, **SpiceRoundTripProofs**;
  **GdsReaderProofs** and, on top of it, **GdsRoundTripProofs**;
  **CircuitBuilderProofs**; **GdsBytesProofs**, with what is proved of GdsReal;
  **FlowProofs**, on top of FrontEnds, with what is proved of certificates, the
  quickstart, the PDK reader and the flow.
- **LibraryLemmas** - facts about the community modules' operators and Listing:
  greatest and least elements, `FlattenSeq` of a sequence with one part more and the place of each part in it,
  `SumFunction` with one place more, the rank of a place and what a list becomes
  when a place is added behind the others. Each is proved by an induction over a
  set of numbers, as no induction over the data itself is at hand.

The MC modules give the constants their values.

## 3. The runs

Each run enumerates every input of its bounds. The states are those of the
shipped configurations.

| Run | Bounds | Properties | States |
|---|---|---|---|
| `reader` | decks of up to 4 rows over ten kinds of row, and up to 6 rows over two cards, two headers, ends and end | `TypeOK`, `LogicalLinesClean`, `WordsKept`, `OutcomeJustified`, `OrderListsDefs`, `CardsGoToTheirBlock`, `NoCardDropped`, `Terminates` | 731 k |
| `roundtrip` | decks of up to 4 rows over eight rows, every card of every family with up to 6 words, built names, among them the empty one, some that begin like a comment, and some with white space, `;` or a line break inside; up to 2 promotions | `RereadKeepsCounts`, `CardWordsKept`, `RereadKeepsNetlist`, `RereadSucceeds` | 316 k |
| `builder` | either 2 devices and 2 nets of up to 1 connection, two ports of one index, and a constraint of each intent class (beside at most 1 device or at most 1 net); or 1 device and 3 nets of up to 2 connections to it | `TypeOK`, `FirstBinderOwns`, `KeepsPromise`, `BuildAnswers`, `ErrorsLast` | 394 k |
| `gds_read` | streams of up to 6 records over structures, names and elements; up to 3 over payloads, with each tail | `TypeOK`, `IndexMatchesCells`, `ElementsCounted`, `StructuresHoldTheirElements`, `OutcomeJustified` | 538 k |
| `gds_roundtrip` | libraries of up to 2 cells and 2 elements, names plain, with a NUL, and not ASCII; foreign streams of up to 3 records; 2 rounds; every cut | `RereadKeepsLibrary`, `CutOnlyLoses` | 2.3 M |
| `gds_bytes` | bytes of 5 bits, doubles of 32 bits, exponents of excess 8; libraries with names of every parity and extreme coordinates, cut at every byte; 50 wrapped and unwrapped rectangles; foreign units of every exponent, foreign streams of up to 5 bytes; 4 rounds | `FramedExactly`, `CutRefused`, `OverflowShows`, `EncodingExact`, `RewritesSettle`, `CallsEnd` | 52 k |
| `certificates` | hard vectors of counts 0 and 1, gate vectors of up to 3 | `Ranking`, `Acceptance` | 263 k |
| `flow` | four netlists (flat, in a subckt, in the second subckt, empty), up to 4 devices at the top, 2 results; quickstart texts of up to 3 rows with coordinates at the ends of 3 bits; schemas of up to 2 declarations of any kind and of 3 chosen ones; 2 things shown | `StagesSawOneNetlist`, `WaysAgree`, `EmptyExactlyRefused`, `NeverSignoff`, `FirstFaultReported`, `WrongSummaryShows`, `FrontEndsAgree`, `PdkAsDeclared` | 363 k |

Why the bounds are enough for what they are to show:

- A reader's step depends on one row and on little state. Four rows hold a line
  with a comment between it and its continuation; six hold two blocks of one
  name, each with a card, and one nested in another. The proofs (section 5)
  take the structural invariants to decks of any length.
- The round trip's six words are one more than the longest fixed family uses
  (three nodes, substrate and model of a bipolar transistor), with parameters
  before, between and after.
- A conflict between nets needs two nets, the question of who owns the terminal
  after it a third; a duplicate needs two devices. Connections and devices are
  independent otherwise, which is why `MCSpec` has two shapes of circuit.
- Six records hold a structure, a reference with its target's name, and another
  element after it. Two rounds of a library show what reading loses the first
  time and what it must not lose again.
- A number of bytes says nothing of their width: with bytes of five bits a
  length wraps at 1024, an integer has 20 bits, a mantissa 35, and every case of
  sign, parity, padding and rounding is there. The proofs take framing and
  encoding to every width.
- Units need three rounds to settle: the first reading rounds them to doubles,
  the first writing drops what has no real, and later ones change nothing.
- A box overflows with two cells and a text needs a third row for a fault after
  a comment or after good cells; a misleading schema needs a value like a key, a
  list that is not the key's, and the key after them.
- `lex_le` compares by the first difference, so that 0 and 1 show every case for
  two vectors; transitivity over more counts is proved.

What the runs show, beyond types:

- *Reading.* Reassembly keeps every word outside of comments, in order. Each
  card is at the end in the definition or at the top level in whose block it
  stands, for headers and ends in any order; a device is lost only with a
  definition that a later one of the same name replaced.
- *Writing.* Whatever was promoted, a written netlist is read back to the end
  with the same counts and names, if each of its devices has one word for a name
  and none that a comment, a continuation or a directive begins with; and in full
  if, besides, every card has its words where its family expects them. (A card
  with words too many, or a node after a parameter, is written in another order,
  with no word lost.) A deck gives no other names; the builder may.
- *Building.* The four loops compute the declarative set of errors, for
  repeated calls with edits between them; a duplicate or a conflict is never
  mended by a later declaration.
- *Layouts.* Elements are never lost, orphans included; a stream cut at any
  place is refused or gives a beginning of the library. If the cells' names can be
  told apart after reading, every cell comes back with its elements and their
  geometry, and every name, the library's or a cell's, that is ASCII without a
  NUL. A name with a NUL comes back cut there, one that is not ASCII changed.
- *Bytes.* Every header stands where the record before it ended, and every
  payload that fits its length comes back, but for what follows a NUL in a
  name; `f64_to_real8` keeps each double or
  writes zero out of range, and its rounding never acts, because a double is
  shorter than a mantissa by more than a hex digit's spare bits. A cut stream is
  refused unless the cut falls between two records (then it is taken for whole:
  only ENDLIB could tell, and `read` does not ask for it). A rectangle that
  overflowed comes back inside out.
- *Front ends.* The command and the Python module tell the same of one deck. The
  quickstart's summary is right or has a negative number in it. A PDK file is
  read as declared if no value of it reads like a key and each key has its kind
  of value.
- *Flow.* However handles are mixed, the parts of a result are of one netlist,
  and all ways through the flow agree.

Deadlock is checked in `builder*` and in `flow`, where there is always a call to
make. Elsewhere the system stops: a read has ended.

### Fairness

`FairSpec` of the reader assumes weak fairness of its next-state relation, which
is the loops of `parse` and nothing else. `RTSpec` of the round trip assumes it
of the same steps (`Read`): nobody has to promote, to call `to_spice`, or to read
what it gave; once the text is read, `RereadSucceeds` says that the call ends.
`CircuitBuilder` assumes weak fairness of `BuildStep` only: `build`, once
called, runs to its end, and nobody has to call it, or to stop editing.
`ByteSpec` assumes weak fairness of the steps of `write` and of `read`
(`WritesOn`, `ReadsOn`): they are loops over what is left of a library or a
stream, and a call of either runs on, but nobody has to open what was written or
to write it again; `CallsEnd` says that every call, of the first stream and of
the later ones, comes to its end. Nothing else is assumed, and
no other module states liveness.

## 4. Where comments and code part

Four runs are expected to be violated; each property is what the source says.

- `reader_nested` - "End of input reached while a `.subckt` was still open"
  (`spice.rs:125`) is not reported when the subckt was opened inside another:
  `open` holds one name, and one `.ends` is enough for both.
- `builder_floating` - "A net with fewer than two terminals"
  (`builder.rs:347`): `build` counts connections, so that a net which connects
  one terminal twice gets no warning.
- `gds_aref` - "Records it does not understand ... are skipped on read"
  (`gds.rs:40`): the STRNAME inside an AREF is taken for the name of a
  structure, and the elements that follow are filed there.

- `gds_wrap` - "`Gds::read(&g.write())` round-trips" (`gds.rs:241`): the length
  of a record is written `as u16` (`gds.rs:529`), so that a longer name or
  polygon makes a stream that is not read back. Where the lengths fit,
  `FramingCorrect` proves that every record is read where it was written; the
  same `lib_name`, which the same comment promises, comes back only if it is
  ASCII without a NUL (below).

Others were met, which no run states. "Re-parsing the output yields the same
`device_count`" (`spice.rs:324`) does not hold of every list of names given to
`from_devices` (`spice.rs:231`), and neither it nor the builder looks at a name:

- an empty name, or one of white space only, is written as a blank row, and its
  device is lost;
- a name that begins with `*`, `;` or `$` is a comment, and lost; one that
  begins with `+` joins the row before it, or is an error if there is none; one
  that begins with `.` is a directive, a header or an end;
- a name with `;` or `$` further on is cut there, and one with white space
  inside is read as a card of several words: the count is kept, the device is
  not;
- a name with a line break inside is as many rows, each of which may be any of
  these.

`NamedAsDevices` excludes just these names, which no deck gives a device; every
netlist without them is proved to be accepted with the same counts
(`AcceptedBack`, `CountsCorrect`), and in full where its cards are well placed
(`NetlistCorrect`).

"The result has the same `lib_name`" (`gds.rs:241-242`) does not hold of a name
with a NUL, which `parse_ascii` takes for its end, nor of one that is not ASCII,
whose bytes become characters of their own; `FramedExactly` and
`RereadKeepsLibrary` say what comes back of such a name (`ReadsAs`, `ReadBack`),
a cell's as well as the library's.

Further: the "logical-line number" of an error
(`spice.rs:117`, `122`) is the physical row where its logical line begins, as
the doc of `reassemble` says; the PDK reader "records a warning for anything it
doesn't" understand (`pdk.rs:9`) only for a missing `tech`, and cuts the
fraction off a JSON number where it refuses a TOML one; `add_rect` panics in one
build where it wraps in another (`gds.rs:223`), as does the quickstart
(`lib.rs:163`); a promoted deck counts its first subckt's devices twice, an
inspected one once (`main.rs:109`); `run_constraints` reports nothing as
unsupported, whatever the builder warned of (`core.rs:334`); a second definition of a subckt takes the
first one's devices out of "total number of devices parsed" (`spice.rs:255`);
any directive that begins with `.end`, such as `.endl`, ends the deck
(`spice.rs:198`); cells whose names differ only after a NUL
are read back as one (`gds.rs:241`); an orphan element goes into a structure
that is itself named `$ORPHAN_n` (`gds.rs:389`). The passing properties name
these cases where they exclude them: `NamedAsDevices`, `NulFree`, `NamesToldApart`,
`IsOrphanage`, `NamesNoOrphanage`, `LengthsFit`, `PromotedTwice`, `PlainSchema`.

## 5. What is proved

For every value of the constants, with no assumption but the typing of the
inputs (`DecksAssumption`, `BuiltAssumption` and `SpeltAssumption`, which admit
any name, `NoSubcktAssumption`, `PlainAssumption`,
`ValuesAssumption`, `StreamsAssumption`, `DocumentsAssumption`,
`QuickAssumption`, `PdkAssumption`, `CandidatesAssumption`, `PortsAssumption`,
`ConstraintsAssumption`, `NetlistsAssumption`, which `ReadsNetlists` and
`BuiltIsNetlist` show of what the reader and the builder give), that of the
builder's bounds (`BoundAssumption`: a number, of any size) and that of the
widths of bytes and numbers (`ByteAssumption`, `WidthsAssumption`), which say
what the code's 8, 53, 56 and 64 satisfy:

- **SpiceReaderProofs.** `TypeCorrect`, `OrderCorrect` (`OrderListsDefs`),
  `OpenCorrect` (the open subckt is defined: the code's "Safe: we inserted the
  def when we opened it"), `LinesCorrect` (`LogicalLinesClean`), `CardsKept`
  (`NoCardDropped`). The inductive invariant is the conjunction of the type
  invariant, `OrderListsDefs`, `OpenIsDefined` and `LogicalLinesClean`. None
  is inductive alone: the second pass may take the head of a logical line, and
  of a header, only because the first leaves no line empty; the order list stays
  in step with the map because a name is appended exactly when the map lacks
  it; a card has a body to go to because what is open is defined, and a
  redefinition replaces and never removes. `ReadsNetlists` (the netlist under
  construction satisfies `IsNetlist`) is a consequence.
  `WordsCorrect` (`WordsKept`), `CardsCorrect` (`CardsGoToTheirBlock`) and
  `OutcomeCorrect` (`OutcomeJustified`) compare what was read with the text.
  `WordsKept` is inductive by itself: a row adds its words at the end of the
  flattened lines, to the last line or as a new one (`FlattenAppend`). For the
  cards the invariant is `BlockInv`: `open` is the name of the block that the
  next line lies in (`BlockOf`, said of the logical lines alone), every
  definition has a header, and no mark read so far was one that ends the parse
  with an error. A card is then listed where its line's block says, and the
  earlier ones stay listed (`ListsMore`), or their list is replaced together with
  the header that it was said of. For the outcomes `TextInv` adds that each
  logical line begins with the words of the row it is numbered by.
  `PassesRunOut`: each step leaves fewer steps to be taken, of at most 2n + 3 for
  n rows, because no row begins two logical lines (`LinesWithinRows`).
- **SpiceRoundTripProofs.** `AcceptedBack` (`RereadAccepted`, the first
  part of `RereadKeepsCounts`), `CountsCorrect` (`RereadKeepsCounts`), `NetlistCorrect` (`RereadKeepsNetlist`) and
  `CardWordsCorrect` (`CardWordsKept`) of `RTSpec`: any decks, any names given to
  `from_devices` (the first three speak of a netlist only if `NamedAsDevices`
  holds of it), any number of promotions. The last needs no invariant but the
  types: the bag of the words that `write_device` writes is the card's
  (`DeviceBag`), since the words with a parameter's form and those without are a
  partition of what is left behind nodes and model (`CountOnly`). For the others
  the invariant `RTInv` has three parts beside the reader's own: what is held at
  any time can be written (`Legible`: no comment mark but perhaps in a built
  name, each definition under its header's name, directives that are
  directives); the text being read back is `ToSpice` of what was written, whose
  lines are its rows (`WrittenIsRead`: no row is a name that is not one word), and
  its logical lines are its rows from the second on, since each is taken whole
  (`TextReadable`, `StripRow`); and the place in the text determines what has
  been made (`Somewhere`: at a directive, at the header of a block, in a block
  behind so many cards, at a card of the top level). `TextIsWritten` says which
  line stands at each place, and one lemma takes each kind of line to the next
  place (`StepAtDirective` to `StepAtCard`), which leaves no step to an error.
  A definition that is begun has a name of its own (`NamesRead`), so that
  beginning it disturbs none that is whole. At the end each body is `WriteCards`
  of the one written: as long, and equal if its cards are well placed
  (`WellPlacedKept`); a header comes back as itself but for `params:`
  separators, of which `ParseHeader` takes no notice (`HeaderWords`).
  Words of a kind are picked by `Only`, a recursive function, because nothing is
  known to the provers of the library's `SelectSeq`; its lemmas (`OnlyAppend`,
  `OnlyConcat`, `OnlyAll`, `OnlyNone`) are proved once.
- **GdsReaderProofs.** `TypeCorrect`, `IndexCorrect` (`IndexMatchesCells`),
  `OutcomeCorrect` (`OutcomeJustified`). The inductive invariant is the types
  together with the agreement of index and cells. The one hard step is the
  orphan: the code takes `cells.len() - 1` after an `add_cell` that may have
  added nothing, and the index tells that there is a last cell all the same,
  because a known name has a place. `AddCellProperties` and
  `AddElementProperties` say what the library's operations keep, and also serve
  `add_rect`. `ElementsCorrect` (`ElementsCounted`) and `StructuresCorrect`
  (`StructuresHoldTheirElements`) compare the library with the stream read so
  far. Their invariant is `ContentInv`: the pending element is the one that the
  stream has open (`PendingOpen`), the current cell is that of the structure
  the stream is in (`CurrentStructure`), a structure in which an element ended
  has a cell (`StructuresKnown`), and an orphan's cell stands behind as many
  cells as its number tells (`OrphansNumbered`), so that the name the next
  orphan asks for is free. Then an ENDEL adds one to a single cell and one to the
  records that ended an element (`CountStep`), and the element's kind is listed
  behind those of its structure (`HoldStep`).
- **GdsRoundTripProofs.** `RereadCorrect` (`RereadKeepsLibrary`) and `LossCorrect`
  (`CutOnlyLoses`) of `RTSpec`: any number of rounds, of names, cells and elements.
  What is written is a function of the library, so that each record has a place:
  `CellStart` and `ElementStart` count the records before a cell and an element,
  and `Places` and `ElementPlaces` say what stands there. The invariant `RTInv`
  says for the reader at such a place what it has in hand (`Place`: the whole
  cells before it, the elements before it of its own cell, the part of the
  element that was described), and of every library that is built or read that it
  is `Sound`: index and cells agree, there are two units, and nothing is kept of a
  path or a reference, without which these would come back changed. One lemma
  takes each kind of record to the next place (`HeadStep` to `EndElementStep`). The
  hard part is a name: if two cells read back with one name, the cells are merged
  and only the number of elements is kept (`Holds`); if not, STRNAME makes a new
  cell behind those before it. A cut ends the read at a place, where the cells in
  hand are the beginning of all (`PartsAreCuts`).
- **CircuitBuilderProofs.** `TypeCorrect`, `FirstBinderOwnsAlways`,
  `BuilderKeepsPromise` (`Spec => KeepsPromise`: the refinement),
  `ErrorsLastAlways`. The invariant is `Found`, with a part for each loop: what
  the loop has reported is what is at fault in the part of the circuit before
  `(i, j)`, and each owned terminal is owned by the first net that names it
  (`OwnersFit`). A position in a list of lists is looked at row by row (`Grid`,
  `Upto`), which is the same argument for the terminals of nets and for the
  references of constraints. The hard step is the terminal (`BindStep`): a
  binding has a rival exactly if its terminal's owner is another net, and one at
  the most, since a terminal has one first binding (`FirstIsOne`); that is why a
  map with one owner finds every conflict. The parts then add up to the errors
  that CircuitPromise says of the whole circuit (`PromisedErrors`), and
  `TablesAgree` is what makes the warnings those of `intent_class`. For
  `ErrorsLast`, an edit lengthens the lists at their end, so that nothing comes
  before a binding that was the first of its terminal. `LoopsRunOut`: each step
  of a build moves the phase or an index on and leaves the circuit alone
  (`Advances`), and no index passes the end of its list (`IndicesInRange`), nor
  the inner one the end of the list that the outer one stands at.
- **FlowProofs**, of certificates. `LexLeTotalOrder`, `FeasibleFirst`, `LevelsAreGates`,
  `AcceptanceOrder`: what the run `certificates` checks for small counts, for
  hard vectors of any counts and gate vectors of any length. From them follow
  `RankingAlways` (`Ranking`) and `AcceptanceAlways` (`Acceptance`) of
  `CandidateSpec`, for every set of vectors and of certificates.
- **GdsBytesProofs**, of reals. `DecodeReturnsDouble`: rounding a mantissa leaves no more
  bits than a double has, though a carry may run through all of them. The
  invariant of the encoder is `ScalingExact` (while the loops run no bit is lost
  and the exponent makes up for the shifts): a bit's weight at the end is its
  weight at the start, from which `EncodingExact` follows when `Pack` finds
  nothing to round, since a scaled double's bits are all at least -Q.
- **GdsBytesProofs**, of bytes. `EncodingCorrect` (`EncodingExact`) and `CutCorrect`
  (`CutRefused`) of `ByteSpec`. `BytesInv` types the stream and the records;
  `FrameInv` says that `marks` are the ends of the records written, that at each
  stands the header of the next, and that a stream being read is a prefix of it.
  `ReadInv` is the induction: the reader's position is the mark of as many
  records as it has read. A cut inside a record then shows as a header that is
  short or a length that overruns, and nothing else can; the lemma `AtMark`
  gives what the reader sees at a mark.
- **GdsBytesProofs**, of payloads. `FramingCorrect` (`FramedExactly`). `StandInv` adds that
  the bytes after a header are its payload, `PendingInv` does so for the doubles
  of a record that is half written, `GotInv` that each record read is what was
  written. Its lemmas invert the writers: two's complement of two and four
  bytes, names that have no NUL whatever their padding (and the others to their
  first NUL), a mantissa from seven
  bytes, and `Decode` of what `f64_to_real8` made. `OverflowCorrect`
  (`OverflowShows`) needs `WholeInv`, that a stream nothing was cut off ends
  where its last record does: a read that ends well has then read the outline as
  it was written, whose sums may have wrapped once (`SumWraps`).
- **GdsBytesProofs**, of streams that are written again. `SettlingCorrect`
  (`RewritesSettle`), whatever stream was first read, for every width and any
  number of rounds. `RewrittenInv` says what is written from the second stream on:
  the `Document` of a name that has no NUL and was once told by a header, and,
  from the third on, of units that have a real. These come back as they are
  (`KeptTwice`: what a real decodes to is kept by the next encoding, rounding
  carries included), so that a reading that ends well has read what was written.
  A reading that does not end well writes nothing again: one case is a name of
  odd length whose padding no longer fits its header, which then tells zero, and
  the reader stops there (`StuckInv`). `NamesInv` is why the name has no NUL:
  what was read ended at one.
- **GdsBytesProofs**, of progress. `StreamRunsOut`: each step of the writer leaves
  fewer records, fewer doubles of one, or fewer passes of `f64_to_real8`; each
  step of the reader goes a header further, within the stream, or answers.
  `EncodeLeft` tells the passes by the greatest bit of a value: every pass moves
  it four places toward the range where packing begins, and never past it.
- **FlowProofs**, of the quickstart. `FirstFaultReportedAlways`, `WrongSummaryShowsAlways`,
  for texts of any length and integers of any width. `QuickInv` says that the
  cells are those of the rows read so far (`CellsAre`: as many, and the same
  coordinates), that no row read was faulty, and that the box bounds the cells
  looked at and touches one with each side (`BoxAround`). From the last, the
  box's sides are the greatest distances (`BoxSpreads`), at most 2 * Half - 1,
  and a sum of two of them that wraps once or twice is negative.
- **FlowProofs**, of the PDK reader. `PdkAsDeclaredAlways` (`PdkAsDeclared`), for
  schemas of any number of declarations and lists of any length, in both formats
  and with any lines of the TOML text commented. `KeyAt` says where a declaration
  stands among the tokens: behind the commas and the tokens of those before it
  (`MembersLaid`). What stands there is its key, a colon and the value
  (`KeyStands`), and a string that stands anywhere is a key or part of a value
  (`StringStands`), so that of a plain schema the scanner's first occurrence is
  the declaration (`KeyFound`). Then the token behind the colon is the number or
  the string (`ScalarRead`), and the next two brackets are those of the list,
  between which only its own strings stand, in their order (`ListRead`,
  `SaidInOrder`). Of TOML the same is said of lines (`TomlRead`).
- **FlowProofs**, of the flow. `FrontEndsImplementFlow` (`FrontSpec => Spec`) and
  `FrontEndsImplementQuickstart` (`FrontSpec => QuickSpec`) carry what is proved
  of the parts over to their composition. `HandlesFit` is the invariant: each
  handle and each result holds what the oracles give for its own netlist, the
  `Constraints` handle included, of which no property speaks and from which the
  other two are made. `StagesSawOneNetlistAlways`, `WaysAgreeAlways` and
  `NeverSignoffAlways` follow. `EmptyExactlyRefusedAlways` has the invariant
  `NetlistsFit`: a handle that was made by `analyze` is of a netlist with cards,
  whatever became of the circuit since, and a promotion leaves a netlist; a
  device count of zero then means that no list of cards, top or body, has one
  (`CountsDevices`). `FrontEndsAgreeAlways` has `ShownFit`: each thing shown is
  what its way of asking gives of its deck, the kept Python circuit being the
  promoted deck; promotion adds the first body to the count (`PromoteCounts`)
  and, done again, nothing (`PromotesNothing`).

Only model-checked: liveness (`Terminates`, `RereadSucceeds`, `BuildAnswers`,
`CallsEnd`), as fairness and ENABLED are out of these provers' reach. What can be
proved of it is: `PassesRunOut`, `LoopsRunOut` and `StreamRunsOut` say that the loops
of the reader, of `build` and of the GDSII streams take no steps for ever,
whatever their input (a rereading takes the reader's steps), and `AcceptedBack` that if the rereading
of a written netlist ends, it ends well. What is left to TLC is that a loop whose
end is not reached always has a step to take. The four properties that are
expected to be violated are TLC's as well. Every other property of a passing run
is proved.

## 6. What is left out

- The records of GdsReader and the bytes of GdsBytes are not composed: a record
  of the one is what `FramedExactly` says that the other gives. Names that are
  not ASCII are in GdsLibrary only. NaN and infinite units, which only a caller
  of `Gds::new` with such fields could give and no constructor takes.
- Escapes in JSON and TOML strings, and keys that are the beginning of others
  in TOML.
- Text: upper and lower case, white space, and what a word's characters are
  beyond the classes that the code matches.
- Configuration, weights, objectives and hints: they are passed to stages that
  do not read them.
- Evidence, witnesses, diagnostics and ledgers of the certificates: records that
  nothing reads yet.
- Layout inspectors and checks (`layout.rs`, `verify.rs`): stubs that answer a
  constant whatever they are asked. Units (`units.rs`): conversions of
  floating-point numbers, without state. Benchmarks. The engine crates: their
  libraries hold no code yet.

## 7. Plan

Done: SpiceCard, SpiceNetlist, SpiceReader, SpiceRoundTrip and their proofs;
CircuitPromise, CircuitBuilder and its proofs, Ports; GdsLibrary, GdsReader and
its proofs, GdsRoundTrip; GdsReal, GdsBytes and their proofs; Certificates;
Flow, Quickstart and PdkReader with their proofs, FrontEnds. Every property of the
passing runs but the liveness is a theorem.

Next, in this order:

1. GdsReader over the records that GdsBytes reads, as one specification.
2. `solve_with` and its hints, and the constraint payloads, when stages read
   them; the engine's stages, when there is code.
