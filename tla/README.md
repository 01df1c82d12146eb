# A verification project for asm6809

asm6809 is a multi-pass cross assembler for the Motorola 6809 and Hitachi 6309.
It reads a program once, then assembles it over and over until nothing moves.
Almost everything that is hard in it comes from that loop: a pass works with
symbol values and section addresses that an earlier pass left behind, and the
program's own course (conditions, sizes of instructions, places of sections)
depends on them.  There are no threads, no network and no persistent state; what
is hard is *feedback*, *order* and *stale values*.

The modules are translations of the C source under `src/src`; `PROJECT.json`
names the lines each definition stands for.

## The system

| Component | Source | State | Operations | Interacts with | What makes it correct |
|---|---|---|---|---|---|
| Pass driver | `asm6809.c` main(), `error.c` | `error_level`, pass number, list of messages | begin a pass, end it, decide to repeat, output or fail | calls assemble_prog(), section_set(), section_finish_pass(), the output functions | terminates; outputs only from a clean and consistent pass; fails only with a reason |
| Line assembler | `assemble.c` | current line, pass, `cond_list`/`cond_excluded` per activation, program depth | one handler per pseudo-op, conditional assembly, instructions, macro expansion | evaluates expressions, sets symbols, drives sections | every line has its whole effect or is skipped; labels get the address of their line |
| Sections | `section.c` | a dictionary of sections, each a list of spans, two addresses, the ends of the last pass | select, emit, skip, ORG, PUT, end of pass, coalesce | called by the line assembler; read by output and listing | no write outside a buffer; every byte at its address; sections follow each other |
| Symbols | `symbol.c` | symbol table, tables of local labels per section | set, look up, back and forward references | evaluator, labels | a symbol has one value per pass, and a moved one is noticed |
| Expressions | `eval.c`, `node.c`, `interp.c` | the stack of macro arguments | evaluate a node to a number, string or register | symbols, sections (`*`) | types and arithmetic as documented; a symbol means what it stands for |
| Instructions | `instr.c`, `opcode.c`, `register.c` | none | choose an addressing mode, emit bytes | sections | the shortest form that is known to reach; what the processor reads is what was written |
| Programs | `program.c`, `grammar.y`, `lex.l` | parsed files and macros, a stack of contexts | parse a file, define a macro, include, expand | line assembler | contexts nest; a macro holds the lines between MACRO and ENDM |
| Output | `output.c` | none | binary, DragonDOS, CoCo, S-record, Intel HEX | coalesced sections, `.exec` | a loader that reads the file gets the bytes that were assembled |
| Listing | `listing.c` | list of lines, each with a span and an address | note a line, print | line assembler, sections | the bytes printed are those of the line |
| Containers | `dt101/*.c` | lists and dictionaries | | everything | the sort of the spans is a sort |

### What is hard

* **Feedback between passes.**  A direct address is shorter than an extended
  one, and which one is used depends on where a label is, which depends on the
  sizes before it.  Such a system need not settle; the loop is cut at
  `max_passes`.
* **Stale values.**  Forward references read what the previous pass wrote;
  a section starts where its predecessor ended in the previous pass; a section
  that is not selected any more keeps the code of an earlier pass.
* **Order of reports.**  `error_level` is one number; one kind of report lowers
  it, so the order of reports in a pass matters.
* **Any order of lines.**  A program may contain any sequence of IF, ELSE,
  ORG, PUT, SECTION, MACRO..., well formed or not.
* **Boundaries.**  Buffers grow in steps, addresses are 16 bits wide and
  signed in one place and unsigned in another, offsets have four widths and a
  length that depends on the width.
* **Values of many types.**  Integers, floats, strings, registers, lists,
  nothing, and *not known yet*, which every handler must bear.

`PROJECT.json` lists each at its line, with the property that is about it.

## Modules

| Module | Models | State, and what it is in the code | Actions |
|---|---|---|---|
| `ErrorLevels` | `enum error_type`, verror(), main()'s tests | none: operators `Raise`, `Failing` | |
| `SectionOps` | operations of `section.c` on one section, ORG, PUT, RMB | none: operators from section record to section record | |
| `Sections` | the section store over several passes | `sections` (dictionary), `cur` (`cur_section`), `sequence` (`span_sequence`), `pass`, `level`; as history, the pass each span was begun in (`begunIn`) | `BeginPass`, `SetSection`, `Emit`, `Rmb`, `Org`, `Put`, `FinishPass` |
| `SectionLog` | *abstract*: a log of bytes per section and pass | `written`, `place`, `of` (the pass a log is of), `pass`, `cur` | `Write`, `Move`, `Resume`, `Restart`, `NewPass` |
| `Listing` | `listing.c`, on top of `Sections` | `listing` (`listing_lines`), `doing` (the line whose handler is running, and its `old_pc`) | `ListBegin`, `StartLine`, `GoOn`, `EndLine` (the calls of section_emit() a line makes, then listing_add_line()), `ReserveLine`, `OtherStep` |
| `CondOps`, `Conditional` | IF/ELSIF/ELSE/ENDIF of one program | `cond` (`cond_list` and `cond_excluded`, a position in it) | one per kind of line, `BadCondition`, `EndProg` |
| `CondSpec` | *abstract*: nested selection | `ifs` | `Open`, `Branch`, `Close` |
| `SymbolOps` | setting and comparing symbols | none: operators | |
| `Assembler` | main()'s loop around assemble_prog() | `symbols`, `exec` (the symbol `.exec`), the section store, `cond`, `level`, the next `line`; as history, what was reported, read, placed and ended in the pass (`seen`, `stands`, `uses`, `tested`, `follow`, `ended`) | begin and end of a pass, the decision, one action per kind of line |
| `LocalLabels` | the tables of local labels | `locals`, `numbers` (`line_number` of each section), the section store, `saved` (`old_section` of each INCLUDE); as history, the labels and references of the pass and the place each line of the first pass was met at (`trail`) | `CodeLine`, `SectionLine`, `IncludeLine`, `EndInclude`, begin, end and decision |
| `Programs` | files, macros, their nesting | `stack` (`prog_ctx_stack`), `macros`, `defining`, `defCtx` (`defining_macro_level`, `defining_macro_ctx`), `depth`, `args` (`interp_stack`); as history, the places the pass and the first one have been at (`trace`, `first`) | one per kind of line, `EndProg`, `BeginFile`, `NextPass`, `LastPass` |
| `Coalesce` | section_coalesce_all() and the merge sort of `slist.c` | `spans` (the list), `at` (the position of `l`) | `Truncate`, `Join`, `StepOver`, `Finish` |
| `Output` | the five formats, after `Coalesce` | `records` written, `out`, `base`, `exec`, `stage` | `Open` or `OpenFails`, `Coalescing`, `WriteBlock`, `WriteSpan`, `WriteChunk`, `NextSpan`, `Close` |
| `Operands` | evaluated nodes, and their conversions | none: a node is a record of type, attribute and value | |
| `Indexed` | indexed operands: the table `indexed_modes` and instr_indexed(), instr_indexed2() | none: operators from nodes to an outcome (form, bytes, report) | |
| `Instructions` | the other handlers of `instr.c` | none | |
| `DataOps` | the pseudo-ops that make data | none | |
| `Decoder` | *reference*: what the processor reads in a postbyte, from its documentation | none | |
| `Encoding` | assemble_prog()'s choice between the handlers | `pc`, `dp`, the `line`, its outcome `out` | one per handler |
| `Expressions` | `eval.c`, `node.c`, `interp.c` | `symbols`, `stack` (`interp_stack`), the last trial | `Equ`, `Call`, `Leave`, `Evaluate` |

`MC*` modules give the constants their values for TLC; `*Proofs` hold theorems.

`Assembler` composes `SectionOps`, `SymbolOps` and `CondOps`; `Sections` and
`Conditional` use the same operators alone, driven by *any* sequence of
operations, more than a program could ask for.  `Listing` adds to each step of
`Sections` what the line notes.  `LocalLabels` shares `SectionOps`, `Programs`
shares `CondOps`, `Output` extends `Coalesce`, `Encoding` and `Expressions` share
`Operands`.  Where one module leaves something to another it is a free choice:
what a condition evaluates to in `Conditional`, the size of an instruction in
`LocalLabels`, whether another pass follows in `Programs`, the program counter
and DP in `Encoding`.

Conventions.  A dictionary is a function, a list a sequence, a pointer into a
list a position (0 for `NULL`).  In the section store a byte is the address it
was assembled to; which bytes a line consists of is `Encoding`'s matter.
In `Assembler` an expression is a symbol plus a number: enough for forward
references and for feedback.  Variables marked *history* only record what
properties speak of; no action's guard reads them.  Operators named after a
mistake (`FilledLate`, `ArgsForgotten`, ...) stand before the definition they would
replace; each shows that a property can be violated.

### What the abstract specifications say

* `SectionLog`: a section is a place and the log of the bytes written there in one
  pass, each at the place the section had when it was written.  A log is begun
  afresh once in every pass that selects its section (`Restart`, and `NewPass` for
  the first one), kept whenever that pass comes back to it (`Resume`), and written
  in no other pass.  `Sections` implements it: spans, their buffers, and their
  continuation over ORG, PUT, RMB and changes of section are only a representation
  of that log.
* `CondSpec`: a line is assembled when every IF around it selects its current
  branch; an IF selects at most one.  `Conditional` implements it with a list of
  three states and one pointer.
* `Decoder`: a postbyte and what follows it name a base, a step, an index
  register, an offset and whether they are indirect.  `Encoding` is checked
  against it: no row of `indexed_modes` is read back as something else.

### What is abstracted

* A float is an exact fraction; the integers of `Expressions` have a range of
  2^14 and a least value of their own (`IntMin`), characters one of 128
  (`CharRange`), so that the ends of each range occur.
* A node's attribute (`<`, `>`, `++`, ...) belongs to the place it is used at.  In
  the code nodes are shared, and an attribute is written into the shared node;
  each use sets it again except for a register's signs, which the grammar gives
  to registers written out only, and node_equal() does not look at attributes.
* The table of opcodes is data: a line's opcode is which addressing modes it has
  and how long it is.
* Addresses are scaled down in the section store and the assembler
  (`AddrLimit`, `PageSize`, `RelRange`, `AllocStep`) so that pages, ends of memory
  and full buffers occur in programs of a few bytes; only the order of these
  constants matters to the code, and the proofs hold for all their values.
  `Encoding` has the real widths.  Program counters and counts of RMB are integers
  that do not wrap at the ends of C's `int`.
* A float that FCB and its kin are given is converted to an `int32_t`, one that has
  no such value to the least (`TruncatedTo`), as the hardware does where C says
  nothing; `DataAsDocumented` speaks of the others.

## Runs

`tlc -config <cfg> <module>` in this directory.  All pass without error unless a
violation is announced.

| Run | Configuration | Shows | Bounds |
|---|---|---|---|
| `sections` | `MCSections.cfg` | buffers are never overrun; spans are maximal, ordered, and all begun in the pass their section was last selected in; `SectionLog` is implemented; every line that made code is listed with exactly that code, one of data that PUT has located elsewhere with none | 2 sections, 2 passes, 3 operations a pass, writes of 1 or 2 bytes into buffers that grow by 2, lines of up to 3 writes, 4 addresses, 4 counts of RMB: a span grows past its first buffer, and addresses are negative and beyond memory |
| `conditional` | `MCConditional.cfg` | at most one branch is assembled; ENDIF ends the right exclusion; `CondSpec` is implemented | 9 lines, 3 levels: an IF inside and outside an excluded IF, with two further branches each |
| `assembler` | `MCAssembler.cfg` | output comes only from a clean and consistent pass; sections follow each other, by address and by place; the execution address is that of the last END; failure has a reason; every program is assembled or refused | every program of up to 3 of 22 lines, and longer ones (chains of forward references, oscillation, sections of unsettled size, nested conditions), 6 passes; 16 addresses, pages of 8 |
| `local_labels` | `MCLocalLabels.cfg` | 1B and 1F reach the nearest label, in any pass; refusal has a reason | every program of up to 3 of 11 lines, 3 longer ones with nested INCLUDEs, 10 that resume the section an included file ended in; 4 passes |
| `programs` | `MCPrograms.cfg` | contexts nest; bodies are as written; passes meet the same lines; nothing half done is left unreported; recursion ends | every file of up to 3 of 17 lines and 5 longer ones, with each of 5 second files; depth 3 (8 in the code), 2 passes |
| `output` | `MCOutput.cfg` | coalescing loses and moves nothing unreported, in whatever order the sections are met; in every format a loader gets each byte at its address; checksums are right | up to 3 spans of up to 3 bytes in every position across a page boundary, some at the end of memory; records of 2 bytes (32 in the code), bytes of 3 bits |
| `encoding` | `MCEncoding.cfg` | what is encoded is read back as written; the shortest form is chosen; branches reach; operands not known yet are borne | every register, step, index and prefix with offsets on both sides of every width, direct, indirect and relative to the program counter; every handler; 3 program counters, two of them at the ends of memory, 2 direct pages and none |
| `expressions` | `MCExpressions.cfg` | types are as documented; arithmetic obeys its laws; comparisons are total; a symbol can be written out; what is undefined is reported, and nothing else | every operator on every pair of 20-odd values of every type, and nested in a second one; symbols from an earlier pass, defined, or not; one macro call |

The bounds are small because the interactions are: in the section store an
operation concerns the current section and at most one other, so two are enough
(`assembler` has three, for one resumed between two others); a symbol
that moves does so between two passes; three spans are the fewest of which a cut
one has a neighbour on both sides; a line's encoding depends on nothing but the
line, the program counter and DP, so that one line is enough for `encoding`.

### What the documents say and the code does not do

Each run below is expected to end in a violation; the counterexample is the
evidence.

| Run | Configuration | The document says | What happens |
|---|---|---|---|
| `stale_section` | `MCAssemblerStale.cfg` | README: a false condition's code "will be skipped" | a section that only the first pass selected keeps its code; it lies apart from all other code, so that nothing is reported, and is output |
| `assertion` | `MCProgramsAssertions.cfg` | the assertion at program.c:168 | a definition ended by a faulty ENDM, and a second one never ended, leave two contexts above the file's and abort the assembler |
| `zero_pcr` | `MCEncodingPcrZero.cfg` | tests/isa6809-indexed.s:89: `cmpu $f0d9,pcr` reaches the address it names | `0,PCR` becomes an offset of zero *from* the program counter (instr.c:294) |
| `reserved_listed` | `MCSectionsReserved.cfg` | README: a listing has the "generated code" of each line | a line that reserves memory up to where an earlier span ends is listed with that span's bytes (assemble.c:493) |

More were met and have a configuration to be run by hand, each violated as well:

| Configuration | Property | |
|---|---|---|
| `MCSectionsRelocated.cfg` | `CodeListed` | README:88, the sentence `reserved_listed` is about: behind a PUT that parts the two addresses a data line is listed without the code it generated, the program counter being compared with the span's end in put addresses (assemble.c:493); instructions are listed.  `ListingShowsCode` says which lines these are, and that all others are listed with their code |
| `MCAssemblerRange.cfg` | `RangeFatalOnlyIfConsistent` | error.h:45: out of range "is considered fatal at the end of a pass only if no inconsistencies were found"; an inconsistency reported *after* it lowers the level (error.c:50), one reported *before* it does not, and the pass fails with passes left |
| `MCAssemblerDocs.cfg` (with `-continue`) | `SectionsDisjoint` | README: "sections will follow each other in memory in the order they are first defined"; one placed after a section that was resumed overlaps another |
| the same | `ConditionsResolved` | a condition is decided in the last pass on a symbol that is defined after it, for the first time; nothing asks for another pass (symbol.c:102) |
| the same | `ExecAssembled` | README: an excluded line "will be skipped"; the execution address of an END that only the first pass met is output |
| `MCOutputLater.cfg` | `LaterOverwrites` | section.h: "later code overwrites earlier code"; the span at the higher address wins |
| `MCProgramsFiles.cfg` | `FilesAsOne` | an IF may not be closed in the next file (assemble.c:568) |
| `MCProgramsLate.cfg` | `PassesAlike` | INCLUDE under a condition that only a later pass meets (assemble.c:950) |
| `MCLocalLabelsShared.cfg` (with `-continue`) | `BackrefsPrevious`, `LabelsDistinct` | README: 1B is "the previous" label; in a later pass it is the label of its own line, or one that shares its number; of two labels that share a number one is lost (assemble.c:664).  The properties that hold (`BackrefNearest`, `FwdrefNearest`) exclude shared numbers by name (`SharesNumber`) |
| `MCEncodingForward.cfg` | `NameMayBeForward` | the file name of INCLUDEBIN "may be a forward reference" (assemble.c:954), but is refused at once |
| `MCExpressionsStrings.cfg` | `BitwiseReturnsInteger` | README: bitwise operators "return an integer"; of two strings they do not |
| `MCOutputFull.cfg` | `SizesAnnounced` | a block of 64K is announced as empty (output.c:90) |

Smaller ones were met while translating; the models have them as they are, and no
property speaks of them:

* `last_put` is refreshed only when the program counter moved (section.c:146):
  behind a section whose put address alone moved the next is placed from where it
  was.  PUT does that, and so does an ORG to a symbol that was negative in an
  earlier pass, even though it no longer is: the program counter keeps its low 16
  bits only, and may end where it did.  `PutFollows` is about programs without
  (`NeverParts`);
* after an overlap padding leaves two spans (section.c:195), and the binary format
  writes the first only (output.c:56); the overlap was reported, though, and
  main() ends with a failure;
* two ENDs with operands, by way of an included file, are refused when the first
  pass meets both, and accepted when a later one does (assemble.c:1031);
* a register where an address is due is assembled as extended, with the program
  counter for an address (instr.c:440); `#` and a register gives 0; AIM with a
  string for its mask gives 0; a bit operation whose register is a number keeps
  the postbyte it began with (instr.c:639);
* `[,X+]` is encoded, as a postbyte the processor takes for `[,W]`;
* `0,W` takes 16 bits of offset where `,W` has none;
* the warning that a long branch could be short is off by one at the ends;
* strings are refused by FDB, RMB and ORG, which take a number; README:209 says
  that a string will do wherever a number does;
* a local label in a condition still reports an inconsistency, as symbols there
  do not;
* a string as the condition of `?` makes the whole undefined, without a report
  (eval.c:550);
* a remainder by zero ends the process (eval.c:497): the model's `Crash`, which
  the properties leave out.

### Deadlock and fairness

The assembler is a program that ends, so deadlock is not checked; that it ends
is a property instead (`Terminates`, `Closes`).  Those runs assume weak fairness
of the next-state relation and nothing else: main() runs in one thread and never
waits, so as long as a step remains it is taken.  No single action is assumed
fair.

## Proofs

`*Proofs` modules hold theorems that TLAPS checks; they hold for every value of
the constants that satisfies the assumptions named in the modules:

* `SectionConstants` (`SectionOps`): the size of memory and the step by which
  buffers grow are positive, the default direct page is an integer;
  `SectionsConstants` (`Sections`): a call writes no more than that step (the
  longest write in the code is 4 bytes, the step 128);
* `AssemblerConstants`: the first section is one, there is a limit of passes, a
  page is no larger than memory; `ProgramsAreLines`: programs are sequences of
  lines, of any length and number;
* `ProgramsConstants`: the limits of depth and of passes are positive; files are
  sequences of lines, of any length and number, and the files of the command line
  exist.  `Steady` (`ProgramsProofs`), a hypothesis of three theorems: no condition
  of the files first holds in a later pass.  It is no property of the code but of
  a source, and they fail without it: `MCProgramsLate.cfg` shows an
  INCLUDE that only the second pass meets, and by the same way a MACRO that only a later pass
  meets, of a name it knows, can stay unfinished without a report;
* `LocalConstants`: programs are sequences of lines of the four kinds; a SECTION
  line names a section;
* `InputsAreSpans` (`Coalesce`): spans have an address and at least one byte;
  `OutputConstants`: the size of a record fits the byte that holds it, and bytes
  are bytes.  `InMemory` (`OutputProofs`), a hypothesis of the two theorems about
  files: the spans end within memory.  The code does not refuse a PUT beyond it, an
  S-record's address then having five digits, and a block of all of memory has
  size 0 (`MCOutputFull.cfg`);
* `OperandConstants` (`Operands`): the ranges of a character and of a word are
  positive; `EncodingConstants`: addresses are integers, arguments are evaluated,
  characters are bytes, and, as in the table of opcodes, no other extended type than
  the immediates and `imm8_mem` has addressing modes besides; `GarbageHeld`
  (`Instructions`): an uninitialised integer holds something.

| Module | Theorems | Argument |
|---|---|---|
| `SectionsProofs` | `TypeCorrect`, `BuffersSufficient`, `SpansAreWellFormed`, `Refinement`; `ListingRefines`, `ListingCorrect` | the invariant `SectionInv` says of each section that every span holds bytes and no more than are allocated, that no span continues the one before it, and that numbers grow along the list and are below `span_sequence`, and that all were begun in the pass the section is in (`begunIn`); the bounds alone are not inductive, since whether a buffer is enlarged is decided from the program counter (`FilledSpan`), which is the end of the buffer only while the span continues.  For `Refinement` (of `SectionLog`), `BytesIn` a list of spans grows at the end both when a span is added (`SpanAdds`) and when the last one grows (`GrowthAdds`), and a span grows only if the section stands at its end; the pass in a section's record is the pass its log is of.  A listing (`Listing`) only adds a variable, so the same invariant holds; a span that a line was noted with keeps its place and only grows (`Grown`) until its section is selected in the next pass, which is after listing_free_all() |
| `ConditionalProofs` | `TypeCorrect`, `BranchesExact`, `ExclusionCorrect`, `Refinement` | `History` relates each level of the list to what has been assembled of its IF; `Nested` says that levels inside an excluded one are not the one that excludes; from the two, each line is a step of `CondSpec` or a stutter |
| `AssemblerProofs` | `TypeCorrect`, `ConsistentOutput`, `SectionsFollow`, `PutsFollow`, `ExecIsResolved`, `OutcomeIsJustified` | each part of the invariant is conditional on the level not failing: `Steady` (what was read is what symbols have), `Placed` (a section stands at its predecessor's last known end), `Aimed` (the execution address is a value that was read), `Clean` (nothing failing was reported); for failures `Reported` says that a level of out-of-range means a report of it that no inconsistency of the pass followed (`stands`, by `RaiseStands`); a line (`LineStep`) that breaks one reports it, and `Clean` keeps the report although verror() may lower the level; at the end of the pass `Settled` turns last known ends into ends; for `PutsFollow`, `Unparted`: no symbol is negative where no operand is, so the two addresses of a section, and the two it is remembered by, stay one |
| `LocalLabelsProofs` | `BackrefsAreNearest`, `FwdrefsAreNearest`, `RefusalsJustified`, `PlacesAlike` | `OnTrail`: every pass meets each line at the place of the first, so labels have the numbers they had (`LabelsOf`) and numbers grow along the lines (`Rising`); `TableOf`: a table holds the labels of this pass and the one before and no others, the latest of a number; so a search backwards sees no label still to come but one that shares the number (`BackFinds`).  Forwards it reads the pass before: `Steady` says that, while nothing was reported, those are the values set again |
| `ProgramsProofs` | `ArgumentsAreTheirs`, `MacrosAreAsWritten`, `ContextsAreNested`, `PassesGoAlike`, `LaterPassesSettled` | `Sound` (types, and `Stacked`: the depth and the arguments are those of the active contexts) holds whatever is reported; `Clean` says that while nothing was, an unfinished macro can only be on top (`Nest`); `Bodies` follows the definition under way line by line (`Recorded`) and keeps the finished ones (`Written`, by `Frozen`).  For passes alike, `After` gives the place that follows a place when only finished macros matter; `FirstPass` and `LaterPass` say that a pass's `trace` is a chain of such steps from the same start (`Chain`), and the lines met on the way are those of macros that are finished by the end of the first pass (`Upto`, `OnTheWay`), so that two chains of equal length end at the same place |
| `OutputProofs` | `SortSorts`, `BytesStay`, `OverlapsNoticed`, `SpansMerged`, `BytesLoaded`, `RecordsAddUp` | the sort by a least counterexample, first over the turns of slist_merge()'s loop, then over lengths of runs; `Coalesces`: while nothing was reported each byte begun is where it was put (`Present`) and spans behind `at` do not meet (`Separate`); the zeros of padding lie below all that is still to come (`ZerosBelow`) and the span at `at` ends with a real byte, of an input that began no later than what is to come (`LastReal`), so that what is reported is an overlap of two inputs (`Noticed`); both need the list to be in order (`Strict`); `Outputs`: what `out` has passed is in the records, whatever is left to write (`Stored`, `Progress`) |
| `EncodingProofs` | `BranchesReach`, `AddressesKept`, `IndexedIsKept`, `FormsAreShortest` | `BInv` says of the line encoded that its last byte or two, added to the address after them, are the target modulo 2^16, for every program counter and target, or that no byte would be; `Addressed`, that past the immediate byte the outcome is an address's bytes (`AddressRead`), which an outcome of indexed addressing, told apart by its form (`IsIndexed`), is not asked to be; `Came`, that an indexed outcome is what instr_indexed() makes of the operand (`IndexedOutcome`), and no other handler has one (`OtherForms`).  The first row that fits is one that fits (`FirstFits`), each row is of one of six kinds (`TableRows`), and the bytes of each kind, read again, are what was written (`Written`): for that a postbyte is taken apart (`PostbyteParts`) and a distance is carried around the 2^16 addresses (`NearDistance`, `FarDistance`).  A row with bytes of offset is chosen only where those before it do not fit (`FirstNeeds`), and what fewer bytes can say is bounded (`OneByteBrief`, `NearOnly`): `NotTooLong` |
| `HandlerProofs` | `RegistersAreKept`, `UndefinedIsTolerated`, `DataIsAsDocumented` | `DInv`: what the line came to is what its own handler makes of it, at the program counter it still has (`OwnHandler`).  Registers: a byte made of a set of bits has each of them and no other (`ByteBits`), a pair of nibbles either (`TwoNibbles`).  Not known: every handler that waits, given as many arguments as it takes, reports no more than a warning (`Borne`), operand by operand (`OneAddress`, `TwoAddress`, `PairBorne`, ...).  Data: what each argument becomes by its type (`FormattedNumber`, `FormattedString`), and what is made of lists one after the other: lists are joined one by one (`Run`), so that the type (`RunType`), the place of every second byte (`FlattenedWords`), two rows of equal lengths (`FlattenedBeside`) and the presence of each byte (`FlattenedContains`) go from one to the next (`OneByOne`); ALIGN by C's remainder and its sign (`RemainderIs`, `PaddingIs`) |

Only model-checked: liveness (`Terminates`, `Closes`), which these provers do not
do, and the four properties of `Expressions`.  Its operators on bits are those of
`Bitwise`, and a node is evaluated by recursion over the node (`Eval`): that the
values of an operator's operands are well-formed nodes, which all four rest on,
takes induction over nodes of any depth.  Both are beyond the provers.

What the proofs need of a recursion is written as a recursive function, and that
there is such a function is proved too (`TurnsExist`,
`SortExists`, `SumsExist`, `AddsExist`, `RunExists`).

## Not modelled

* **Parser** (`grammar.y`, `lex.l`): a generated parser has no state of its own to
  speak of; the lines it delivers are the inputs of the models.  Its END rule,
  which stops reading a file at the END line, is why an END in `Assembler` stands
  for one in an included file unless it is the last line.
* **program.c** apart from contexts and macros: exports, and the rewriting of a
  macro's text with its arguments (the pasting of text is in `Expressions`).
* **Symbol lists and exports** (`symbol.c`): copies of the table, sorted and
  printed.
* **The message list** (`error.c`): printing only; its level is in `ErrorLevels`.
* **The layout of the listing**, columns and blanks; what is printed is modelled.
* **Options** and the freeing of memory (`asm6809.c`): straight-line code.  The
  option for the execution address is a free choice in `Output`.
* **Running out of memory**: xmalloc() ends the process.
* **The table of opcodes** (`opcode.c`) is data: whether each byte in it is the
  processor's is not a question of behaviour.
* **`dt101/`** apart from the sort: lists and dictionaries are sequences and
  functions.
* **`gnulib/`, `m4/` and build files**: vendored portability code, which is most of
  the repository by lines (about 26,000 of 33,000) and no part of the assembler's
  logic; this is why the lines that the modules stand for are few beside the
  repository's.  Of `src/src` they are most of the files that hold its logic
  (`instr.c`, `eval.c`, `output.c`, `assemble.c`, `section.c`) and half of
  `symbol.c`; the rest of `src/src` is the constructors of `node.c`, the table of
  opcodes, the options, and the parser.

## What could follow

* Macro expansion and local labels in one model: a label in a macro's body has
  the line number of the body.
