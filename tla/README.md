# Solang: a verification project

Solang compiles Solidity to contracts for Solana (SBF), Polkadot and Soroban
(both wasm). This project follows a program through the compiler and into the
contract: how contracts and their bases are resolved, which type and which code
an expression gets, how a function body becomes a control flow graph and what
the passes make of it, how calls are encoded and dispatched, which accounts a
Solana function asks for, and how the memory and storage of the compiled
contract are kept. Two tools around the compiler are modelled as well: the
language server and the source formatter.

It consists of TLA+ modules, TLC configurations that check them on small
instances, and TLAPS proofs for every value of the constants. Paths below are
relative to the repository.

## 1. Inventory

| part | source | state it keeps | operations |
|---|---|---|---|
| memory heap | `stdlib/heap.c` | doubly linked chunk list in the contract's memory | `__init_heap`, `__malloc`, `__free`, `__realloc` |
| account data heap | `stdlib/solana.c` | chunk list of 32-bit offsets inside the data account, kept between transactions | `account_data_alloc`, `_len`, `_free`, `_realloc` |
| Solana storage code | `src/emit/solana/{target,mod}.rs` | offsets in fixed slots that point into that heap | `storage_store`, `_free`, `_delete`, `_push`, `_pop`, `_array_length` |
| Soroban bump allocator | `stdlib/soroban.c`, `src/emit/{binary,instructions}.rs` | cursor, limit, wasm memory size, size header per block | `soroban_alloc_init`, `soroban_realloc`; emitted `new`, element store, push, pop |
| Soroban values and data | `src/codegen/encoding/soroban_encoding.rs`, `src/emit/soroban/target.rs` | contract data of the host | Vals, wrappers, storage, authorisation |
| contracts, bases, calls | `src/sema/{contracts,functions,external_functions}.rs`, `src/sema/expression/{function_call,constructor}.rs`, `src/codegen/{mod,cfg}.rs` | namespace, virtual function tables, base arguments | resolve, construct, call |
| types and expressions | `src/sema/expression/`, `src/sema/eval.rs`, `src/codegen/expression.rs`, `src/emit/{expression,math}.rs`, `stdlib/bigint.c` | none | type, convert, generate, fold, calculate |
| statements and graph | `src/codegen/{cfg,vartable,array_boundary}.rs`, `statements/` | the graph under construction, dirty trackers, loop scopes, length temporaries | one per statement |
| passes | `src/codegen/{reaching_definitions,undefined_variable,constant_folding,dead_storage}.rs`, `subexpression_elimination/` | facts per block, work lists | analyses and rewrites |
| SSA construction | `src/emit/{cfg,instructions}.rs` | what each variable stands for, work queue, phis | one per instruction |
| ABI and dispatch | `src/codegen/encoding/`, `src/codegen/dispatch/`, `src/codegen/solana_deploy.rs` | the buffer, the compiler's knowledge of what was checked | encode, decode, dispatch |
| Solana accounts | `src/codegen/solana_accounts/`, `src/sema/solana_accounts.rs` | accounts per function, work list | collect, manage |
| language server, file resolver | `src/bin/languageserver/mod.rs`, `src/file_resolver.rs` | open buffers and caches under one async mutex, global definitions under another | notifications and requests |
| formatter | `fmt/src/` | output buffer, comment queues, context flags | one visitor per node, trial of a layout |
| parser | `solang-parser/src/` | none | productions, `Display` |
| not modelled | section 6 | | |

How they interact. The front end fills a namespace; code generation turns each
function into a control flow graph; `optimize_and_check_cfg` runs the passes
over it in a fixed order; emission translates the graph and links the C
library in. On Solana the accounts of all functions are collected after that.
In the compiled contract, the dispatcher decodes a call and runs a function;
emitted code calls `__malloc` and `__realloc` (Solana, Polkadot) or
`soroban_alloc_init` and `soroban_realloc` for memory, and on Solana
`account_data_*` for storage of variable length. The language server runs front
end and code generation in process whenever a buffer changes, shares the result
between handlers, and calls the formatter.

Where it is hard:

* *Long sequences of legal calls* (heaps, storage): a list that is split and
  merged in two directions, a tail without a length, blocks that move.
* *Limits and widths* (heaps, encoding, arithmetic): a full heap, subtraction
  that wraps, a length read from a message, products wider than a register.
* *Order and staleness* (passes, accounts, inheritance): blocks are visited in
  hash order, facts of several paths are merged, a list is read while others
  still add to it, a table is filled in the order of the bases.
* *Half-done work* (formatter, storage): a layout that is given up after it took
  comments from the queues, an allocation that fails after a free.
* *Interleaving* (language server): handlers give up a lock between reading the
  buffers and storing what they computed, wait for each other in several
  orders, and can be cancelled where they wait.

The hazards, each at its line and with the properties that would catch it, are
in `PROJECT.json`.

What makes each part correct: an allocator hands out disjoint blocks inside its
arena and loses no byte that a program wrote; stored values read back after any
sequence of transactions and nothing leaks; a compiled function has the outcome
that the language gives its source, with and without the passes; an analysis
ends, in every order; exactly the calls that the bytes of a message mean are
run; a client that passes the accounts of the IDL can run the function; a
virtual call runs the most derived function and a base is constructed once;
the language server ends up with the editor's text, answers about the right
object and never deadlocks; the formatter changes neither program nor comments.

## 2. Modules

### The compiled contract

**Allocator** is the abstract specification: a slot may get, move or give up a
block of bytes; blocks lie in the arena and are disjoint.

**Heap** (`heap.c`). `chunk` maps the address of every chunk to its header
(`next`, `prev`, `length`, `allocated`); `mem` holds the words of the arena, so
that headers, copies and the program's own stores can clobber each other;
`live` is what the program holds. An action is a whole call: `Malloc`,
`MallocFails`, `ReallocInPlace`, `ReallocMoves` (with the `__free` of the old
block inside), `ReallocTraps`, `ReallocFails`. `HdrSize` is 16 on wasm and 24
on Solana; `NullTraps` tells whether a store through NULL aborts. The arena is
fixed and so is the set of request sizes. **HeapProofs** holds the theorems
about Heap (section 5).

**AccountData** (`solana.c`) is the C functions as operators from one content
of the account to the next, on 32-bit words, with arithmetic modulo `U32`.
**SolanaStorage** extends it with the emitted storage code for a `string`, a
`uint64[]` and a `string[]` variable, one action per Solidity statement. A
statement whose allocation fails reverts the transaction. **AccountDataProofs**
holds what the C functions do to a heap that is in order, and
**SolanaStorageProofs** the theorems about the storage.

**SorobanAlloc** (`soroban.c` and the emitted array code). `pages`, `g_cursor`
and `g_limit` are modulo `U32`; a byte of memory carries the value it is a part
of; `want` is the history of what the program put into each array. `new` of an
array, element assignment, push and pop are actions; a refused `memory.grow`
ends the behaviour, because nothing says what a contract may do after it.
**SorobanProofs** holds the theorems about it.

**Abi** (`encoding/mod.rs`, Borsh and SCALE): sizes, encoding, packed encoding,
and the rule that copies a value as a block when its layout has no padding.
**AbiDecode**: the reads of the decoder over a buffer that may be anything, and
`BufferValidator`, which leaves out the checks that an earlier one covers.
**Soroban**: Vals, contract data, authorisation. **Dispatch** composes the
three: a caller sends (`Send`, `SorobanSend`, `EncodePacked`), bytes may change
on the way (`Tamper`), the dispatcher of the target runs a function or refuses,
the function returns, the caller receives. `Compiles` says which Soroban
contracts the compiler gets through: it panics on some structs that are stored or
loaded as a whole (section 4).

### The compiler

**Inheritance** has one action per phase of the compiler (bases, declarations,
functions and bodies, base arguments, code generation contract by contract) and
then the deployment and the calls of what was generated. Contracts are created
with `new C()` and, on Solana, with `C.new()`, which is checked elsewhere and
less. A walk over creations that does not end leads to the phase `overflow`; a
loop of code generation that goes round is a behaviour that stays in `codegen`.

**Types** (`cast`, `coerce`), **Resolve** (one operator per
resolver function, with the source's names), **Lower** (code generation),
**Fold** (constant folding on that code) and **Machine** (what the emitted
instructions and `bigint.c` compute on bit patterns) are composed by
**Expressions**: a declaration is resolved, generated, folded and run, folded
and not, next to the value that the language gives it.

**Cfg** is the representation that the following share, with the table of dirty
trackers. **Solidity** is the resolved syntax tree and the meaning of a
function body; **Statements** translates it; **ReachingDefs** is the analysis
and the check for undefined variables; **ConstantFolding** and **Cse** are
passes; **EmitCfg** the construction of single assignment form, and its
execution. **Codegen** composes them: `Translate`, one action per block of the
work list, the check, the passes, the emission, then a call, block by block.
The two modules on folding look at different things: ConstantFolding at paths
and definitions with one type, Fold at every operator and width without paths.

**DeadStorage** (`dead_storage.rs`). State variables are the worklist and
`block_vars` of the analysis, the position of the scan, `redundant_stores`, and
then the registers and storage of two executions, of the original and of the
rewritten graph, in lock-step. `Analyse(b)` is one round of the worklist and
picks any block, as the hash set may; both passes of `apply_transfers` are
there. Storage expressions are literals (a state variable) and a literal plus a
variable (an array element).

**SolanaAccounts**: semantic analysis gives a function its own accounts, then
contract by contract the work list adds those of builtins and callees, then the
metas of calls are written. `WellFormed` says what semantic analysis lets
through; `Needs` says, from the call graph alone and without the work list, what
a function needs. **SolanaAccountsProofs** holds the theorems about it.

### The tools

**LanguageServer**. A handler is a small program whose steps are the stretches
between two awaits; the two mutexes are queues, fair as tokio's are; texts are
version numbers, and an incremental edit applied to another version than it was
made for garbles the text; each version of a file defines structs of its own
number. `caches` remember the snapshot they were computed from. Requests can be
cancelled at any await. A namespace is the file that is parsed with all it
imports. A parse numbers the structs of its namespace file by file in the order
of loading, so an edit of one file renumbers those of the files after it;
`definitions` maps a number to the range of the definition, which is a text and
a place in it, and to the parse that it is from; `extend` keeps the entries of
other parses.
**LanguageServerProofs** holds the theorems about it.

**FormatBuffer** is what every visitor writes through: buffer, comment queues,
chunks, and the trial of a layout that is taken back. **SourceTree** gives the
nodes of the parse tree the locations of the grammar's productions.
**Formatter** has one operator per visitor. **TreeDisplay** prints a tree as
`helpers/fmt.rs` does, and has the lexer: `Read` takes the text apart again into
lexemes, where words without a space between them are one word, signs are the
longest there are, a comment separates, and a line comment hides the rest of its
line. **Formatting** composes them, and compares what is read from the file
before and after, and the comments.

`MC...` modules give the constants of a specification their small values,
families of programs and views; Heap, SolanaStorage and LanguageServer have
their symmetry, view and workspaces at the end of the module and are run as they
are.

## 3. Runs

| run | instance | shows |
|---|---|---|
| `heap` | 3 vectors, arena of 240 bytes, 24-byte headers, sizes 8, 20, 48, 100 | `TypeOK`; `HeapTiled`: chunks partition the arena, both directions of the list agree; `Coalesced`: no free neighbours; `SlotsOwnChunks`; `DataIntact`: nothing a vector holds is lost; `AllocatorSpec`: refinement of Allocator |
| `heap_null_store` | 2 vectors | *violation* of `NoNullStore`: `__free` stores through a null `next` |
| `solana_storage` | string, uint64[], string[] in an account with a heap of a few chunks | `ListWellFormed` (what `validate_heap` of the tests asserts), `ChunksOwnedOnce`, `StorageReadsBack`, `ShrinkStays` |
| `soroban` | an array of bytes and one of 8-byte words, 4 pages of 32 bytes, 8-bit addresses | `DataIntact`, `AllocatorSpec` |
| `dispatch` | contracts for the three targets | `SizeExact`: the size computed is the size written; `InsideBuffer`: no read past an end; `RunsWhatIsMeant` and `RefusedMeansNothing`: what runs is what the bytes mean, what is refused means nothing; `EndToEnd`: arguments, results and contract data arrive |
| `inheritance` | families of programs of 2 to 4 contracts | `CallsHaveCode`: no accepted program panics; `RunsMostDerived`; `ConstructedOnce`; `CompilerEnds` under fairness |
| `expressions` | 150,000 declarations with boundary values | `KeepsMeaning`: a value is the one the source means; `RevertsExactly`; `FoldingAgrees` |
| `codegen` | nine families of function bodies, each with and without the passes | `SameOutcome`; `DefsComplete`: the definition a value comes from is among those that reach; `UndefinedRefused` |
| `dead_storage` | straight-line functions of 4 instructions on state variables and of 3 on elements, diamonds and loops of stores | `Preserved`: same values loaded, same storage at every call and return; `Terminates` under fairness |
| `solana_accounts` | all call graphs of 4 functions, two contracts that call each other | `AccountsExact`: the accounts of a function are those it reaches; `IndexesFound`; `CallableFromIdl`; `Converges` under fairness |
| `lsp` | three workspaces, 4 messages, 3 handlers at a time | `UpToDate`, `NewestCacheStays`, `GotoRight`, and `AllHandled` under fairness |
| `formatter` | a small file per construct, three widths, three layouts, comments in every gap | `SameProgram`, `CommentsOnce`, `PrintsBack` |

Each property of a passing run has a mutant in `PROJECT.json`: a plausible slip
in the modelled code that breaks it under the same configuration.

### Bounds

* `heap`: the arena holds three to seven chunks, so every case of split, no
  split, merge with either neighbour, with both and with none occurs, and
  requests fail. The sizes contain one that is not a multiple of eight and one
  that leaves less than a header.
* `solana_storage`: the account is small enough that an allocation finds the
  tail, a free chunk of the right size and a larger one, and fails.
* `soroban`: `U32` is 256, and lengths 190 and 252 exceed the memory without
  and with wrapping around.
* `dispatch`: a byte has four values (`Base`), so that `U32` is 256 and the
  compact lengths of SCALE change their form at 1 and 4: sums that wrap and all
  three forms are met by short buffers. Addresses have 2 bytes and
  the fixed part of a data account 3, so that an account is too short, exact
  and longer. Messages arrive intact, with one byte or word of any value, cut
  short, or one byte longer; the memory behind the buffer holds bytes of 1. On Soroban, integers take
  the values at the ends of each width; one contract each for types, variables,
  and mappings with a struct of three fields that is copied as a whole, and for a
  struct with a 128-bit field that is stored as a whole and read by members.
* `inheritance`: parameters 0 or 1; a diamond with a function, a modifier and a
  constructor at each corner is the smallest program in which every order of
  bases differs. `Fuel` = 4 bounds the depth of calls. Three contracts and an
  abstract base create each other in every way, so that creations form chains,
  cycles of two and three, and go through a base.
* `expressions`: a limb has 3 bits and a byte 2, the widest integer 12, so that
  a product has four limbs and a carry can pass one; `Native` and `Half` place
  the limits of the machine's own division and the library's two forms between
  the widths. All pairs of types, the values at their ends.
* `codegen`: words are 0 to 9, with two parameters, a return variable, two local
  variables and two arrays; nine families cover each kind of loop with `break` and `continue`,
  operators that branch, and expressions computed on one and on both paths.
  `Fuel` = 8 iterations bound the outcome of a body.
* `dead_storage`: a redundant load or store is about two accesses with
  something in between, which four instructions and one join or back edge
  cover. Two values suffice: one is stored where the other one was.
* `solana_accounts`: a chain of three calls and a cycle of two are the shortest
  on which the order of the work list matters; in both orders of the contracts.
* `lsp`: two concurrent edits of one file and one of the imported file are the
  shortest way to a stale cache; a file with no to two structs that imports one
  with no to two, both opened, edited and closed around a request, is the
  smallest in which numbers shift and an answer may name another struct.
* `formatter`: a construct at a time, because visitors nest through the same
  few operations of FormatBuffer. Widths of 4, 12 and 40 lexemes (8 and 40 with
  comments) make each layout fail, fit in part, and fit.

Views leave out bytes that no variable owns; no action reads
one into a place it owns and leaves it there.

### Fairness

`LanguageServer!Fairness` is weak fairness of every handler's next step and of
the service reading the next message: tokio polls a woken task eventually, and
its mutex is first come, first served. The editor is under no obligation.
`DeadStorage!FairSpec` is weak fairness of the pass, and the specifications of
SolanaAccounts and Inheritance have weak fairness of the next step: each is a
loop in a single thread that nothing else waits for. The other modules state
safety only; `SameOutcome` bounds the steps of a compiled function instead.

## 4. Disagreements between code and documentation

`heap_null_store`: after merging with the next chunk, `__free` merges with the
previous one and writes `next->prev` without testing `next`
(`stdlib/heap.c:72`). Solana traps; wasm writes into low memory. The list itself
stays intact, which is why `HeapProofs` goes through for both.

The following were met while modelling. The passing runs keep to programs
without them; each is a boundary of what a run shows.

Storage and memory
* Assigning to a `string[]` that is not empty frees its chunk and then
  reallocates it (`src/emit/solana/target.rs:1007`); `Reassign = TRUE` in
  `SolanaStorage.cfg` shows it as a violation of `ListWellFormed`.
* `vector_new` drops the element size on Soroban (`src/emit/binary.rs:1079`), so
  `new` of an array of words is too small.

Dead storage (`src/codegen/dead_storage.rs`)
* Merging two paths revives a definition that a store killed on one of them
  (162; test `tests/codegen_testcases/solidity/dead_storage.sol:15`).
* The scan goes by block number, and a load in the head of a loop does not keep
  the store of the body (547; "make sure that reachable stores are not
  eliminated", `dead_storage.sol:27`).
* Variables loaded from storage are compared by the slots they came from (650),
  so `arr[a]` and `arr[b]` are taken to differ although a and b may be equal.
* Only an external call that keeps `success` forgets the storage (248), while
  the comment says "A constructor/external call can call us back".

Statements and passes
* `do-while` enters a loop scope and never leaves it (`statements/mod.rs:282`),
  so a later `break` of an enclosing loop goes to the wrong block.
* `while` and `for` translate their condition before they open the dirty tracker
  (336 and 349, 501 and 517), so a variable that the condition assigns has no
  phi; a conditional in `return` opens a tracker that is never closed (806); a
  `for` without a condition whose body never ends leaves its step block empty.
* `uint unused = i++` loses the increment when the variable is never read: the
  list of side effects omits increments (`unused_variable.rs`).
* The result of `pop` on a memory array defines no variable for reaching
  definitions (`reaching_definitions.rs:158`), and a block whose definitions are
  empty on both sides does not pass its successors on (65).
* The temporaries for array lengths are per function, not per path
  (`docs/code_gen_options.rst:137`).
* Common subexpressions: `a + a` is keyed with equal operands
  (`available_expression_set.rs:472`); the intersection of two paths keeps an
  expression that one of them has invalidated; `instantiated` is kept per
  expression and not per path; a checked addition may be hoisted to a path that
  does not evaluate it.

Types and arithmetic
* Shifts by the width or more are LLVM poison; `-x` and `~x` of a variable in
  storage or memory; conversions between `int` and addresses of another size.
* A negative literal whose magnitude has a multiple of eight bits gets a type
  that is too small (`y > -200` compares with 56); constants that overflow in a
  comparison are cut without an error (`src/codegen/expression.rs:46`); the
  overflow check looks at the outermost folded value only.
* A balance is unsigned and yet sign-extended to a wider unsigned integer
  (`src/sema/expression/mod.rs:668`): MCExpressions leaves out balances with the
  top bit set.
* Folding: a sign extension of a negative literal to an unsigned type stays
  negative; literals of bytes, enum and value types reach `unreachable!()`
  (`constant_folding.rs:675`). `INT_MIN / -1` is not checked.

Encoding and dispatch
* `decode_struct` validates a field at the offset of the one before it
  (`encoding/mod.rs:1325`).
* The size in memory of `uint24` is taken to be 3 while 4 bytes are read, and
  that of an external function ignores that selectors have 8 bytes on Solana.
* The width of a compact length is that of the product of all dimensions
  (`scale_encoding.rs:443`, with a FIXME); longer forms than needed are
  accepted; functions without parameters ignore what follows the selector.
* Soroban: `encode_i128` looks at the top byte of the low word only
  (`soroban_encoding.rs:699`), so 2^64 is encoded as 0, while
  `docs/targets/soroban.rst:14` says "For cases where the type does not fit in
  the 64-bit integer, the Val contains a pointer to the data"; 64-bit integers
  lose their top byte; `decode_i128` reads a small negative Val as positive;
  `decode_i256` traps on a small Val; the inner key of a nested mapping drops
  the outer one; `soroban_decode` reads one `uint64` whatever the types; two
  return values become Void; `requireAuth` on a storage variable loads from an
  uninitialised one.
* Soroban structs: `decode_struct` hands every field on as a load of `uint64`
  (`soroban_encoding.rs:1362`), and `decode_i128` and `decode_i256` match on that
  type and reach `unreachable!()` (881), so the compiler panics on a struct with a
  128- or 256-bit field that is loaded as a whole; a string field of one that is
  stored as a whole is taken for a literal and panics likewise (336).

Accounts (`src/codegen/solana_accounts/`)
* "Enforce the data account to be the first" (`account_collection.rs:107`) is
  done before collection and only for functions whose own body touches storage;
  one that does so through a callee has its data account behind the declared
  ones, while the code takes account 0.
* `check_mutability` returns at once for a virtual function
  (`src/sema/mutability.rs:128`), which then has no data account of its own.
* Convergence counts names (163) and `transfer_accounts` skips a known data
  account (523): flags that arrive later are lost.
* The loop may stop if "the queue for the next iteration does not have any new
  element" (`account_collection.rs:161`): what is compared are the lengths of two
  queues (164). In the first pass a function without calls may leave the queue and a
  callee in another contract enter it. If nothing was added either, the loop
  stops with that callee unvisited. It takes a constructor with a `@payer`, which
  has the system account already, that calls a function of a later contract which
  needs `clock` only through a function it calls, and one function without calls
  beside it; the constructor then lacks the account, and the unwrap of
  `account_management.rs:137` fails on it. The attempt to prove `AccountsExact`
  led to it, and TLC confirms it for
  `<<WithPayer(Fn(1, "constructor", <<Ext(3, "absent", FALSE)>>), TRUE),
  Fn(1, "public", <<>>), Fn(2, "external", <<In(4)>>),
  Fn(2, "internal", <<Instr("clock")>>)>>` of MCSolanaAccounts. Every other
  external call adds the system account to its caller in the first pass, which is
  what keeps the loop going.
* `new C{accounts: ...}` with a default constructor unwraps a missing account;
  Yul functions are looked up by a number of another table (152, 222).

Inheritance
* `A.f()` on an abstract base's unimplemented function is accepted
  (`function_call.rs:221`) and emission panics; `super` picks the virtual
  function of the lowest number of a base (`docs/language/contracts.rst:213`), and
  a function that is not virtual is found once for every base that inherits it
  (245), so that `super.f()` over two levels is refused as ambiguous (430).
* On Solana, `C.new{...}()` inside of C passes: `solana_constructor_check`
  (`expression/constructor.rs:722`) has no check for the current contract as `new`
  does (46), and the loop of code generation then waits for C to be done before it
  starts with C, for ever (`src/codegen/mod.rs:237`). It also records a creation
  that it has refused as circular (750). The error itself stops code generation
  (228), but the next creation that is checked walks the cycle until the stack
  overflows: contracts A and B that create each other with `.new()`, and a third
  that creates A. Both are violations of `CompilerEnds`; `SolanaCreating` of
  MCInheritance leaves them out.
* Base arguments given both in the list of bases and by a derived constructor
  are refused as duplicates for contracts in between; a diamond has to list the
  shared base.
* `add_external_functions` skips initializers of base contracts, modifiers of
  libraries and base arguments (`external_functions.rs:14`), and code generation
  panics on a library call there (`src/codegen/expression.rs:3374`).
* `verify_unique_selector` compares with the first holder only; two overriding
  overloads share a mangled name.

Language server and formatter
* "`def_path` paired with `def_type` sufficiently proves uniqueness as no two code
  objects defined in the same file can have identical `def_type`"
  (`languageserver/mod.rs:89`), but the index in `def_type` counts over a namespace,
  and the definitions of several namespaces and of older texts are merged (164). A
  later parse, from another file or of an edited text, may give the number to
  another struct, and goto answers with that one. With `range` compared
  unconditionally in `GotoRight`, TLC finds it in three messages and without an
  edit: `main`, which imports `lib`, is opened, then `lib`, and goto is asked in
  `main`. What `GotoRight` says holds: the answer is there, it is no older than
  the reference, and the two locks of the handler are not to blame.
* The formatter writes a sign and a signed operand without a space
  (`fmt/src/formatter.rs:2581`), so `- -x` becomes `--x`, and MCFormatting keeps to
  operands without a sign. It drops annotations of parameters, the `unchecked` of
  a branch without braces, and a comment at the end of a file without a line end;
  it writes a dangling else without the braces of the inner `if`, and `for (...);`
  with an empty block (`fmt/src/formatter.rs`; `fmt/tests/formatter.rs:97`
  asserts that the trees are equal).
* `Display` (`solang-parser/src/helpers/fmt.rs`): bases without `is`, absent
  elements of lists, `- -x` as `--x`, `constant` functions as `view`, an empty
  named revert. `PrintedOtherwise` in Formatting lists them.

## 5. Proofs

Five components are proved for every value of their constants. The runs check
the same definitions on small instances.

### HeapProofs

For every arena, header size, request size, set of slots, and for both kinds of
null store:

| theorem | statement |
|---|---|
| `HeapInvariant` | `Spec => []IInv` for the inductive invariant |
| `HeapTiledThm` | the chunks partition the arena; `prev` is the inverse of `next` |
| `CoalescedThm` | no two free chunks are neighbours |
| `SlotsOwnChunksThm` | a chunk in use belongs to exactly one slot |
| `HeapTypeOK` | the state is well typed |
| `HeapDataIntact` | what a vector holds is what the program stored, after any sequence of calls |
| `HeapImplementsAllocator` | `Spec => Allocator!Spec` under the mapping that sends a slot to its block |

Assumptions: `HeapAssumption` in Heap (sizes are naturals, arena and header are
multiples of eight, everything fits the word size).

Argument. Tiling is stated locally: every chunk ends where the next one starts
or at the end of the arena, `prev` points back, and no chunk starts inside
another. Splitting, taking and freeing a chunk are operators on the list, and
for each a lemma says that it preserves the list invariant; a realloc is a
composition of them, so its step cites lemmas only. Coalescing is not
inductive without tiling (merging needs to know that the neighbours are
adjacent), nor is ownership without both: a freed chunk disappears into its
neighbour, and the invariant has to say that no slot points there. Refinement
needs that the capacity of a chunk covers the request it was given for.

`HeapDataIntact` is about the words. A call writes inside the chunk that it
takes or shrinks (`WritesInside`), that chunk is apart from every chunk in use
(`LiveOutside`, from tiling), and the copy of a realloc that moves covers what
the program keeps: the new chunk is disjoint from the old one, which is still in
use while it is copied. The header words that a split or a merge writes are in
free chunks or in headers, never in a payload.

### SorobanProofs

For every page size, number of pages, word size, element size and set of slots:

| theorem | statement |
|---|---|
| `SorobanInvariant` | `Spec => []IInv` |
| `SorobanDataIntact` | every array has the length and the elements that the program gave it |
| `SorobanImplementsAllocator` | `Spec => Allocator!Spec`: arrays are disjoint and inside the memory |

Assumptions: `SorobanAssumption` (types of the constants) and
`HostMemoryAssumption`: the memory the host grants, twice, is below the range of
a pointer. The host limits a contract to far less than 4 GB; without the
assumption `cursor + size` wraps around in `soroban_alloc` before it is compared
with the limit. The theorems carry the hypothesis `NewIsExact`, that the arrays
made with `new` have elements of one byte or are empty: `vector_new` passes the
number of elements where bytes are meant (section 4), and for wider elements the
statement is false. Arrays of any element size that grow by `push` are covered.

Argument. `IInv` says that every array lies below the cursor, the cursor below
the limit, arrays are apart, and that an array's header, length word and
elements hold what `want` says. The header matters: `soroban_realloc` copies as
many bytes as it says, so without it the contents of a moved array cannot be
inferred. A step writes at the cursor or above, or inside one array.

### AccountDataProofs and SolanaStorageProofs

For every size of account, place of the heap, number and place of the slots, and
lengths of strings and arrays:

| theorem | statement |
|---|---|
| `StorageInvariant` | `Spec => []Inv` |
| `HeapAlwaysWellFormed` | `ListWellFormed`: the heap is always as `validate_heap` asserts |
| `NoLeakNoDangling` | `ChunksOwnedOnce`: the chunks in use are those that variables and elements point at, one each |
| `StoredIsRead` | `StorageReadsBack`: every string, integer and element reads as it was stored |
| `ShorterStays` | `ShrinkStays`: an array that gets shorter and not empty stays where it is |

Assumptions. `AccountDataAssumption`: the account consists of words, the heap
starts behind the account header, and twice the account is below the range of
`uint32_t`; `SolanaStorageAssumption`: the slots are distinct and lie before the
heap, and the account together with a string or array is below that range too.
Solana limits an account to 10 MB and a contract's memory to far less, and
`solana.c` says "We don't expect the account data to exceed 4GB". `MaxChunks`
is at least the number of headers that fit, so that it never cuts a walk short.
The theorems carry the hypothesis `~Reassign`: a `string[]` that is not empty is
not assigned to as a whole, because that code uses a chunk that it has freed
(section 4). Everything else on such an array, `push`, `pop`, `delete` and
assignment to elements, is covered.

Argument. `Inv` says that there is a set of chunks `C` with

* `Chain`: the chunks are linked in the order of their offsets, both ways, with
  room for their lengths, and the last one is free and has length 0. It is
  stated chunk by chunk; the walk of `account_data_alloc` visits exactly `C`
  (`WalkFacts`).
* `NoFree`: no two free chunks are neighbours.
* `Own`: the keys own the chunks in use, one each, with the length and contents
  that the program stored. A key is a slot, or the negated number of an element
  of the `string[]`; an element's offset lies inside the array, so a key, and not
  the address of the offset, stays the same while the array moves.

None of the three is inductive alone. `account_data_realloc` grows into the next
chunk and inserts a free one before the chunk after it, which leaves no free
neighbours only because there were none; a call keeps the payload of the others
only because the list is ordered; and the offsets of elements survive only
because the chunk that holds them is owned by the array.

AccountDataProofs reduces the C functions to two changes of the list, *join* (a
chunk swallows what follows it) and *insert* (a chunk is cut off), and shows for
each that order, free neighbours and the payloads of the other chunks in use are
kept. SolanaStorageProofs composes the calls: each operation is a list of
lemmas that give up a chunk, gain one, or change the offset in a slot. The loops
over elements and the walk are inductions, made with the least index for which
the statement would fail (`Smallest`).

### LanguageServerProofs

For every set of files, imports, numbers of structs, messages and handlers:

| theorem | statement |
|---|---|
| `LanguageServerInvariant` | `Spec => []IInv` |
| `LanguageServerUpToDate` | when all handlers have returned, text, cache and diagnostics of every open file are those of the editor |
| `LanguageServerNewestCacheStays` | no cache is replaced by one of an older snapshot |
| `LanguageServerGotoRight` | `goto_definition` finds a definition; no parse is merged into those of its file between its two locks; it is no older than the reference, and if it is from the same parse it is the struct that was asked for |

Assumption: `LanguageServerAssumption` (types of the constants). That mutexes
are first come, first served is part of the model (`Request`).

Argument. `IInv` is a conjunction of:

* `TypeOK`; `Requests`: every handler that waits for `files`, or keeps it, has
  exactly one request, and the holder's is the first; `Tasks`: what a handler at
  work does is what its message says.
* `TextsFollow`: the requests that will set a text, in the order of the queue,
  followed by the messages in the inbox, lead step by step from the server's
  text to the editor's, each edit made for the text that the one before it
  leaves. This is where the order of the mutex counts. It is stated over
  neighbouring messages, so that taking the first or adding a last one changes
  one link.
* `InOrder`: parses wait for their second lock in the order of their snapshots,
  and no cache is newer than a snapshot that waits. `NewestCacheStays` follows.
* `ResultsFollow`: when no message about an open file is outstanding, the newest
  parse that still has to store has its text, or if there is none the cache and
  the diagnostics do. `UpToDate` is the case with no handler left.

`GotoRight` has no hypothesis on the workspace: edits may add and remove structs,
and parses number them as they like. It needs two invariants besides. `Waiting`
is about the second mutex: who waits for it while holding `files` waits last, so
behind a handler that carries a reference there may be a merge, and before it
there is none. `GotoInv` says that

* each definition is the struct that its parse numbered so (`DefinitionsMade`),
  and the parses under way have snapshots of their own time (`ParsesApart`);
* what a cached text numbers has its definition, from that parse or a later one,
  unless the parse, which holds `files` until then, is about to merge it
  (`CachesMerged`);
* a reference carried from one lock to the other has its definition, and those of
  its file are as they were (`Asked`, `FoundMade`).

A handler that reads a cache holds `files` itself, so nobody is about to merge. A
merge replaces a definition by one of its own parse, which is newer than all
merged before it because the parses take `files` in the order of their
snapshots. That two structs of a parse have different numbers is a count of those
ahead of them (`AheadCounted`).

### SolanaAccountsProofs

For every program that semantic analysis accepts, with any number of contracts,
functions, declared accounts and instructions, and any calls between them:

| theorem | statement |
|---|---|
| `TypeCorrect` | the lists name accounts, the queues hold functions of the program |
| `NothingSuperfluous` | at every moment, an account is listed, writable or signing only because something that the function reaches needs it to |
| `Fixpoint` | the work list of a contract stops only when another visit of its functions, or of what they call, would add nothing |
| `ExactAccounts` | `AccountsExact`: the accounts of every function are exactly those that it needs |
| `MetasAlwaysFound` | `IndexesFound`: the unwraps in `manage_contract_accounts` never fail |
| `StorageIsFirst` | a function of the IDL that touches storage in its own body, and every constructor, has its data account first |
| `StorageIsWritable` | of one that stores, and of every constructor, the first account is the data account and writable |
| `StorageNeverBehind` | `DataAccountFirst`, the first half of `CallableFromIdl`: no function of the IDL lists the data account anywhere but first |

Assumptions: `ProgramsWellFormed` and `IdentsNotReserved` (`account_declaration`
refuses the names of builtin accounts). `TypeCorrect`, `NothingSuperfluous`,
`StorageIsFirst` and `StorageIsWritable` have no further hypothesis. `Fixpoint`,
`ExactAccounts` and `MetasAlwaysFound` carry `PayersCallNoOther`, that a
constructor with a `@payer` does not collect the accounts of another contract,
and `MetasAlwaysFound` also `DefaultsCollect`, that no default constructor is
called with an accounts argument; `StorageNeverBehind` carries `StorageAtHand`,
that a function of the IDL which reaches storage within its contract touches it
itself. Without them the statements are false (section 4). Functions of every
other kind may call and construct other contracts in any way, constructors with
a `@payer` among the callees.

Argument. `AddedBy` gives the names that an instruction adds, from the names in
the callees' lists; `CheckFunctionFacts` says that a visit of a function adds
those of its instructions, counts exactly when one is new, and queues the
function and its callees if it calls any. Soundness is then one invariant,
`AllJustified`, kept by every addition, because what a callee needs, with its
data account renamed, is among the caller's needs. `Chains` is shown to be the
least reflexive and transitive relation with the given links (`ChainsFacts`).

Completeness is `Collecting`. A pass that converges has counted nothing, so all
that it visited is closed: another visit adds nothing. That alone is not
inductive, since a callee in another contract may not have been visited at all.
The invariant therefore names a set `D` of settled functions, closed and calling
only each other, which contains the contracts that are done, and says of the pass
at hand:

* in the first one (`FirstPass`), a function outside `D` that is still to be
  visited and calls another contract has no system account yet (`Fresh`), so its
  visit counts: if nothing was counted, nobody outside `D` calls another contract,
  and `D` with the contract is settled;
* in a later one (`LaterPass`), every function in the queue was put there by one
  in the queue, so the next queue contains this one. The code compares lengths
  only, and as neither has an element twice, equal lengths are equal queues
  (`SameElements`), which is closed under calls.

The functions added to `D` are those of the contract and the last queue; after
the last contract `D` is the program, and `ClosedHasNeeds` gives every need.

The place of the data account is `StoragePlaced`: a function that touches storage
has exactly one, and it is the first once the function's contract was started.
It holds before as well, because the functions of a later contract are visited as
callees of an earlier one. An insertion replaces in place or appends, so it never
moves the account (`InsertPlaces`), and the flags of an account that is merged
are those of both (`Granted`). That no other function of the IDL gets a data
account is `NothingSuperfluous`: it would need one. The loops over instructions and accounts are recursive functions; a lemma
(`Recursion`) gives their existence and `UpTo` the inductions.

### Only model-checked

* Liveness (`AllHandled`, `Terminates`, `Converges`, `CompilerEnds`), which needs
  fairness and `ENABLED`.
* The second half of `CallableFromIdl` of SolanaAccounts, `WritesAllowed`: what a
  function has written by its callees is listed as writable. It is false for some
  programs (section 4), and the run checks it for programs without them; what a
  function stores itself is `StorageIsWritable`.
* The compiler (Codegen, DeadStorage, Inheritance, Expressions), the encodings
  (Dispatch) and the formatter, whose operators walk trees and graphs with
  RECURSIVE definitions.

## 6. Not modelled, and why

* Symbol tables, mutability, events, using directives, and the checks of
  statements: one case per construct, with no state beyond the namespace.
* Inline assembly, try-catch, revert reasons: code generation of their own,
  case by case. The low-level IR: nothing in the pipeline uses it yet.
* Strength reduction and vector to slice: passes that are still on the plan.
* Metadata, linker, command line, documentation, Graphviz output, the editor's
  client: input and output without a state that later steps read.
* Emission of strings, hashes and printing; Polkadot's storage, one entry of the
  host per slot; the hash table of Solana mappings.

Inside the modelled parts:

* DeadStorage leaves out storage push and pop, storage bytes, hashed slots,
  arithmetic in slots other than base plus index, result variables of calls,
  and types.
* SolanaStorage leaves out structs, fixed arrays, arrays of arrays and mappings.
* SorobanAlloc leaves out `soroban_malloc` for structs, `soroban_alloc_align`,
  `soroban_realloc_with_old` and the empty `soroban_free`. Soroban leaves out
  time to live, `requireAuth`, printing, literals of strings and addresses,
  nested mappings and events.
* Abi leaves out slices, storage references and the encoding of constants.
* Codegen has one unsigned type and no calls, storage or structs; Expressions
  has all the types and no statements; Inheritance has calls and neither.
* SolanaAccounts leaves out bases, virtual calls and Yul functions. Inheritance
  leaves out named arguments, external calls and several source files.
* LanguageServer leaves out the contents of hovers and scopes; a place in a text
  is the version and which struct of it, and edits do not change what a file
  imports.
* Formatting leaves out indentation, regions turned off by `forgefmt` comments,
  the wrapping of comments, block comments of several lines, empty lines,
  rewritten numbers and strings, sorted imports and the options for them. Of the
  parser, operator precedence and error recovery are left out.

## 7. Plan

1. Solana mappings (`sparse_lookup`) and structs in SolanaStorage.
2. DeadStorage: storage push and pop, and hashed slots.
3. Known bits of `strength_reduce` against arithmetic on small widths, and
   vector to slice on ReachingDefs.
