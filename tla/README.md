# Verification of nodejs-polars

nodejs-polars is a DataFrame library for Node.js.  A TypeScript layer (`polars/`) gives
programs `Series`, `DataFrame`, `LazyFrame`, `Expr` and readers and writers; a Rust layer
(`src/`, napi-rs) wraps the native Polars library in the classes `JsSeries`,
`JsDataFrame`, `JsLazyFrame`, `JsExpr`. Polars itself is a dependency, outside the
repository: what the two layers rely on is modelled from how they use it.

This directory holds TLA+ modules of the parts whose correctness depends on sequences of
steps, of the way values and arguments take through the two layers, the TLC runs that
check them on small instances, and proofs for every value of the constants.
`PROJECT.json` lists runs, the lines each definition models, hazards and theorems.

## Inventory

| Component | State | Operations | What makes it correct |
|---|---|---|---|
| Line batcher (`polars/io.ts`, `LineBatcher`) | `#lines`, `#accumulatedLines`, the transform's queues | `_transform`, `_flush`, under Node's `pipe` | no byte lost, repeated or reordered; batches are whole lines |
| Stream readers (`readCSVStream`, `readJSONStream`) | kept batches, line counter, a promise | `'data'`, `'end'` handlers, early abort | the promise settles, once, with the stream's own bytes, whole records |
| Series and DataFrame objects (`series/index.ts`, `dataframe.ts`, `series.rs`, `dataframe.rs`, `set.rs`) | references to shared native columns, copied on write | constructors, copies, renames, growth in place, column replacement; every other method as a call | a program sees values: no write reaches another object; frames stay rectangular under distinct names |
| Lazy frames and group-by (`lazy/`, `groupby.ts`, `lazy/dataframe.rs`) | a plan with optimisation switches; a group-by that is consumed | plan builders, `collect`, `fetch`, `agg` | plans are values; a query's outcome is that of its call; every promise settles |
| Output to streams (`dataframe.ts`, `file.rs`, `dataframe.rs`) | a stream's queue, a BufWriter, a file, collected buffers | `writeCSV`, `writeJSON`, `writeParquet`, `writeAvro`, `writeIPC` | bytes arrive in order, once; what returns is the whole frame |
| Construction from JavaScript values (`internals/construction.ts`, `series.rs`, `list_construction.rs`, `conversion.rs`, `dataframe.rs`) | the Series that is built | type inference, coercion, casts, lists, rows of objects | an element for every value, with the dtype asked for; what does not fit is null |
| Data types (`datatypes/`) | none | equality, conversion to and from native types | conversions agree in both directions |
| Typed getters and dispatch (`series/index.ts`, `series.rs`) | none | index wrap-around, narrowing, dispatch by type | the value read is the one stored; the native function exists |
| Expressions (`lazy/expr`, `lazy/functions.ts`, `whenthen.ts`, `dsl.rs`) | a native expression | builders, in plain and options form | a declared call reaches its native function with all its arguments |
| Namespaces of Series and Expr (`str`, `lst`, `date`, `struct`) | none | delegation to native methods or to an expression | as for expressions |
| Readers and functions of the module (`io.ts`, `lazy/functions.ts`, `functions.ts`) | none | readers, scanners, `col`, `lit`, `concat`, ... | options reach the native reader under the name it reads |
| Declarations, errors, module loading (`types.ts`, `shared_traits.ts`, `index.ts`) | none | declarations; platform dispatch | the declared calls are the ones implemented |
| Configuration and string cache (`cfg.ts`, `lib.rs`) | process-wide switches of the native library | set, unset | frames made under one setting work together |

How they interact: a TypeScript object holds one native object (`_s`, `_df`, `_ldf`) and
calls it synchronously; results are wrapped in a new object.  Two native objects may share
columns through reference counts, which is how objects that a program takes for
independent affect each other's steps.  The stream readers register callbacks that Node
runs between other work, some of them synchronously inside the batcher's own loop; a
writer calls JavaScript's `write` from inside a native call.  `LazyFrame.collect` runs on
another thread.

What is hard here: callbacks in the middle of a loop; state carried from one chunk to the
next; ending a stream that is still being written; calls that fail half-way and leave a
change behind; writes in place to shared data; loops of native calls that are meant as one
operation; objects consumed by a call; a worker thread that reads what the program goes on
writing; a sink slower than its writer; and, in the wide and stateless part of the API,
arguments that travel by position or by a name nobody checks, and values that are narrowed
several times on their way.  The list, with lines, is `hazards` in `PROJECT.json`.

## Modules

| Module | Models |
|---|---|
| `LineBatcher` | class `LineBatcher` and the Node streams around it |
| `CsvStream`, `JsonStream` | `readCSVStream` and `readJSONStream`, each composed with `LineBatcher` |
| `StreamRead` | abstract: what a reader of a stream promises |
| `ByteRuns` | `Buffer.concat` as a sequence of byte positions |
| `CsvStreamPromise`, `JsonStreamPromise` | the refinement mappings to `StreamRead` |
| `FrameValues` | what operations on columns and frames compute, as operators |
| `ColumnStore` | Series and DataFrame objects over shared, copied-on-write columns |
| `ValueStore` | abstract: every variable holds a value of its own |
| `Plans` | query plans as values: steps, switches, the outcome of a query |
| `LazyFrames` | `LazyFrame`, `LazyGroupBy`, `collect` and `fetch` over `ColumnStore` |
| `LazyValues` | abstract: a plan is a value, an outcome is that of the call |
| `WriteStream` | `writeCSV` and its kin over a stream, memory or a path |
| `DataTypes` | JavaScript values, scaled numbers, `DataType`, the inferred type |
| `SeriesValues` | values on their way into a Series and back |
| `SeriesFidelity` | what a program may rely on there, with the exceptions |
| `Methods` | the notation of the tables of methods |
| `Declarations`, `ObjectDeclarations` | the calls that the interfaces declare |
| `ExprMethods`, `NamespaceMethods`, `SeriesMethods`, `FrameMethods`, `LazyMethods`, `FunctionMethods`, `IoMethods` | what each method does, down to native calls |
| `Natives` | signatures of the native functions and structs |
| `Interfaces` | the tables put together, by class |
| `Calls` | a declared call, carried out step by step in each of its ways |
| `CallFaults` | what calls keep, and the calls that do not |
| `MCCsvStream`, `MCJsonStream`, `MCColumnStore`, `MCLazyFrames`, `MCSeriesValues` | values for TLC |
| `SequenceLemmas`, `FrameValuesProofs` | lemmas about the operators on sequences, columns and frames |
| `LineBatcherProofs`, `CsvStreamProofs`, `JsonStreamProofs`, `ColumnStoreProofs`, `LazyFramesProofs`, `WriteStreamProofs` | theorems |

### Stream readers

`readCSVStream(stream)` pipes its source into a `LineBatcher`, a transform that keeps the
tail of each chunk (`#lines`) and counts newlines (`#accumulatedLines`) until a batch of
`batchSize` lines is complete.

Data are abstracted to what the code tells apart.  A byte is an offset and a kind; a
`Buffer` is a list of slices of the source stream, so that a byte lost, repeated or moved
shows up as slices that are not adjacent.  Chunks may be cut anywhere.

Control is kept.  `_transform` is one loop iteration per step (`StartChunk`, `SkipByte`,
`CountLine`, `CutBatch`, `EndChunk`), because `push()` may run the consumer's `'data'`
handler at that very point, or later from the readable buffer: `Data` can happen between
any two of them.  The order of the assignments within one iteration is not split further:
the handlers read none of the batcher's private fields.  The source's own events
(`SourceData`, `SourceEnd`, `SourceFail`) wait for the end of a running `_transform`,
which is synchronous. `pipe()` is modelled as Node implements it: it calls `end()` when
the source ends, detaches on `'finish'` or on an error of the transform, forwards no error
of the source, and a write after `end()` destroys the transform.  The writable side queues
chunks up to `WriteAhead`; a batch pushed stays in the readable buffer until announced
(`delivered`).  Node drops an empty `push()` at `_flush`, and so does `Flush`.

The CSV parser is native: `OnEnd` lets it accept or refuse what it is given.  The JSON
parser runs per batch, so `JsonStream` keeps what decides its outcome: a batch with a line
that is not JSON fails, a batch that splits a record fails, and the fields of a batch's
frame are the union over its first `InferLength` (`inferSchemaLength`) records, so that a
field that only a later record has is lost.  A batch of blank lines may do either.
`concat` throws on an empty list and when fields differ.

Fairness: weak fairness on the transform's steps and on the consumer's handlers, which is
what Node's event loop gives callbacks that are ready.  None on the source: it may stop
for ever or fail; so the liveness properties start from an end of the source, or a call to
`end()`.

| Property | Says |
|---|---|
| `NoByteLost` | the batches and `#lines` are adjacent pieces of the stream, from its first byte on |
| `WholeLines` | every batch but the one of `_flush` holds exactly `batchSize` complete lines |
| `ParsesEverything` | without `endRows`, a resolved promise parsed the whole stream |
| `ParsesWholeRecords` | with `endRows`, what is parsed ends with a record; the half record that `_flush` pushes after an early end is never parsed |
| `KeepsFirstBatches` | early abort keeps exactly `endRows div batchSize + 1` batches |
| `ResolvesWithEveryBatch` | an error in one JSON batch is not forgotten, although reading goes on after it |
| `CleanStreamsResolve` | uniform JSON streams are not rejected, however they are cut |
| `Settles` | the promise settles after the end of the stream |
| `KeepsPromise` | the reader implements `StreamRead`: the promise settles at most once, with the bytes by position, in order, from the first one on |

### Series and DataFrame objects

A `JsSeries` owns a reference-counted column; `clone()`, `getColumn`, `toFrame`,
`insertAtIdx` and others share it.  `ColumnStore` has a heap of columns by address, the
address each `Series` variable owns and the addresses of each `DataFrame` variable.  An
operation in place writes the column where it is if it is the only owner and copies it
otherwise (`Writable`, the native `_get_inner_mut`); `Store` frees columns with their last
reference.  Each call of the TypeScript API is one action, with its failures: `setAtIdx`
out of bounds leaves the series empty because the native code takes it out of its owner
and returns before it puts it back; the `DataFrame` constructor renames the caller's own
series before the native constructor may refuse them; `extend` that meets columns of
different names at the second one has grown the first; `rename` and `drop` are a loop of
native calls on a clone.  Calls that throw before they change anything are not actions,
being stutters.

`unchecked` holds the frames the native library itself does not keep well-formed: after
`replaceAtIdx` with a name that is taken, and after an `extend` that threw half-way.  Such
frames are no longer used.  `hollow` holds variables that were assigned the result of
`extend`, a wrapper of nothing.

`ValueStore` is what the API promises: each variable has a value, a call computes its
result from the values of its receiver and arguments and gives it to one variable.  It has
no sharing, no addresses and no copies, and shares only the operators of `FrameValues`
with `ColumnStore`.

| Property | Says |
|---|---|
| `TypeOK` | every reference leads to a live column, every live column is referenced |
| `KeepsValues` | `ColumnStore` implements `ValueStore`: sharing is invisible |
| `NoSharedWrites` | a call changes the rows of at most one object |
| `FramesWellFormed` | columns of one height under distinct names |

`NoSharedWrites` is checked in `StoreValues` only, where there are values to tell rows
apart.

Inputs are kept to frames with at least one row and column, to a receiver of `append` and
`extend` that is not also the argument (both hand the native library two references to one
object), and to one data type, so that type mismatches, which throw before any change, do
not occur.

### Lazy frames

`df.lazy()` clones the native frame into a plan, so a `LazyFrame` owns the same columns as
`df` while `df` may be renamed or extended in place.  `LazyFrames` extends `ColumnStore`:
LazyFrames, lazy group-bys and pending queries are the `Holder`s of its store, whose
ownership rules then apply to them, and `plans`, `groups` and `calls` hold what a plan has
besides its frame.

A plan builder clones the plan and adds a step (`AddStep`).  Three steps stand for all:
`reverse` rearranges rows, `missing` fails when it runs and not when it is built, `agg`
groups.  Optimisations are switches (`off`) that leave the outcome of a plan alone.
`serialize` and `deserialize` keep the plan and lose the switches (`Reload`).  `agg` moves
the plan out of the native group-by (`lgb.take()`); a second one panics, which ends the
process (`AggAgain`).

`collect` and `fetch` clone the plan into a task (`Enqueue`).  A worker thread computes it
(`Compute`), at any point between two steps of the program; the main thread settles the
promise afterwards (`Resolve`, `Reject`).  `fetch` replaces the receiver's own plan by one
with the switches of its options, and writes two fields to the options object of its
caller (`Written`), also when the query then fails.  `collect` ignores its options.

Of the calls on frames, `FrameCall` keeps construction and the two that write columns in
place.

`LazyValues` has no tasks, no sharing and no threads: `Ask` fixes the outcome at the call,
`Tell` delivers it.  The refinement maps a queued task to the outcome its plan would have
now, a computed one to the frame it holds.

| Property | Says |
|---|---|
| `LazyTypeOK` | plans, group-bys and tasks own exactly the frames they run on, until used or settled |
| `KeepsPlans` | `LazyFrames` implements `LazyValues` |
| `QueriesSettle` | every collect and fetch settles, unless the process ends |

Fairness: the thread pool computes every queued task and the event loop settles every
computed one, unless the process has panicked.  The program itself may stop.

### Output to streams

`writeCSV`, `writeJSON`, `writeParquet`, `writeAvro` and `writeIPC` are one operation
here, `Write`, with a destination and a format; `json` differs in what happens when its
writer fails.  The k-th buffer that call c writes is `<<c, k>>`.

A call is synchronous: no event of the stream is handled until it ends (`Turn`). To a
stream, each buffer is copied into a `Buffer` of its own (`JsBuffer`) and given to
`write`, whose answer nobody looks at: it is queued while the stream is busy
(`StreamQueued`), taken at once (`StreamTaken`), lost with everything queued after `end()`
(`StreamLost`), or `_write` throws and the native code unwraps (`StreamThrows`).  Without
a destination a stream of the method's own collects the buffers and the call returns them
joined (`Collect`, `Return`).  To a path the file is created, which may panic
(`CreateFails`), and a `BufWriter` holds up to `Spool` buffers back (`Spools`,
`SpoolFails`, `LastSpoolFails`).  A writer of the library may fail at any buffer
(`WriterFails`).  The order of native calls and the lifetime of the `BufWriter` are the
code's; how many buffers a frame becomes is free up to `MaxChunks`.

| Property | Says |
|---|---|
| `NothingReordered` | what a stream consumed and still holds is what it was given, in order, although the writer fills its own buffer anew before the stream reads it |
| `FramesDoNotMix` | the sink's input is frames one after the other; only a failed call leaves a gap |
| `FinishedIsWhole` | a stream that announces `'finish'` has every frame whose call returned while it was open |
| `MemoryIsWhole` | a call without a destination returns the whole frame |
| `FileIsWhole` | a file holds a prefix of its frame, and all of it when the call returned; where the disk failed and the call returned all the same, no more is lost than the `BufWriter` held |

### Values

`SeriesValues` follows an array of JavaScript values through `arrayToJsSeries` into a
native column and back through `toArray`, `toTypedArray`, `get` and `getIndex`, and lets
the program make a Series of what it has read (`Rebuild`), up to `MaxRebuilds` times.  It
has the code's branches: typed arrays; scalars built with the constructor of the dtype and
cast afterwards; dates; arrays of arrays, read row by row with a type decided from the
first; objects, whose fields are those of the first row.  A construction that throws or
panics is an outcome.

Numbers keep their widths, scaled: a double has `DoubleBits` = 8 significant bits and a
float `FloatBits` = 4 (for 53 and 24), and the integer types the widths of `Width`.  The
scale keeps what the code depends on: int8 and int16 are narrower than the 32-bit read, an
int64 wider than a double, a double wider than an int32.  Numbers are stored doubled, so
that fractions exist.

| Property | Says |
|---|---|
| `KeepsLength` | a Series has an element for every value |
| `KeepsValues` | a value of the right kind is kept if the dtype can hold it, null if only the narrow dtype cannot, and a value of another kind is null |
| `DtypeAsAsked` | the Series has the dtype that was asked for |
| `AccessAgrees` | `get(i)` and `get(i - length)` are what `toArray` has at `i`, exactly when the native getter's type holds it |
| `SurvivesRebuild` | a Series made of what was read from one is that Series |
| `HasItsElements` | refuted, see below |

Each property names its exceptions, which are listed under Deviations.

### Calls

Most of the API has no state: a method arranges its arguments and calls the native object.
What can go wrong is the arranging, so it is modelled as data. A table says of each
method, for each form of the call, which steps it takes: native functions of its own
object (`Own`), methods of `this` (`This`), methods of what the last step returned (`On`),
functions chosen by dtype (`Typed`), wrapping (`New`), writes into the caller's object
(`Writes`).  An argument says which parameter it comes from, what stands in for it, and
what is made of it (a native object, a list of expressions, a record of options).
`Natives` has the kind of every argument of the native functions, and which fields of an
options struct they read.  `Declarations` and `ObjectDeclarations` have the calls that the
interfaces declare, for they are what a program can write.

`Calls` is the interpreter.  It starts from every declared call with every choice of up to
three optional arguments and carries it out with a stack of methods begun; `Again` makes
the same call in another way, with an options object in place of plain arguments or under
another name of the method.

| Property | Says |
|---|---|
| `DeclaredCallsReturn` | a declared call returns, or is refused with an error of the library's own |
| `ArgumentsCount` | an argument that was given reaches a native function or decides what is called |
| `WaysAgree` | the ways of one call end alike, with the same native calls |
| `OptionsAreKept` | a call writes nothing into the caller's options object |

The code deviates from each in places.  `CallFaults` lists them, by class, method, form
and arguments given, and each property but the last is an equivalence: it fails for a call
that deviates and is not listed, and for a call listed that does not deviate.

## Runs

| Run | Instance | Shows |
|---|---|---|
| `CsvWhole` | all streams of up to 5 bytes, batches of 2 lines | types, batches and outcome without `endRows`, that the promise settles, and `StreamRead` |
| `CsvLimited` | the same streams, batches of 1 line, `endRows` 1 | early abort: whole records, exact number of batches |
| `CsvAbort` | 3 bytes, `endRows` 0 | expected to fail, see below |
| `JsonStream` | all streams of up to 5 bytes of two kinds of records, newlines, junk; batches of 2 lines, fields of the first | the JSON reader, and `StreamRead` |
| `StoreValues` | 2 series, 1 frame of one column, 2 rows, 2 values | writes to rows in place |
| `StoreFrames` | 1 series, 2 frames of up to 2 columns, 2 rows, 1 value | the same while frames grow, and columns are renamed, dropped, inserted, replaced; types and shape of frames |
| `LazyPlans` | 2 frames, 1 LazyFrame, 1 group-by, 1 pending query, 2 rows | plans and outcomes while rows are appended in place |
| `LazySettles` | 1 frame, 1 LazyFrame, 1 pending query, 1 options object, 1 row | the same while columns are renamed in place, with options, and that queries settle |
| `Output` | 3 calls of up to 3 buffers, a BufWriter of 1 | the writers, with every fault of a sink, a writer and a disk |
| `Values` | arrays of up to 2 values of 16 kinds and boundaries, of arrays, of objects; typed arrays; every dtype; 2 rebuilds | construction and access |
| `ValuesFrom` | the same arrays, made with `Series.from` | expected to fail, see below |
| `Calls` | every declared call, up to 3 optional arguments, 5 dtypes | the stateless API |

Bounds.  Five bytes allow three chunks, a batch made of the tail of one, a whole one and
the head of the next, a remainder without newline, a batch that ends exactly with its
chunk, and the empty stream; a longer stream repeats these.  With two JSON lines to a
batch and one to infer from, a batch may have a record that its schema does not show,
beside a batch of another schema. `WriteAhead` 1 lets a chunk
wait while another is transformed, so that writes overtake an early end.  `MaxRows` 2 and
`MaxWidth` 2 let indices be in or out of bounds, names collide at the second column and an
`extend` fail after its first; three holders of one column are enough for a write that
leaves another sharer behind.  `Address` is as large as the largest number of columns
alive plus those one call may allocate, so that the guard `Unused # {}` stops nothing.
The store runs use a `VIEW` that forgets which address a column has and keeps everything
else: addresses are never compared or shown to the program, only followed.  `LazyPlans`
uses the same view; `LazySettles`, which checks liveness, has none, and one row and four
addresses instead.  `MaxSteps` 1 allows a plan that fails, one that rearranges rows and
one that groups.

Three calls of three buffers let a call find the remains of two others in the queue, a
buffer in the middle of a frame, and a `BufWriter` that is empty, full and refilled.  Two
values are enough for every rule of the code about arrays, which decides from the first
value that is not null and treats the others one by one.  Three optional arguments cover
every rule of `CallFaults`, and all but the widest options structs in full; `MaxDepth` 8
is beyond the nesting of every method but `shrinkToFit`, which `DeclaredCallsReturn`
confirms.

Deadlock is not checked in the store and lazy runs, where `Unused # {}` names a bound and
a panic ends the process, nor in `Output`, `Values` and `Calls`, whose programs end after
a bounded number of calls.

## What the refuted properties show

- `EarlyAbortSettles` (`CsvAbort`). `readCSVStream` aborts early with `s.end()` while the
  source is still piped. The source's next chunk is a write after the end, which destroys
  the transform with an error nobody listens to: `'end'` never comes and the promise never
  settles. The comment in the handler and the documentation of `endRows` describe an early
  stop that returns a frame.
- `HasItsElements` (`ValuesFrom`). `Series.from([1, 2])` and `Series.of(1, 2)` are empty:
  called without a name, `from` passes the missing second argument on as the values. Their
  declarations promise a Series of the elements.

## Deviations

What the models contain because the code does it, although names, types or documentation
suggest otherwise.  Those of calls are in `CallFaults`, those of values in
`SeriesFidelity`.

Streams and files: `endRows` counts whole batches, and the native parser gets no row
limit.  A write after `end()` also loses what earlier calls that returned had queued. An
error at the last spill of a `BufWriter` may go unreported.  `writeJSON` to a stream
panics where the others throw.

Frames: `rename({a: "b", b: "a"})` throws, its entries being applied in turn.  A thrown
`setAtIdx` empties its Series.  A thrown `extend` may have grown its receiver.
`replaceAtIdx` may give a frame two columns of one name. `DataFrame.extend`,
`hstack(columns, true)` and `Series.dot` return a wrapper of nothing.
`Series.shrinkToFit()` calls itself for ever.

Calls that are declared and not implemented, as their errors say (`Unimplemented`):
`Expr.sample({n})` and `lst.contains`.

Calls that fail (`Throwing`, `Absent`, `Refused`): `hash({k1})` without `k0`;
`Expr.head()` and `pl.head(column)`; `Expr.shift()`, and `tail`, `shift`
and `take` with an object; `Expr.unique` with `maintainOrder`; `rollingQuantile` in plain
form unless `windowSize`, `minPeriods` and `center` are given; `slice`, `head` and `tail`
of `lst`, and its `concat` with an array of plain values, which is to become a Series by a
function that the native module lacks; `Series.date.timestamp`; `Series.slice(offset)`;
`cumSum` and its kin and `filter` of a Series with options; arithmetic and comparison of
dtypes without a typed native function; `transpose()` without `headerName`; lazy `groupBy`
with options; lazy `distinct`; `GroupBy.pivot`; `joinAsof` without columns;
`groupByRolling` and `groupByDynamic` by expressions.

Arguments that are dropped (`Unheeded`): the seed of `sample` in an object; `inclusive` of
`split`; the method of `Series.interpolate`; `keep` of `DataFrame.distinct`; the options
of `collect` and `describeOptimizedPlan`; `simplifyExpression` of `fetch`, which reads
another name; the second expression of `Expr.slice`; `horizontal` in `concat` beside
`rechunk`; and, of the readers, the options that the native structs call otherwise.

Ways that differ (`Divergent`): the default of `strict` in `str.decode`, of `Series.limit`
and `head`, and the calls above that fail in one form only.  `fetch` and `unique` write
into the caller's options.

Values: numbers beyond 32 bits wrap around and fractions are cut on their way into the
narrow integer types; a UInt64 is made of the magnitude of a bigint and of no number, an
Int64 of numbers only; among dates, other objects are skipped and an invalid date is 0; a
null in an inner array of dates becomes an element of the outer list; arrays of arrays and
typed arrays ignore the dtype asked for; a Date reads back as its days in milliseconds, a
Datetime in us or ns as raw units, an Int64 as a double; `get` of an Int64 is cut to 32
bits, and `get` of a UInt64 above the largest Int64 is negative; arrays nested twice throw, lists of objects panic; a null first object, or an empty
array in it, panics.

## Proofs

| Module | Theorem | States |
|---|---|---|
| `LineBatcherProofs` | `BatcherInductive` | the batcher's invariant is kept by every step, for every consumer |
| `CsvStreamProofs` | `CsvInvariant`, `CsvTypeCorrect`, `CsvNoByteLost`, `CsvWholeLines`, `CsvParsesWholeRecords`, `CsvParsesEverything`, `CsvKeepsFirstBatches` | `Spec => []P` for the invariant and each property of the CSV reader |
| | `CsvKeepsPromise` | it implements `StreamRead` |
| `JsonStreamProofs` | `JsonInvariant`, `JsonTypeCorrect`, `JsonResolvesWithEveryBatch`, `JsonCleanStreamsResolve` | the same for the JSON reader |
| | `JsonKeepsPromise` | it implements `StreamRead` |
| `ColumnStoreProofs` | `StoreInvariant`, `StoreTyped`, `StoreFramesWellFormed` | `Spec => []P` for the invariant, `TypeOK`, `FramesWellFormed` |
| | `StoreNoSharedWrites` | the action property: a call writes one object |
| | `StoreKeepsValues` | the store implements `ValueStore` |
| `LazyFramesProofs` | `LazyInvariant`, `LazyTyped` | `LazySpec => []P` for the invariant and `LazyTypeOK` |
| | `LazyKeepsPlans` | plans and queries implement `LazyValues` |
| `WriteStreamProofs` | `TypeCorrect`, `OrderCorrect`, `MemoryCorrect`, `FramesCorrect`, `FinishedCorrect`, `FileCorrect` | `Spec => []P` for `TypeOK`, `NothingReordered`, `MemoryIsWhole`, `FramesDoNotMix`, `FinishedIsWhole`, `FileIsWhole` |

They hold for every set of streams, every way to cut them into chunks, every batch size,
write-ahead and `endRows`, for every number of calls and buffers and size of the
`BufWriter`, and for any variables, names, values and addresses, finite or not, and any
width and height of frames. They rest on assumptions about the constants only: the newline
is a kind of byte, junk is another, a schema is inferred from one record or more, streams are sequences of kinds, the names that the
library makes up are names, holders of native frames are no variables of the program and
of one kind each, options objects set options, the columns that frames are made of are
columns, the other constants are naturals.

The batcher.  `NoByteLost` and `WholeLines` are not inductive: they say nothing of the
chunks still queued, nor of what the counter counts.  `BatcherInv` adds: the queued chunks
are adjacent, the first starting where the running chunk stops and the last stopping at
`sent` (`WritableInv`); `begin` and `i` lie within the running chunk (`ChunkInv`); until
`_flush`, `#accumulatedLines` is the number of newlines from the first byte not pushed up
to the loop index (`CountInv`); and flags follow one another (`OrderInv`).
`BatcherInductive` proves it kept by every step of the batcher and by any announcement of
a batch, with or without a call to `end()`, so that it serves both readers.  Counting is
reduced to one lemma, `NewlinesStep`: extending an interval by one offset counts one more
newline or none.

The CSV reader.  `CsvInv` adds the consumer: the batches kept are a prefix of those
pushed, as long as the announced ones until the limit is passed, and each stops at the end
of a record (`KeptInv`); `end()` comes from `pipe()` after the last byte or from the
handler past the limit (`EndingInv`); and what is parsed is what was kept once all was
announced (`EndedInv`).  `ParsesWholeRecords` follows since the remainder of `_flush` is
kept only if the limit was never passed, in which case it stops at the last byte. For
`KeepsFirstBatches`, `QuotaInv` says that the counter is the number of announced batches
times the batch size, and that all those below the quota `endRows div batchSize + 1` were
kept; `WithinQuota` turns the code's comparison of products into one of numbers of
batches, from three facts about multiplication and division.

The JSON reader.  Every batch has bytes (`FilledInv`); while the promise is pending,
everything announced was parsed and nothing of it was junk (`ParsedInv`); `end()` comes
from `pipe()` alone, so no write follows it (`EndingInv`).  `ResolvesWithEveryBatch` then
holds at the only step that resolves, and `CleanStreamsResolve` at the steps that reject.

Both readers implement `StreamRead`, which sees the bytes a promise resolved with and
nothing of batches.  `Bytes`, the concatenation of the batches, is a recursive function of
their number: `SequenceLemmas` proves that such a function exists and that it unfolds
(`FlatteningExists`, `FlattenUnfolds`), by way of the least number at which it would fail;
`LineBatcherProofs` that slices which follow each other from the first byte are a prefix of
the stream.  Every step but that of `'end'` then leaves `StreamRead`'s variables alone or
is one of the source, and at `'end'` the invariants above give the prefix.

The store.  The code relies on reference counts: polars writes a column in place when it
has one owner, and copies it otherwise.  `StoreInv` is `TypeOK`, `FramesWellFormed` and
`FinitelyMany`: that only finitely many variables are assigned at a time, without which
one owner counted would not be the only owner (`SeriesAlone`, `FrameAlone`).  Well-formed
frames are needed too, since a frame that held a column twice could not be written in
place.  The argument has three layers.  `FrameValuesProofs` is about values: renaming,
dropping, stacking, inserting and replacing make well-formed frames of well-formed ones.
`Stored` is about references, once for all calls: if what is written is new, or was there
already with this very value, or belonged to the written object alone (`Assigns`,
`Placed`), no other variable sees the write.  There is then one lemma per call, which says
what the object takes and that no other changes (`SeriesTakes`, `FrameTakes`,
`ExtendTakes`, `ConstructTakes`).  From these follow both `NoSharedWrites`, as the
object that takes is one (`OneObject`), and the refinement: that what it takes is a value
`ValueStore` allows.  `rename` and `drop` are recursive functions of their list of
arguments, handled as `Bytes` is.

LazyFrames.  The store's own theorems are about the store's own calls.  `LazyFramesProofs`
takes from them what they rest on (`Stored`, and the effects of `extend` and of the setter
of `columns`) and adds the holders.  `LazyTypeOK` is not inductive: it does not say that
the frame a plan or a task owns is well formed, on which the next call depends that shares
it.  `LazyInv` is `StoreInv`, which of the objects own a frame (`PlansOK`, `OwnersOK`), and
`FramesOK`: every frame in the store, whoever holds it, is well formed and none is left
unchecked.  That a query finds such a frame again is a fact about plans: `OutcomeAnswers`
says that rows taken, reversed or grouped on distinct keys make a well-formed frame of one,
for any number of steps; it is proved by way of the least step at which it would fail, as
the steps are a recursive function of their number.  A holder then takes a clone, which
shares columns and writes none, or columns of its own, or the frame of another holder
(`Apart`, `GivenFrame`, `TakenOver`, `Dropped`), and no other object sees it.

`LazyKeepsPlans` is the property that is hardest to test: a plan shares its columns with
DataFrames that the program goes on writing in place, and a task reads them on another
thread after the call has returned.  Each call on a DataFrame is one that `ValueStore`
allows and leaves plans and outcomes alone; each call on a LazyFrame gives one plan a
value; `collect` and `fetch` give a promise the outcome of the plan as it is at the call.
`Compute` is a stutter: what the worker finds later is what the call had settled
(`ComputeSeen`), because the frame of the task has not changed in between.  `Resolve` and
`Reject` tell that outcome.

The writers.  `NothingReordered` needs that a stream that finished or failed is idle
(`Quiet`), and that no stream holds the writer's own buffer, which is in `TypeOK`;
`MemoryIsWhole` needs that the running call has collected exactly what it has written
(`Collected`).  `FramesDoNotMix` needs where each buffer came from (`Origins`) and that of
the running call every buffer but the last is followed by its next (`RunningInv`);
`FinishedIsWhole` that a finished stream has not failed, and that frames do not mix;
`FileIsWhole` that file and BufWriter together hold what the running call has written
(`SpoolInv`).

Only model-checked.  Liveness (`Settles`, `QueriesSettle`), which needs ENABLED.
`CallFaults` and `SeriesFidelity`, whose models use recursive operators, out of the
prover's reach; the first is about one table of methods, which TLC goes through whole, the
second about values whose range TLC bounds.  The assumptions of all modules are evaluated
by their runs.

## Not modelled

- `arrayToJsDataFrame`'s choice of orientation, and objects whose fields or items are of
  several kinds, where the polars library chooses the type.
- Configuration and the string cache: they set switches of the native library, which alone
  reads them. The calls themselves are in `FunctionMethods`.
- The eager `GroupBy` as an alias of its frame: it keeps the native frame and reads it at
  `agg()`; the store's variables hold no aliases. Its methods are in `LazyMethods`.
- The choice of the platform's binary and the error wrappers, which have no state.
- CSV and JSON parsing, query optimisation, casts, the file formats and the memory layout
  of columns, which are the native library's.
