# Verification of particle-python-wheels

TLA+ models, TLC runs and TLAPS proofs of what this repository has of logic of its own:
the `wasi:http` transport that DuckDB's httpfs extension uses in a wasm32-wasip2 wheel
(`duckdb-httpfs-wasi/`) with its generated bindings, the libffi port (`libffi-wasi/`),
the C++ allocation operators of the DuckDB wheel, the build of a wheel, and the release
workflow with the package index.

## The system

The repository cross-builds Python wheels for wasm32-wasip2. Most of it is build
recipes; its own logic is in seven places.

| Component | State it keeps | Operations | Interacts with |
|---|---|---|---|
| `wasi_http_client.cpp`, `WasiHTTPClient` | nothing between calls; within a call some twenty C++ objects, the response under construction, the write offset, the last read error | `Get` `Head` `Put` `Post` `Delete`, all through `Request()`; `ParseUrl` | called by DuckDB's retry layer; calls DuckDB's response and content handlers; calls the host through the bindings |
| `wasi_http_client.cpp`, `OwnHandle` / `Borrowed` | `handle`, `live`, `outstanding_borrows` per object; the host's handle table behind them | construct, move, `borrow`, `release`, destructor | the host's resource drops |
| `http_client.c/.h` (generated) | none; heap blocks allocated by `cabi_realloc` pass through it | lower arguments, call the import, lift results; `*_free`, `*_drop_own` | host imports, C heap |
| `libffi-wasi` | `ffi_cif` and `ffi_type` records of the caller (size 0 means "not laid out") | `ffi_prep_cif`, `ffi_prep_cif_var`, `ffi_get_struct_offsets`, `ffi_call`, closures | cffi above, `__wasi_libffi_*` host imports below |
| `wasi-operator-new.cpp` | none; the blocks of the C heap | `operator new`, `operator delete`, all overloads | DuckDB above, `malloc`, `aligned_alloc`, `free` below |
| Makefiles, `zip-wheel.go` | files with time stamps: `.build-mode`, sources, module, `out/`, `dist/`, `SHA256SUMS`, `simple/` | build a wheel, pack it, collect, sum, index | compilers, the release workflow |
| `release.yml`, `build-pages-index.sh` | GitHub releases and their assets, the deployed index | build, create or clobber a release, regenerate and deploy the index | `gh`, Pages, pip |

What is hard, and what would make each correct:

* **Transport.** One `Request()` makes up to two dozen host calls, any of which may
  fail; DuckDB's handlers run in the middle and may throw; every exit runs the
  destructors of what lives at that point. The host traps when a handle is unknown or a
  parent is dropped before its child. Correct: no exit traps, no handle is lost, the
  server is given the whole body or sees it torn, a truncated response is never a
  success, the server's status reaches the caller, every call ends when the host
  answers. An upload and a server that answers early go through bounded buffers and must
  not wait for each other.
* **Bindings.** Ownership of every block and handle a result carries, per variant tag:
  what was lifted is freed once. Every result comes through a buffer on the stack, by
  offsets written out more than three hundred times; every variant argument is spread
  over slots that mean something else in each case.
* **libffi port.** Layout of nested types, early returns that leave a type half laid
  out, checks skipped for variadic calls.
* **Allocation.** Sizes near `SIZE_MAX`, size 0, alignments below a pointer's.
* **Build.** A make may fail, be killed or be interrupted anywhere, also in the middle of
  a recipe, and the next one starts from the files it left: half a source tree, a stale
  module, truncated or differently-built wheels under one name.
* **Release.** Runs wait for, replace and cancel each other; assets and checksums are
  replaced one by one; the index is built by one run from the release of another.

PROJECT.json lists the hazards at their lines, with the properties that cover them.

## Modules

| Module | What it models |
|---|---|
| `HandleScope` | the RAII layer and the host's handle table: objects in scope, `live` flags, borrows, destruction in reverse order of declaration, the host's child-before-parent rule |
| `WasiHttpClient` | the five verbs and `Request()`, one action per host call or handler call, with the far side (server and host) as its environment |
| `RequestContract` | what a call promises to the retry layer, without any of the how; `WasiHttpClient` implements it |
| `UploadDuplex` | `Request()` and a server of its own mind, with bounded buffers between them |
| `UrlParse` | `ParseUrl` over short URLs |
| `Bindings` | the heap of one `Request()`: what the generated bindings lift, and what the `*_free` functions give back |
| `CanonicalAbi` | the host's side of every import: how a value of a WIT type lies in memory and in core arguments |
| `WitTypes` | the types of `http_client.h` as WIT types |
| `ImportResults` | the 43 wrappers that bring a result home through `ret_area`, and the `*_free` of what they return |
| `ImportArguments` | the wrappers that lower a variant, an option or a result |
| `PrepCif` | the layout of struct types, `ffi_prep_cif`, `ffi_prep_cif_var` and `ffi_get_struct_offsets` over the wasm32 back end |
| `WasiAlloc` | the operators of `wasi-operator-new.cpp` over a C heap |
| `WheelBuild` | the build of one wheel over failed and interrupted makes, and its collection into `dist/` |
| `ReleasePages` | runs of the release workflow, releases and their assets, the index |
| `MCWasiHttpClient`, `MCPrepCif`, `MCWheelBuild`, `MCReleasePages` | values of the constants for TLC |
| `MCImports` | one caller of all wrappers: `ImportResults` and `ImportArguments` taking turns |
| `WasiHttpClientProofs`, `TransportProofs` (of `UploadDuplex` and `UrlParse`), `BindingsProofs`, `ImportsProofs`, `PrepCifProofs`, `WasiAllocProofs`, `WheelBuildProofs`, `ReleasePagesProofs` | inductive invariants and theorems |

### How the model corresponds to the code

`HandleScope` names an object by its C++ variable, since `Request()` declares each at
most once: `scope` holds those constructed and not yet destroyed, `held` the
`OwnHandle`s whose `live` is set, `table` the host resources the component has a handle
to. A host call that borrows is `Uses`, one that takes `own<T>` is `Consumes`; both set
`trapped` where the host would trap. `Exchange` is the effect of one statement on
ownership. Leaving C++ scopes (a `return`, an exception, the end of an inner block) puts
their objects in `dying`; each `Destroy` step runs one destructor, last declared first,
and traps if a borrow of the object is alive (the `D_ASSERT` of `Reset`) or a child is.

In `WasiHttpClient`, `pc` is the statement `Request()` is at. The actions follow the
numbered comments of the source: headers (1), the outgoing request (2, 2b), dispatch and
upload (3, 3b), the future (4), status and handler (5), body (6). `resp` is the
`HTTPResponse`; `resp.err` says which diagnostic `request_error` holds, not its text.
`Return`, `Fail` and a throw build the result first and then destroy everything in
scope, as C++ does. The server and the host are in `wire`, `phase`, `got` (what the
server has of the request) and `reply`, `status`, `left`, `sent` (what it answers).
`Answer` may happen at any time after dispatch, also while the body is still being
written.

Data is abstracted to what the properties tell apart. A header value is its origin (the
caller, `info.content_type`, the default content type, the bearer token), a request body
its length, a response body a number of chunks, `read_error` a class of strings
(`"empty"` is the empty one). `Content-Type` and `Authorization` are the header names
the code treats specially; the others are `ExtraHeaders`. Reading `got` when
`future.get` has nothing yet is undefined behaviour, and is a trap in the model. The
heap is modelled here for the chunk, the one block whose free an exception can skip;
`Bindings` has all of it.

`UploadDuplex` has the statements of `Request()` at which it can wait, once the request
is out: the write loop, `finish`, `pollable.block`, the read loop. The server takes
pieces of the body (`Take`), turns to its answer (`TurnToAnswer`: with the whole body,
or, if `eager`, when it likes), sends a piece (`Send`) and may hang up at any time
(`HangUp`), upon which every blocking call of the client fails. `up` and `down` are what
is under way; a write waits while `up` is `BodyWindow`, a `Send` while `down` is
`AnswerWindow`. So the server does one thing at a time and the client reads nothing
before it has written everything, which is all that a mutual wait needs.

`UrlParse` has a URL as a sequence of symbols: the word `http`, another word, and the
three characters that split a URL. `FindScheme` and `Split` are the two halves of
`ParseUrl`; what a URL means (`Scheme`, `Authority`, `Remainder`) is defined beside them
from the syntax.

`Bindings` runs one `Request()` again, looking only at the C structs that hold lifted
values (`code` for `send_err`, `fin_err` and `got`; `dbg`; `entries`; `chunk`) and at
the blocks they point to. A string or list is `"empty"` (length 0, dangling pointer, no
block), `"block"`, or `"wild"` where C leaves the local uninitialised. An error code is
its tag, the union member the lifting wrote, and the one string a code can hold;
`LiftMember` and `FreeMember` transcribe the two `switch` statements separately, and a
free through another member than was written counts as a free of a wild pointer. The
lifting is the same code, at other offsets, in `handle`, `outgoing-body.finish` and
`future.get`, the three that `Request()` calls; `Lift` stands for all of them. The loops
over the header entries are one step per entry, the destructor of `OwnedHeaderEntries`
included. The decisions of `Request()` that do not touch the heap are choices.

`ImportResults` has every wrapper of `http_client.c` with a `ret_area`. In `Call` the
host stores a value of the function's type where the canonical ABI puts it
(`CanonicalAbi`, which knows none of the wrapper's offsets); `Return` lifts it with the
offsets of the C code and hands it out the way the wrapper ends (`*ret`, `*err`, a
bool); `Free` is the caller, who frees what the bool and the tags tell him he has. A
byte the host has not stored, or stored as part of something else, reads as `Junk`.
Wrappers of the same shape are one set of functions (`Reads`, `Counts` ...) with one
lift; the shared lift of `error-code` (`ErrorCodeAt`) takes the base address, which
differs in each of its five copies. `ImportArguments` is the other direction: `Call`
lowers the caller's value into slots as the wrapper does, narrowed where the declared
import is narrower; `Answer` is the host, which decodes them by the canonical ABI;
`Return` is the bool made of the result. Wrappers that only pass scalars and handles
through are left out: nothing in them can be wrong but the name of the import.

`PrepCif` is a caller's session: any sequence of calls on one `ffi_cif` and a fixed set
of struct types, going on after calls that failed. `size`, `alignment` and `elements`
are the fields of `ffi_type`; the `const` scalars are the table `Scalar`.
`initialize_aggregate` calls itself, so its frames are explicit: `stack` has the struct
of each, `next` the element each is at, `back` where the outermost returns to, and
`offsets` what it has written to the caller's buffer. `NextElement` is the loop head
with the recursive call, `PlaceElement` the rest of the body, `EndAggregate` everything
after the loop, `GiveUp` the return of `FFI_BAD_TYPEDEF` through all frames, which
leaves their types as they are. `LayOutReturn` ... `MachdepVar` follow
`ffi_prep_cif_core` and its callers; `abort()` on a complex type ends the program
(`aborted`). `spoilt` is no variable of the code: it remembers the types a failure has
left half laid out, and those laid out around one. Assertions are compiled out, as in
the wheel. A struct that contains itself is excluded (`RankAssumption`), as in C. Sizes
are naturals: element sizes that add up to 2^32 are not considered.

`WasiAlloc`: an action is one call of an operator with the call of the C heap in it.
`live` is the set of blocks, each with what the C++ code wanted (`asked`, `wanted`) and
what the heap gave (`at`, `len`). The heap gives any address that fits, and null when
none does; of 0 bytes it may do either, as C allows. `size_t` is arithmetic modulo
`SizeMax + 1`. The mmap stub beside it fails every call and keeps nothing, so it has no
module.

`WheelBuild` is the sequence of targets `make` walks through for one component, and
then the root Makefile's collection. A target is made if it is missing or older than a
prerequisite; `now` is the clock of the file system, and a file is its time, the version
and `DEBUG` mode it was made in, and for a source tree or a wheel whether it is whole.
`Make` begins a run with a goal and a mode; `CheckOut` changes the version the Makefile
names, and `LoseTarballs` takes the tarballs in the working tree away, as a fresh
checkout with a restored build cache does.

How a make ends early follows GNU make without `.DELETE_ON_ERROR`, which no Makefile
here sets:

* a recipe that fails, or a make that is killed, leaves every file as it is: `Stop`
  between two writes, `TarFails`, `StampStops`, `PackFails`, `PublishStops` in the middle
  of one;
* a signal deletes the target of the current recipe if the recipe has touched it, and
  nothing else: `UntarInterrupted`, `PackInterrupted`, the second case of `StampStops`.
  A half-copied wheel is not the target of `.collected`, and stays.

So every recipe with an intermediate state has its steps. Unpacking is `Unpack`
(`rm -rf`), `Untar`, `Touch`: between the last two the target is there with the time it
has in the archive, and a tar that fails may leave it so, over half a tree. The archive
is `Begin` and `Packed`, for `zip-wheel.go`, which writes under the final name and may
have a `Close` fail that nobody looks at (`CloseFails`), and for `wheel tags`, which
copies maturin's wheel to the tagged name. Collecting is `CopyBegins` and `Copied` for
each wheel, in any order, and `Sum`. Compiling is one step that happens or does not:
clang and `wasm-ld` put an output in place when it is finished, at most deleting the one
that was there (`CompileStops`).

`setting` says what kind of component it is and what may befall it. `regex` (and pyyaml)
has a `.build-mode` stamp and its tarball as an order-only prerequisite; `cffi` in
addition patches the tree and compiles from `.particle-patched`; `pydantic` (and
cryptography) has no stamp, a tarball that is a normal prerequisite, and its wheel from
maturin, where cargo has its own idea of what is out of date.

`ReleasePages`: `runs` has every run of the workflow with the job it is in. `Triggered`
is the concurrency group (`cancel-in-progress: false`): a run waits while another is on,
and replaces one that waits already. A run is started by a pushed tag or dispatched for
any tag on any ref. `Create` makes a release with all its assets; to one that exists,
`Clobber` deletes and `Upload` adds one asset at a time, in any order; a run may fail at
any point (`Fail`). An asset is the run that built it, so a hash in `SHA256SUMS` is
right when it is of the same run. `BuildIndex` picks the latest release as the script
does, and `Deploy` publishes what was built, which may be some steps later. `torn` is no
state of GitHub: it remembers the releases whose last upload did not come to its end.

Operators whose comment says "faulty variant" are not used by the specification. Each is
a change of one mapped definition, as a plausible slip would make it, that some property
must reject; PROJECT.json names them under `mutants`.

## Runs

| Run | Specification | Shows |
|---|---|---|
| `request` | `WasiHttpClient!FairSpec` | all invariants, the action property, the refinement and liveness hold on every path |
| `silent_error` | `WasiHttpClient!Spec`, a host whose `to-debug-string` may be empty | `NoSilentTruncation` is violated: a finding |
| `leak_free` | `WasiHttpClient!Spec` | `LeakFree` is violated: a finding |
| `upload_duplex` | `UploadDuplex!Spec` | client and server never wait for each other, and every call ends, if an early answer fits the buffers |
| `url_parse` | `UrlParse!ParseSpec` | well-formed URLs are split as their syntax says, and no URL loses anything |
| `bindings` | `Bindings!Spec` | every block is freed once, by the right function, on every exit but the known one |
| `imports` | `MCImports!MCSpec` | every value the host sends arrives, inside the buffer, and is freed once; every argument is understood |
| `prep_cif` | `PrepCif!Spec` | layouts and offsets are those C prescribes, what is reported as prepared can be called and carries nothing over, after any sequence of calls, failed ones included |
| `padding_retry` | `PrepCif!Spec` | `SizeIncludesPadding` is violated: a finding |
| `wasi_alloc` | `WasiAlloc!Spec` | what the C heap is asked for and what the C++ code gets |
| `wheel_build` | `WheelBuild!Spec` | what `out/` and `dist/` hold after makes that failed, were killed or interrupted, in any recipe |
| `release_pages` | `ReleasePages!Spec` | releases match their sums, and the index a release, after runs that failed anywhere |

### Bounds, and why they are enough

*Transport* (`request`, `silent_error`, `leak_free`): write size `WriteCap` 2 (4096 in
the code), request bodies of up to `MaxLen` 3 bytes, response bodies of up to `MaxReads`
2 reads, statuses 399 and 400. So a body may be empty, shorter than a write, one whole
write, or a whole write and a short one; the response may be empty, end after any read,
or fail after any read; the two statuses lie on either side of the test `>= 400`.
Nothing in the code depends on a count beyond these cases: the loops keep no state but
the offset and the last error, and the theorems below hold for every value of the
bounds. `ExtraHeaders` is empty in the runs: the two special names already give a map of
several entries, in any order of iteration.

*`upload_duplex`*: bodies of up to 6 pieces and answers of up to 6, through windows of
3. Each side can fill its window while the other fills its own, with as much again still
to send; a window of 3 leaves a piece between its ends. `NoMutualWait` is proved for all
sizes.

*`url_parse`*: all sequences of up to `MaxLen` 7 symbols: a scheme, `://`, an authority,
a path and a query with a separator of each kind in it. `ParseUrl` looks for the first
`://` and then the first `/`; a second `://` needs seven symbols. Both properties
are proved for every length.

*`bindings`* has all 39 tags with every state of their options, and lists of up to
`MaxEntries` 2 headers: none, one, and one followed by another, which is all that loops
without state can tell apart.

*`imports`*: all functions, all 39 error codes, every option there or not, every string
empty or not. The integers are 0 and another (`MCInts`), blocks are at two places and
lengths are 1 or 2: what the bytes hold is never computed with, only moved, so two
values of each kind show whether it is moved whole. The theorems are for all of them.

*`prep_cif`, `padding_retry`*: every pair of an inner struct (no element list, empty,
one element of 1 or 8 bytes, or both in either order) and an outer one of up to three
elements of 1 byte, 4 bytes and the inner struct: that is padding before, between and
after elements, nesting twice in one struct, and failure before, at and after an element
that already gave the outer struct a size. Argument lists are of up to three types with
`MaxArgs` 2 (1024 in the code), so that the limit is reached and passed. The layout loop
keeps only the size and the largest alignment, so more elements show nothing new; a
third level of nesting would run the same frames, and the theorems cover every depth.

*`wasi_alloc`*: a 6-bit `size_t` (`SizeMax` 63) with pointers of 4 bytes, a heap of 32
bytes, two blocks at a time, alignments 1 to 16, sizes 0, 1, around the alignments, and
up to `SIZE_MAX`: some are rounded, some wrap, some do not fit. The theorems cover every
width.

*`wheel_build`*: two versions, three makes of three goals in two modes. To go wrong, a
target takes a make that leaves something, one that stops over it, and one that takes it
for up to date. `MCSettings` has the three kinds of component: regex with and without a
tar and a pack that may fail, cffi with a tar that may fail, and pydantic-core going back
between versions and with a retagging that may fail. The theorems are for any versions,
settings and number of makes.

*`release_pages`*: three tags, four runs, two wheels a tag, one of which keeps its name
from tag to tag. Three runs are what it takes to have one on, one waiting and one that
replaces it; the fourth re-releases. The last tag may be marked as a pre-release. All
its invariants are proved for any number of tags, runs and wheels.

### The properties, and what would break each

* `NoTrap`: a stream that outlives its body, an owner declared after its borrow, a
  handle used after `release`.
* `HandlesOwned`: a raw handle returned by the host that no object takes; a release of a
  handle the callee did not consume. `own<error>` is excepted, see the findings.
* `NoSilentTruncation`: a failed read taken for the end of the body.
* `UploadWhole`: the write loop stopping short; a failure after a partial write followed
  by `finish`.
* `EarlyFailureUnsent`: a diagnostic of a step before dispatch on a request that went
  out, which the retry layer would repeat.
* `WireHeaders`: a dropped header or token, a token on top of the caller's own
  `Authorization`.
* `StatusReported`: an error status lost to the handler's exception; an exception of a
  success swallowed.
* `DeliveredOnConsent`: body bytes delivered after the handler said stop.
* `ImplementsContract`: with the mapping at the end of `WasiHttpClient`, every step is a
  step of `RequestContract` or stutters. Among others: no chunk is delivered before the
  request is served whole, and `ok` needs both bodies whole.
* `CallReturns`: a loop that makes no progress, a state with no way on.
* `NoMutualWait`, `CallEnds`: the client waiting for an answer while the server waits
  for the end of the body. The premise `Fits` is what the code needs and does not
  ensure: a server that begins a long answer before it has the body does block the
  upload for ever.
* `WholeExchange`: an answer cut at what has arrived, a response to half a body.
* `SplitRight`: a scheme recognised by its beginning, a `://` of the query taken for the
  scheme's. Its premise excludes a query right behind the authority, see the
  observations.
* `NothingLost`: an offset beside the slash, for URLs of any form.
* `HeapSafe`: a payload read through the wrong member; a `*_free` of a struct nothing
  was lifted into; a loop past the end of the header list; a list freed before its
  entries.
* `Accounted`: a tag without its case in `error_code_free`, an exit that skips a free; a
  block that is lost while `Request()` goes on, such as a chunk per turn
  of the read loop; more than the chunk lost in an exception.
* `RoundTrip`: an offset that is right for another tag, a swapped bool, a payload of the
  wrong width.
* `AreaFits`: a `ret_area` a byte short or misaligned.
* `FreedOnce`: a free of a value that is not there, a string in a case nobody frees.
* `Understood`: a slot too few or too narrow, a tag left out, an inverted verdict.
* `LayoutRight`, `OffsetsRight`: rounding the wrong way, a missing tail padding, an alignment that is not the
  largest, an offset taken after the element. The references are `EndsOf` and `COffset`,
  from the elements alone.
* `OffsetsFit`: the buffer handed to the recursive call, or an offset written twice.
* `CifSound`: a type without layout in a prepared cif, a missing check of arguments, a
  variable argument that is not promoted, an argument that is not rounded up to a word,
  or not counted.
* `FixedArgs`: a `VARARGS` flag or count left from an earlier use.
* `MultipleOfAlign`: a size handed to `aligned_alloc` as it came.
* `BlockHolds`: rounding down. Its premise is that the rounding does not wrap, see the
  observations.
* `NoSpuriousFailure`: 0 bytes asked of a heap that may answer null.
* `BuiltAsAsked`: a stamp that is not rewritten, or is newer than what it vouches for,
  after a make that was stopped in between.
* `BuiltFromVersion`: a module left from the version before, in particular after an
  unpacking that was cut off. It has two premises, where the code does go wrong: versions
  that share a build directory only go up, and tar does not fail where nothing but the
  archive's time vouches for the tree (regex, pyyaml), see the observations. cffi
  survives such a failure, because `.particle-patched` goes with the tree.
* `DistWhole`: a torn wheel of `out/` in `dist/`, after a copy, a pack or an unpacking
  that was cut off. Its premises are the two failures that make takes for done: of
  packing or retagging, whose target is newer than its prerequisites, and of tar under an
  order-only tarball.
* `Published`: sums or an index of some of the files in `dist/`, or of what was there
  earlier.
* `ManifestTrue`: an upload that leaves what is there alone, two runs uploading at once.
* `IndexVerifies`, `SuccessIsIndexed`: the jobs of two runs interleaved, an index built
  before the release.
* `IndexAdvances`: the index of the run's own tag, which a re-release takes back.
* `TypeOK` of `ReleasePages` contains `OneAtATime`, the concurrency group itself.

### Fairness

`WasiHttpClient!FairSpec` has weak fairness on `Client`: `Request()` runs on the one
thread of its wasm instance, takes no locks and yields to nobody, so it goes on as long
as a step of it is possible. It has weak fairness on `Answer`: the host eventually
completes a dispatched exchange, with a response or an error. The code sets no timeouts
(`nullptr` options), so without that assumption `pollable.block` may last for ever; the
code relies on the host there, and so does `CallReturns`. In that module every write
ends. `UploadDuplex` has the other case: a write ends when there is room. Its fairness
is `WF(Request)`, for the same reason; `WF(Server)`, a server that goes on with what it
can do; and `WF(TurnToAnswer)`, since a server that had an answer to give and took
pieces for ever would not be one. `HangUp` is never forced. Under these `CallEnds` says
that a call ends whenever an early answer fits.

The other modules state safety only: nothing forces a caller, a user at the command line
or the owner of a release to do anything.

### Deadlock

Checked where something can always happen: an idle client can start a call, every
statement of `Bindings` has a next (its end stutters), wrappers can be called again, a
full heap can be freed. In `PrepCif` an idle caller can make a call, every frame can go
on or return, and only `abort()` stops. Not checked where the system stops: `UrlParse`
is one call, an exchange of `UploadDuplex` ends, and makes and runs are counted.

## Findings

* A `last-operation-failed` whose debug string is empty leaves `read_error` empty, so
  the truncated body is returned as a success (`wasi_http_client.cpp:473`, `:488`),
  which the comment at 464-468 rules out. Run `silent_error`.
* `wasi_io_streams_stream_error_free` does nothing for `last-operation-failed`, so its
  `own<error>` is never dropped, in the read loop and in the write loop; the comment at
  76-79 calls every exit leak-free. Run `leak_free`.
* After a failed `ffi_prep_cif`, a second one on the same struct returns `FFI_OK` with
  the sum of the elements before the bad one as its size, without tail padding
  (`prep_cif.c:57`, `:141`, `:170`). Run `padding_retry`.

### Observations

Met while modelling; the models do what the code does, and the premises of the
properties say where.

* `wasi_http_client.cpp:481`: an exception of the content handler skips
  `http_client_list_u8_free(&chunk)` (`Accounted` has it as the one exception).
* `wasi_http_client.cpp:186`: a query right behind the authority (`https://host?q`)
  becomes part of the authority.
* `wasi-operator-new.cpp:28`: for sizes within an alignment of `SIZE_MAX` the rounding
  wraps, and an aligned `new` returns a block far too small.
* `pydantic-core/Makefile:128`: the wheel of a component that maturin builds depends on
  nothing that `DEBUG` touches, so toggling it rebuilds nothing (README.md:90-92 says it
  does). The root target `wheels` without `DEBUG` builds release wheels again over a
  component's debug wheel (README.md:92-95).
* `cffi/Makefile:43`, `:177`: the module is made again only if its sources are newer,
  and those of an older version are not: going back a version packs the newer module.
  Its staging directory (`:198`) is never emptied, so the wheel of the next version has
  the `.dist-info` of both.
* `regex/Makefile:115-119`, `pyyaml/Makefile:150-154`: if tar fails or is killed after it
  wrote `setup.py`, that file has the time of the archive, the next make takes half a
  tree for unpacked, finds the module of an older version newer than it, and packs that
  into the new wheel. With `cffi/Makefile:138-142` half a tree is compiled and packed too.
* `Makefile:152-159`: wheels are copied into `dist/` in place. A torn copy is replaced by
  the next collection while the wheel is in `out/`; one of a version that has gone from
  `out/` stays, and is summed and indexed like the others.
* `zip-wheel.go:31`, `:37`: the archive is written in place and the `Close` calls are
  deferred and unchecked; after a failed pack or close a truncated wheel is newer than
  its prerequisites and is collected. A failed `wheel tags`
  (`pydantic-core/Makefile:151`) leaves the same.
* `Makefile:152`: wheels of other versions left in `out/` are collected too, and those
  in `dist/` are never removed.
* `Makefile:191`: `make index` does not normalise the project names it makes directories
  of.
* `release.yml:36`: of three tags pushed together the second is cancelled and gets no
  release.
* `release.yml:46`: a dispatch builds the ref it was started on, under the tag it was
  given.
* `release.yml:99`: a pre-release is indexed before anyone can mark it as one
  (README.md:118-121).
* `release.yml:6-8`: the index has the wheels of the latest release only.
* `build-pages-index.sh:52`: every failure of `gh release view` is taken for "no
  release", and an empty index is deployed over the good one.
* `duckdb-python/Makefile:755-774`: the module is copied under its final name and
  optimised there; failures of the copy, of `wasm-metadce` and of `wasm-opt` are
  swallowed.

## Proofs

`WasiHttpClientProofs` proves, for every set of extra header names, set of statuses,
`MaxLen`, `MaxReads` and `WriteCap > 0`, from the assumptions named in `WasiHttpClient`:

* `TypeCorrect`: `Spec => []TypeOK`;
* `TrapFree`: `Spec => []NoTrap`;
* `Ownership`: `Spec => []HandlesOwned`;
* `UploadWholeAlways`: `Spec => []UploadWhole`;
* `SpeakingHostSuffices`: if no debug string is empty, `Spec => []NoSilentTruncation`.
  The run `silent_error` shows that the hypothesis is needed.

None of these is inductive alone. The invariant `Inv` adds:

* `ScopeInv`: `table` without the error is `held`, which is within `scope`, and what is
  being destroyed is *closed*: it contains the borrows of its owners and the children of
  its parents. Closure with the ranks of `DeclaredAfter` (an owner is declared before
  its borrows, a parent before its children) is why a destructor never traps
  (`DestructSafe`): whatever could forbid the drop was declared later, and has gone
  first.
* `DyingInv`: scopes are left only at the five places where the code leaves them.
* `LiveInv`: the objects each statement uses are alive there.
* `UploadInv`: bytes acknowledged are bytes the server has, until the body is torn.
* `ReadInv`: chunks delivered are chunks read, but for the one in hand.

`UploadWhole` and `NoSilentTruncation` need in addition `OutcomeInv` (a diagnostic of a
late stage, or none, means a request served whole) and `CompleteInv` (a success without
diagnostic has delivered everything). Each `...Step` lemma takes the actions one by one;
the theorems combine them in their last step.

Over that invariant, with one of its own for each theorem, it also proves:

* `EarlyFailureHarmless` (`[]EarlyFailureUnsent`): `EarlyInv`, no diagnostic is set
  before a failure leaves the function.
* `HeadersComplete` (`[]WireHeaders`): `HeaderInv`, the fields are the pairs already
  taken from the caller's map, and the token once the loop is over; an error on the way
  is remembered until it ends the call.
* `StatusAlwaysReported` (`[]StatusReported`) and `ConsentPrecedesDelivery`
  (`DeliveredOnConsent`): `ReportInv`, what the response object says at each statement,
  by what the handler did.
* `Implementation`: if no debug string is empty, `Spec => ImplementsContract`. Every
  action is a step of the contract (`BeginsCall`, `ServesRequest`, `LearnsEnd`,
  `DeliversChunk`, `EndsCall`, `EndsInThrow`) or is hidden from it; `CallInv` says
  that a call in progress has no outcome yet and that a future means an exchange. The
  hypothesis is needed for the `ok` outcome only, whose body must be whole.
* `CallsAdvance` (`[][StartRequest \/ Nearer]_vars`): between two calls every step leaves
  less to be done. `Work` adds up the place of the statement, the bytes still to write
  and twice the reads still to come; a step lowers it, or keeps it and takes a header
  from `todo`, or keeps both and destroys an object of `dying`. A chunk that is read
  goes back from `reading` to `deliver`, which is why a read counts twice.

`BindingsProofs` proves, for every `MaxEntries`: `HeapTypeCorrect` (`[]TypeOK`),
`HeapSafety` (`[]HeapSafe`) and `HeapAccounted` (`[]Accounted`). The inductive invariant is `TypeOK /\ Accounted /\ HeapSafe`:
`Accounted` says that the heap is `Owned`, the blocks that the statements from here on
will free, so that a free always finds its block and the last statement finds none.
`MembersAgree` is where the two tables meet: it needs them to agree on every tag.
`EntryFreed` is the step of the destructor's loop.

`ImportsProofs` proves, for any integers, pointers and lengths (`IntsAssumption`,
`TextAssumption`: they are numbers, and a text that is not empty has a length and a
block that are not 0), all four properties of the run `imports`: `AnswersComeHome`
(`[]RoundTrip`), `AnswersFit` (`[]AreaFits`), `AnswersAreFreed` (`[]FreedOnce`) and
`ArgumentsAreHeard` (`[]Understood`). The invariant is short: between call and free,
`area` is the image of what was sent, the heap is the block in it, and after the return
the caller holds what the wrapper makes of that value (`ResultsInv`); until the host
answers, the slots are what the wrapper made of the argument, and then the host has
heard it (`ArgumentsInv`). The work is in three facts about values, which take the types
of `http_client.h` from the smallest up:

* `LiftedIsSent`: the wrapper's offsets, applied to the image of a value, give the
  value. `Holds` says that the image of a type lies at an address; of each combinator it
  is shown once that an image holds those of its parts (`VariantRead`, `PairRead`), and
  each lift of the code then follows from the lifts it is made of.
* `FreedIsOwned`: what the caller frees is the blocks in the image (`Owned`), by the same
  walk over the types.
* `LoweredIsHeard`: the slots hold the value's core arguments (`Spread`), none but those
  declared as i64 needs 64 bits (`Narrow`, `SentWhole`), and a value is the only one of
  its type that is spread like that (`Unambiguous`), though a case leaves the slots it
  does not use unlooked at.

`Shape` collects what is known of a type: its size, alignment and slots, that its cells
lie within its size (`WellFormed`, from which `ResultFits`), and that it is
`Unambiguous`. `ImportArguments` is instantiated, so its types are shown to be the same
as those of `ImportResults` (`SameTypes`).

`TransportProofs` proves of `UrlParse`, for every `MaxLen`: `NothingIsLost`
(`[]NothingLost`) and `SplitsRight` (`[]SplitRight`). `ParseInv` says what `after`, `https`, `authority` and
`path` are in terms of the two searches; the work is in the searches themselves.
`LeastExists` is the least element of a set of numbers, `FindSlash` what `find('/')`
returns or excludes, `PartOfRest` that a part of the rest of a string is a part of the
string. A URL as its syntax reads it ends its authority at the first `/` or `?` of the
rest; `ParseUrl` looks for a `/` in the whole string, and the premise of `SplitRight` is
what makes the two ends the same.

`PrepCifProofs` proves all properties of the run `prep_cif`, for every set of
structs, elements that respect `Rank`, calls and `MaxArgs`: `LayoutTypeCorrect`
(`[]TypeOK`), `OffsetsNeverOverrun` (`[]OffsetsFit`), `FixedArgsRight`
(`[]FixedArgs`), `OffsetsReportedRight` (`[]OffsetsRight`), `CifIsSound`
(`[]CifSound`) and `LayoutIsRight` (`[]LayoutRight`).
Their invariants, each resting on those before it:

* `FramesInv`: the frames are of structs of strictly decreasing rank, so no struct has
  two frames and entering one disturbs no other; each frame below the top is at an
  element, which is what it goes on with when the top returns. `ReturnInv`: the
  outermost frame of `ffi_get_struct_offsets` has written one offset for each element
  before `next`. `AlignFacts` says that `FFI_ALIGN`, when it is not 0, is a multiple of
  a nonzero alignment, so the test `arg->size == 0` after the padding also rejects a
  struct without alignment.
* `CoreInv`: the recursion inside `ffi_prep_cif_core` returns to it.
* `LaidInv`: a frame has laid out the elements before `next` as C does. Its size is
  where the last of them ends, its alignment that of the strictest, and the offsets
  reported so far are where they begin (`FrameLaid`).
* `SoundInv`: what the argument loop has passed stays laid out, because a struct is
  entered only when its size is 0. `BytesInv`: `bytes` holds the arguments passed.
* `KnownInv`: there is a set `G` of structs with sizes `s` and alignments `a`, in which
  each struct is composed of its elements by C's rules, that contains every settled one,
  and agrees with its fields while it has no frame. The ghosts are needed because
  `ffi_get_struct_offsets` sets the size of a struct to 0 and lays it out again, while
  others contain it: `KnownAgain` shows that it gets the layout it had.

The references `Ends` and `Sums` are recursive functions over a struct's elements and a
call's arguments. `Laid` and `Summed` say of a function that it meets the recursion
equation as the code computes it; `EndsOfLaid` and `SumsOfSummed` show that such a
function is the reference. They use `IntervalInduction`: a set of numbers that has 0,
and each number up to `n` whose predecessor it has, has all up to `n`, as otherwise
there is a least one that it lacks. That is induction over a set, which needs no
operator as a parameter.

`TransportProofs` proves of `UploadDuplex`, for every body, answer and pair of windows: `TypeCorrect`,
`MutualWaitFree` (`[]NoMutualWait`) and `WholeAlways` (`[]WholeExchange`). `IInv` adds
`Phase` (finish was called exactly when the body is written) and `Progress`: nothing of
the answer is sent before the end of the body unless the server is eager, and nothing is
read before the body is written. So while the client writes, `down = sent`, and a server
that waits with a full window has sent `AnswerWindow` pieces and has more, which `Fits`
excludes. `ExchangesAdvance` (`[][Remaining' < Remaining]_vars`) has `Remaining`, a
natural number that every step of the client, the server or the network lowers.

`WasiAllocProofs` proves, for every width, heap, size and alignment (`AlignAssumption`:
an alignment below that of a pointer divides it; `HeapAssumption`: the heap ends at an
address that fits in a `size_t`): `TypeCorrect`, `AlwaysMultiple` (`[]MultipleOfAlign`),
`BlocksHold` (`[]BlockHolds`) and `FailsOnlyWhenFull` (the action property
`NoSpuriousFailure`). The invariants are inductive with the types; the arithmetic is in
`Multiple`, `RoundedMultiple` and `Divides`. A call fails for want of room for what it
asked the C heap for; `FailsForWantOfRoom` compares that with what the C++ code wants:
either it is at least one byte and not more than size and alignment together, so that
these have no room either (`RoomForLess`), or the rounding wrapped, and then these are
more than the heap has (`RoomForTooMuch`).

`WheelBuildProofs` proves, for any versions, settings and number of makes:
`AlwaysAsAsked` (`[]BuiltAsAsked`), `AlwaysFromVersion` (`[]BuiltFromVersion`),
`DistAlwaysWhole` (`[]DistWhole`) and `AlwaysPublished` (`[]Published`). The invariant
says what the time stamps vouch for, at any point a make may end early:

* `SourceInv`: a tree that is there is whole, or tar has failed over it, and then its
  target is older than the tarball, or nobody compares the two.
* `ModuleInv`: a module not older than the stamp was compiled in its mode. While versions
  only go up (`Onward`), what is touched or patched for a version is newer than a module
  of an older one. A failed tar breaks this for the target of the tree alone, so the
  module is vouched for by the patch for cffi, and by the target itself where tar never
  failed (`ModuleFromVersion`).
* `WheelInv`: a wheel not older than the module was packed from it, so the wheel of the
  checked-out version is the one asked for when make is through with it (`Finished`).
* `PublishInv`: unless packing fails, the only wheel of `out/` that is not whole is the
  one being packed; while collecting, `dist/` has what was copied, as it is in `out/`.

No two files have the same time, as each write takes the clock on (`Clock`): files
written within the resolution of a file system's clock are outside of the model.

`ReleasePagesProofs` proves, for any number of tags and runs and any wheels:
`TypeCorrect` (`OneAtATime` included), `ManifestsTrue`, `IndexAlwaysVerifies`,
`SuccessAlwaysIndexed` and `Advances` (the action property). `IInv` adds:

* `Begun`: what a run is about is fixed when it starts.
* `Ordered`: a run that waits is the newest, and those behind the one in its jobs wait
  or are cancelled. So no run ever gets in between an older one's jobs, and the index is
  deployed in the order of the runs.
* `Uploading`: what an upload is through with is its own.
* `AssetsKnown`, `ReleaseWhole`: a release that is not torn has its `SHA256SUMS`, and
  the wheels of the same run.
* `Indexing`: between `BuildIndex` and `Deploy` the release it was built from stays the
  latest listed one.
* `Deployed`: who deployed the index has succeeded.

### Only model-checked

`CallReturns` and `CallEnds`, which are liveness under fairness, beyond the prover. Of
the two things they say, that no call takes endlessly many steps is proved
(`CallsAdvance`, `ExchangesAdvance`); that there is always a step which fairness forces
is left to TLC, but for `MutualWaitFree`, which has no two wait for each other.

`NoSilentTruncation` and `ImplementsContract` are proved for a host whose debug strings
are not empty, as the run `request` checks them.

## Plan

What is left: `Bindings` below `WasiHttpClient`, the composition in which the choices of
`Bindings` are the outcomes of the calls in `WasiHttpClient`, and its `heap` has the
chunk of the other.

## Not modelled, and why

* Response headers, `reason` and `url` of the response, the text of diagnostics: no
  decision depends on them.
* DuckDB's retry layer and the wasi host: outside the repository; they appear as the
  environment. So a GET whose chunks are delivered twice because it was retried is not
  in the models; what one call promises the retry loop is.
* Wrappers of the bindings that only pass scalars and handles through.
* `ffi_call` and closures: one-line forwards to host imports outside the repository; the
  raw and Java APIs of libffi.
* `wasi-mman-stub.c`: every call fails.
* The build of duckdb-python, numpy and pandas, where CMake or meson decides below make
  what is made again; cryptography's `.patched`, one more target between its tree and its
  wheel. An unpacking also stands for the download before it: cffi's `curl -o` writes the
  tarball in place, and one that is cut off gives a tar that fails. The module compiled
  from half a tree is not told from a good one, only the wheel is. Errors inside the
  shell loop of `index` are ignored by the code, and not modelled.
* Compiler and linker invocations, downloads, patches of third-party code, the
  prerequisites cpython and libffi-wasi: no state of this repository's own.
* GitHub's re-run of single jobs, a dispatch for a tag that does not exist, the names of
  the pages in the index.
* Out of memory outside `WasiAlloc`, and C++ exceptions other than a handler's.
