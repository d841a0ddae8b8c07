# A TLA+ model of the tinykvm example programs

The repository holds programs that an HTTP cache runs by its tinykvm module: each
program registers handlers with the C interface of `kvm_api.h`, and the host
(the cache and its KVM module, not part of the repository) runs them in small
virtual machines. This directory models the programs that keep state: in the
storage VM, in memory that survives requests, in shared memory, or on disk.

* [Inventory](#inventory): the parts and what is hard about them
* [Modules](#modules): which module models what, and how
* [Runs](#runs): what TLC checks, the bounds, the fairness
* [Proofs](#proofs): what TLAPS proves, and along which argument
* [Where the code and its documentation disagree](#where-the-code-and-its-documentation-disagree)
* [Assumptions about the host](#assumptions-about-the-host)
* [Not modelled](#not-modelled)
* [Plan](#plan)

## Inventory

**The host, as the programs see it** (`kvm_api.h`). A program runs in
`concurrency` request VMs and one storage VM. `main` runs in each kind and ends
in `wait_for_requests`. A request VM serves one request at a time;
`backend_response` concludes the request. `storage_call` blocks a request VM
until its function has run in the storage VM, where one caller executes at a
time, in the order of a queue (kvm_api.h:361-365). `storage_task` and
`schedule_storage_task` put work on the same queue. A request that takes longer
than `max_request_time` is ended; the program's `on_error`, or else the host,
answers. With `"ephemeral": false` in `compute.json` a VM keeps its memory from
one request to the next. A live update asks the old program's storage for its
state (`on_live_update`) and gives it to the new one's (`on_resume_update`);
requests that have been taken end in the old program. Shared memory is one area that all VMs see. Hard: everything that happens
between two storage calls, a timeout at any point, requests that are still
running in the old program during an update.

| Part | State | Operations | What makes it correct |
|---|---|---|---|
| `c/storage.c` | the content and its length in storage | GET, POST, a task every 1.5 s that fetches from the program itself, update | one register for all clients of a program; storage always becomes free again |
| `cpp/minimal` | a counter per VM, one in storage per generation | GET, update | each request counted once; answers grow |
| `cpp/collector` | a batch per VM, a map and a mutex in storage | GET, `:report:` | each URL counted once; reports show whole batches |
| `cpp/gbc` | emulator, ring of inputs, clock, PNG in storage; a state file | GET of a frame, update, restart | keys held as long as intended, also when the state cannot be stored; bounded work per call |
| `javascript` | the chat in storage, a state file | GET, POST, update, restart | one growing chat, all of it handed over; a file nobody else writes is a beginning of it |
| `cpp/webp`, `cpp/avif` | the image, type, headers, picture and output of the last request | GET, POST, fallback answers | of one request no picture, and where it can be helped no type, in the answer to another |
| `kvm_api.h` shared memory, `c/counter.c`, `cpp/shared_counter` | the allocator's position; a counter in shared memory | allocation, GET | blocks apart; no number for two requests, or none before one's own |
| `cpp/src/deflate.cpp`, `c/zlib` | a buffer and its recorded size, a decompressor | POST | recorded size is the allocation's; a request that failed harms others as little as can be |
| `cpp/src/basicauth.cpp` | the set of authenticated candidates in storage | GET, POST, `on_error` | nobody in it without the password; nobody in it refused |
| `cpp/src/payload.cpp` | the last payload | GET | the payload is the one that was asked for |
| `go/varnish`, `go/goexample` | lines in storage, a table of storage functions | GET with two storage calls, POST | results show storage as it was; every request answered |
| `cpp/src/hello_world.cpp`, `deno/server.ts` | events of one round | the paused event loop | every event answered |
| `c/streaming.c` | none; the host passes the position | a callback per piece | the pieces make up the body |
| `nim/env` | a table of handlers | trampolines | the handler runs with the arguments it was sent |
| `python`, `rust/api`, `v8` | handlers by name | dispatch | one answer per request |
| `cpp/llama` | a context that is extended token by token | generation | the loop ends, the context is not overrun |

The hazards of these parts are listed, each at its line, in `PROJECT.json`
under `hazards`.

The parts hardly interact with each other: each is a program of its own. What
they share is the host, so the composition is vertical. `Compute` is the host;
`StorageContent`, `Chat`, `GoStorage` and `BasicAuth` extend it, each of their
steps being a host step and what the program does in it (a restart of the chat
puts the host back to its start); `StorageCalls` is a
host with one of the latter two. `ContentRegister` is what `StorageContent`
implements, `ChatLog` what `Chat` does. `StorageContent` and `Chat` follow one
program each, which may be the successor of another and be succeeded: what an
update hands over is where the next behaviour begins. The programs that do not go through the storage queue
(`BatchedCounter`, `Collector`, `ShmCounter`, whose VMs work on shared state
side by side and which extend `Handlers`) and those where one VM is the whole story (`ImageServer`,
`KeptBuffers`, `Llama`, and `GameBoy`, whose storage calls the host serializes)
stand alone.

## Modules

**Compute.** Variables: `phase` of each VM (waiting, handling, queued, storage,
failing), `queue`, `holder` of storage. Actions: `Receive`, `CallStorage`,
`Schedule`, `EnterStorage`, `LeaveStorage`, `Respond`, `TimeOut`, `Crash` (a
handler ends with an exception), `RespondError`. The module is external: it is
modelled from how kvm_api.h describes the calls and how the programs use them.
What holds of it alone (`ExclusiveStorage`) says nothing of a program and is a
lemma for the proofs.

**ContentRegister.** An atomic register: a VM is asked to write a body or to
read, is served in one step, and concludes.

**StorageContent** (`c/storage.c`). `cont` is the allocation as a sequence of
bytes, a byte being NUL or not, because `strlen` tells these apart;
`cont_len` its recorded length. `ModifyContent` writes the body and leaves the
terminator's byte arbitrary: the code writes the zero one byte further
(line 16), outside the allocation, where it is taken to meet padding. Thus
`Strings` are what `strlen` may find: up to the first NUL, or past the end of
the allocation. A behaviour is one program from its start to its last request.
`Init` is what `main` leaves, and in a successor what `on_resume_update` then
makes of it: any content, of length 0. `LiveUpdate` is `on_live_update` and
what the successor has from it, `heir`; afterwards no request is taken, and
those that were taken go on in this storage: a POST among them is answered, and
is not in what the successor got. `fetch` follows the request that the task
`test` sends to the program: sent, taken by a VM (or by the successor), done.
`FetchFails` gives it up at any moment; the VM that has taken it then serves it
for nobody. The task holds storage all the while.

**Handlers.** The request VMs and where each is in its handler (`pc`, `Go`), for
the programs whose VMs share memory or call into storage without its queue:
`BatchedCounter`, `Collector` and `ShmCounter` extend it. Names that two
components would share carry the component's name (`ShmInit`, `CollectRespond`,
`ImageTypeOK`), so that one module can prove about both.

**BatchedCounter** (`cpp/minimal`). `pc` follows `on_get`, one action per
access to shared state: `Count`, `Commit` (the atomic addition), `Clear`,
`Read`, `Respond`. `gen` counts live updates; each generation has a counter in
storage, and `home` is the generation of a VM: a request that was running at an
update ends in its old generation. `arrived`, `pending` and `counted` say which
requests the numbers stand for; no action reads them except to bound the model.

**Collector** (`cpp/collector`). `CollectOne` adds one URL of a batch, under
the mutex `mtx`. `CollectTerminate` leaves the mutex as it is: it lives in storage and
nothing unlocks it, so that the VMs that wait for it wait until they are
terminated. `visits`, `lost` and `whole` are the ledger the properties compare
the map with.

**GameBoy** (`cpp/gbc`). `get_frame` in steps: `Contribute`, `SimulateFrame`,
`LeaveLoop`, `OpenFile`, `WriteFile`, `Return`; and `OpenFails` and `WriteFails`,
the exceptions of `file_writer`, with which the call ends before `inputs.next()`:
the emulator has moved on, the file may be empty or torn, and the keys of the
next call share the slots. The emulator is its frame number. Time is an integer;
`TickRate` and `SkipRate` are TICKRATE and SKIPRATE in half milliseconds. The
file has two parts (the machine with its palette, the input state with the
clock); `Restart` may happen at any step, finds as many parts as were written,
and none or all of them readable; a part that is cut is taken for one that is
missing, which is what the comparison of sizes in `restore_state_from` does.
`recent` and `since` remember what the calls of this process, or of one it was
updated from, contributed. They are not in the file: after a restart nothing is
known of what the ring holds, until enough calls have returned.

**Chat** (`javascript`). A chat is a sequence of lines. `storage_trampoline` is
`Return` and `Throw`; `set_storage` is `AppendLine`, `OpenFile` or `OpenFails`,
`WriteFile` and `SetStorageReturns`, with a restart possible in between. A chat
that does not fit the result buffer fails an assertion after its line was kept.
A behaviour is one program, as in `StorageContent`: `HandOver` gives `heir` the
text, and the requests that were taken go on with the old text. They and the
successor write the same state file, in turns this program does not see:
`shared` says that there is such another program, and `OthersWrite` may make the
file `Foreign` at any step, in the middle of a rewrite too. A program that is
started finds any text in the file, what two programs left there included.

**ChatLog.** What a chat promises: a log to which a POST adds its line and
takes its answer in one step, once, and from which a GET takes its answer in one
step. A restart may take lines from its end.

**ImageServer** (`cpp/webp` and `cpp/avif`). One VM (VMs share nothing) and a
sequence of requests; an image, a type and a header list are the number of the
request they come from. Both programs in one module: `converter` decides whether
the image is remembered before or after the options are parsed, and whether the
memory is reset. Codec calls succeed, fail (`Bail`) or raise; where avif does
not look whether its codec succeeded, it goes on with pixels of no image.

**ShmCounter** (`kvm_api.h`, `c/counter.c`, `cpp/shared_counter`).
`Allocate` is `internal_shm_alloc` with its arithmetic, for alignments that are
powers of two (the mask of line 593 rounds no others) and addresses that do not
wrap at 2^64. `Shown` is the 10000 numbers `cpp/shared_counter` has digits for.
`ticket` is the number of a request's own addition.

**Llama** (`cpp/llama`). One request, since the program is ephemeral. `Predict`
and then `Sample` or `Forward` are the two halves of a round of `exec_llama`;
`Pending` and `From` are `embd` and `n_past` after the code that truncates and
swaps. A token is its position in the text, so that a skipped, repeated or
misplaced one shows; `context` is what the library has evaluated, cut to
`n_past` by every call of `llama_eval`. Sampling may end the text, and so may
the check for its end that follows a batch of the prompt. `EvalFails` stops after any number of
batches.

**GoStorage** (`go/varnish`, `go/goexample`). `GoCall` is `StorageCall`, and
after that succeeded `StorageCallV`; `MyStorage` is the trampoline and
`my_storage`. Lines that fit the caller's buffer are all given to it. If they do
not fit, the caller gets an error or the first part of them (`Cut`): which it is
is the host's choice, and the repository does not say. `GoDeliver` answers, with the results or with an error; `GoPanic` is
`Deliver` with an empty body, or with a length larger than the buffer. A line carries the number of its request, which
the code's lines do not, so that the properties can tell whose it is.

**BasicAuth** (`cpp/src/basicauth.cpp`). `Authenticate` and
`AuthenticateThrows` are the storage function, `AuthThrow` is `Storage::get`
after a failed call. `proved` and `known` are history: who has sent the
password, and which VMs serve a request whose candidate was in the set when it
began. No action reads them. `AuthenticateThrows` is `substr` with a header that
is too short, which comes before the set is looked at: a candidate in the set is
refused then, by `on_error`.

**StorageCalls.** The host with either program, chosen by `Init`; its fairness
and the liveness property hold for both.

**KeptBuffers** (`cpp/src/deflate.cpp`, `c/zlib/zlib.c`, `cpp/src/payload.cpp`).
One VM of one of the programs; a request is a record of what decides about it:
what it asks for, the bytes it needs, whether the data are what they should be,
and whether there is memory. `buffer` is the size of the allocation or `Null`,
`recorded` what the program takes it for. `Compress`, `Decompress` with
`Decoded` (the results of libdeflate) and `DecompressNowhere` are deflate's
`on_post`, `ZlibCompress` is zlib's, `GetPayload` with `Fill` is payload's
`on_get`. A decompressor that was freed may do anything; `Reset` is a VM after a
crash. `served` is the history, with a mark on every request that might fail in
a VM that is as `main` left it (`Guilty`); properties read it, and its length is
the bound. A decompression that fails because good compressions before it left
a buffer smaller than the first one is not marked: the properties name that case
(`OutOfRoom`).

Every module has variants of some of its actions, named for what is different
(`ClearNothing`, `LiveUpdateKeepsLength`). No specification uses them: each stands for
a slip in the code that one of the properties must notice, and `PROJECT.json`
says which.

## Runs

| Run | Checks | Bounds |
|---|---|---|
| `StorageContent` | `ImplementsRegister`, `SelfFetchGetsNothing`, `StorageIsReleased` | 2 VMs, the task and one update, bodies of at most one byte, 15 contents to begin with |
| `BatchedCounter` | `ExactCount`, `NeverOverReports`, `BoundedBacklog`, `AnswersGrow` | 2 VMs, batches of 2, 6 requests, 2 updates |
| `Collector` | `EveryVisitOnce`, `ReportsWholeBatches` | 2 VMs, 2 URLs, batches of 2, 5 visits |
| `GameBoy` | `KeysHeldFourCalls`, `BoundedCatchUp`, `AheadOnlyAfterRestore` | the code's rates; delays of exactly a tick and exactly SKIPRATE; state stored every 3 frames; calls begin before frame 3 and time 101 |
| `Chat` | `ImplementsLog`, `OneChat`, `FileFollowsChat`, `ChatOnlyGrows` | 2 VMs, 2 lines, a chat of up to 2 lines to begin with, requests while it has fewer than 3, results of 2 lines, 1 restart, one update |
| `ImageServer` | `AnswersAreOwn` | 3 requests |
| `ShmCounter` | `BlocksApart`, `CountsItself`, `NumbersApart` | 2 VMs, 4 requests, 3 blocks, a counter that wraps at 4, 3 numbers to show |
| `Llama` | `ContextFits`, `ResultIsText`, `SamplesFromText`, `Terminates` | a context of 9 tokens, batches of 3, 16 sampled tokens, prompts of up to 6 |
| `StorageCalls` | `AnswersShowStorage`, `OnlyAuthenticated`, `StaysAuthenticated`, `EveryRequestAnswered` | 2 VMs; 4 GETs of the Go program and results of 5 lines; 2 candidates, 2 passwords |
| `KeptBuffers` | `RecordedIsAllocated`, `FaultsHaveCause`, `PayloadAsAsked` | 4 requests between resets, outputs of up to 4 units, first buffers of 2 |

All but `BatchedCounter`, `ImageServer`, `Llama` and `StorageCalls`, whose type
invariants the proofs establish, also check their module's type invariant
(`TypeOK`, `ShmTypeOK`, `CollectTypeOK`). Two more runs show the
disagreements [below](#where-the-code-and-its-documentation-disagree).

Why the bounds are enough. Two VMs show every interleaving of two callers; a
third adds only a longer queue, and the proofs cover any number. One byte is enough for a body because
the properties tell contents apart only by being the same, empty, or cut at a
NUL; with three bytes of allocation `strlen` runs past the end of one that holds
no NUL. With batches of two and six requests both VMs commit, one commits twice,
and an update meets a VM at every step. Five visits are two batches and one
visit left over. In `GameBoy` a call that begins at frame 2 draws past the frame to be stored,
one that begins before it ends on it; two delays add up to more than SKIPRATE; the ring of four wraps around because calls are
not bounded by frames (a call may draw none, or fail). Three lines exceed the result
buffer by one; a chat may begin with as many as fit it. Three requests to an image server are one that leaves something
behind, one that fails, and one that could be given it. Four requests wrap the
shared counter; the proofs cover any areas, widths and numbers of requests. Four GETs of the Go program add up to eight lines:
the result buffer overflows in the first call of one and in the second call of
another, and each pair of calls has another one's lines between them; two
candidates and two passwords are enough for one to profit from the other and
for the password to change. In `KeptBuffers` a request that leaves damage, one
that meets it and two before them reach every size below and above the first
buffer, the buffer of no bytes that deflate ends up with, and a second failure
in the same VM; the proofs cover every number of requests. In `Llama` a prompt of 5 is two
batches and one of 6 is too long, 16 tokens fill the context three times, and
half of what is not kept is rounded down in one swap and not in another; the
proofs cover every size.

Two properties are refinements. `ImplementsRegister` is `ContentRegister!Spec`
with `value` read as the first `cont_len` bytes of `cont`: it is about the
clients of one program, and what the successor serves is `RemembersContent`'s
question. `ImplementsLog` is
`ChatLog!Spec` with `log` read as `Settled`, the chat without the line of a POST
that is still rewriting the file.

Fairness (`StorageContent`, `StorageCalls` and `Llama`; the other runs check
safety). `Llama` is
sequential code that waits for nothing: weak fairness of its next step. In
`StorageContent`, guest code that
can run does, storage is given to the head of its queue, and the host ends each
request within `max_request_time`: weak fairness of the VMs' steps, of `Expire`
among them, of `Enter`, of the task's steps and the update. The task's fetch is
given to a VM eventually: strong fairness of `TakeFetch`, since other requests
may take the VMs again and again; after an update the successor takes it (weak
fairness of `FetchElsewhere`). Nothing is assumed of visitors, timers,
or `FetchFails`. In `StorageCalls` the guest's steps and `Enter` are enough:
no request of these programs needs the time limit to be answered, and none is
assumed. `StorageIsReleased` depends on `Expire`: the task waits for
its fetch, whose handler waits for storage, which the task holds.

Deadlock is checked where the host can always do something (`StorageContent`,
`Chat`, `StorageCalls`). The other configurations switch it off, because their requests, visits
or frames are bounded and the model stops when they are used up; in `Collector`
a mutex that is left locked also stops everything but terminations.

## Proofs

All theorems hold for every value of the constants that satisfies the modules'
named assumptions (`ComputeAssumption` and so on), which say no more than that
sets are disjoint, that requests and the collector's VMs are finitely many,
that bounds are numbers, that `COMMIT_COUNT` and the like are positive, and that
a shared memory area ends where it begins or later, one at address 0 at once,
with alignments that are powers of two, and that `strlen` reads past the longest
body.

* **Compute_proofs.** `ExclusiveStorage` with the type invariant is inductive.
  It is about the host of our description and no result about a program: what it
  is for are the proofs below.
  The queue is the difficulty: a timeout removes an element from its
  middle, and `RemoveAtEntries` says which entries remain and that they stay
  distinct.
* **StorageContent_proofs.** Every step is a step of the host or leaves its
  variables alone (`NextIsComputeStep`), hence `RunsOnHost` (`ComputeSpec`), and
  `ExclusiveStorage` follows from the host's lemma without another induction.
  For the types, `StringsAreContents` says that what `strlen` finds, terminated
  or not, is a content that a successor may begin with. `RepliesAreInHand` strengthens `SelfFetchGetsNothing`: a VM has a reply only
  while its handler runs and no request to serve outside of one;
  `TaskFetchesInStorage` adds that the task's fetch is under way only while the
  task holds storage; a request whose fetch was given up is any other request.
  `ContentIsARegister` is
  the refinement: the arrival of a request maps to `Ask`, the storage functions
  to `Read` and `Write`, the end of a request to `Conclude`, an update and all
  else to a stutter; `AppendedPart` gives that the first
  `cont_len` bytes of the new buffer are the body whatever its last byte is.
* **Counters_proofs** (`BatchedCounter`, `ShmCounter`, `Collector`).
  * `BatchedCounter`. `RequestsInOnePlace` is the strengthening: the
    sets of requests that the counters have counted are disjoint between VMs, a
    VM's own are in no storage counter of any generation, and
    all of them have arrived. With it the cardinalities add up (`CountIsExact`,
    `NoOverReporting`, `BacklogIsBounded`). `AnswersAreBehindTotals` says that a
    VM's last answer is at most its local counter plus its storage counter,
    and less once the next request was counted; so the answer to that one is
    greater (`AnswersAlwaysGrow`).
  * `ShmCounter`. `AllocInv`: the allocator is past everything it has
    allocated, in the order of allocation, and past the end of the area once it
    has refused; so blocks never meet, whatever sizes and alignments are asked
    for. It needs that an area at address 0 is empty, which is how the host says
    that there is none: a block at 0 would be taken for a refusal.
    `CellCounts`, that the cell is the number of additions modulo its width, is
    inductive with a lemma about remainders (`OneMore`); `NumberInv` adds that
    tickets are different and that an answer of `cpp/shared_counter` is one less
    than its ticket, until the numbers are used up: `NumbersApart`.
    `CountInv` adds to `CountsItself` that no ticket is larger than the counter,
    that a request is served by one VM, and that it has no answer before its
    addition: between the addition and the reading others may only make
    the counter larger.
  * `Collector`. `BatchInv` says that a batch is collected as soon as it is full.
    `MutexInv`: only the owner of the mutex collects or copies; while it
    collects, storage is the whole batches plus the part of its own batch that it
    has come through, and when nobody owns the mutex it is the whole batches.
    A mutex that a terminated request left locked keeps everybody out, so that
    nothing need be said of storage then. `EveryVisitIsSomewhereOnce` moves
    requests between places: a step of one VM changes what that VM holds
    (`RestCounts` says how much that is) and the sum over all VMs by as much
    (`HeldChange`). The library defines such a sum by recursion over sets and its
    induction theorems cannot be used here, so `SumExists`, `SumsAgree` and
    `SumsDiffer` are proved from well-foundedness: among the subsets for which a
    claim fails there is a smallest one (`SmallestSubset`), and one element
    fewer contradicts it.
* **GameBoy_proofs.** `BoundedCatchUp` and `AheadOnlyAfterRestore` each with the
  facts about the step they need (in the loop: how far the clock and the frames
  of this call have come), by induction over all steps including `Restart` and
  `LiveUpdate`. `KeysHeldFourCalls` is proved from `Window`, the same claim key
  by key: a slot of the ring holds at least what the calls of this process
  contributed to it, and, if `since` says that the slot has been cleared by a
  call of this process, nothing else. A restart begins with
  `since = 0`, so that nothing need be said of the file; a call that throws leaves
  the ring and its position as its contribution has made them.
* **Llama_proofs.** `Phases` says how the counters relate while the prompt is
  fed in (`n_past` and `embd` make up `n_consumed`) and while tokens are sampled
  (one at a time); it gives that nothing is ever truncated and that a swap
  starts from a full context (`NothingTruncated`, `SwapFits`), from which
  `ContextFits` follows for every size and rounding. `AnswerIsText` is by
  induction on the rounds; `PushPush` slides the sampler's window over two
  pieces of text at once. `Sampling` is the strengthening for
  `SamplesFromText`: until the first swap the context and the pending tokens are
  the text, afterwards the kept part is its beginning, and the newest token is
  the last one pending or evaluated.
* **StorageCalls_proofs.** `OnlyAuthenticated` needs only that what a VM serves
  as a request was one. `StaysAuthenticated` is proved with `AuthInv`, that a VM
  marked as known serves a candidate in the set and a refused one was not.
  `AnswersShowStorage` is proved with `GoInv`: which lines of a VM's request
  storage has says how far the request is (`CallsOf`), and no two VMs serve one
  request; `TransferFacts` covers what may come of a result that is too long,
  and `PrefixEntries` carries the results along as storage grows.
* **KeptMemory_proofs** (`KeptBuffers`, `ImageServer`).
  * `KeptBuffers`. `BufferInv` adds to the properties `Damage`: a lost
    buffer, or a freed decompressor, has its cause among the requests served (a
    `Culprit`: one that was guilty or `OutOfRoom`), and in zlib that request was
    larger than the recorded size; a crash is always the last request; and
    `RoomLeft`: the recorded size covers whatever was answered well, and is below
    the first buffer's only after a good compression. `AnswerAppends` says once
    what one more request does to the history. `PayloadIsAsAsked` is separate: the run of requests of one size
    either grows by one or begins anew.
  * `ImageServer`. `ImageInv` says of each global at which steps of a request it
    is the request's own: the picture once decoded and the output while encoding
    (`OwnPicture`), the image from the decoding on, and in a POST to webp image
    and type from the beginning (`OwnImage`), the headers until they are fetched with, and none
    afterwards unless the VM is about to be reset (`OwnHeaders`).
* **Chat_proofs.** A restart is the one step that is not the host's, so the chat
  does not refine `ComputeSpec`: `NextIsComputeStep` says that every step is a
  step of the host or begins it anew, and `ExclusiveStorage` follows from
  `ExclusiveStep` of `Compute_proofs`. An update and what other programs do to
  the file leave the text alone, and the claims about the file are only made as
  long as it is not `Foreign`. `ChatInv` adds `Rewriting` (while the file
  is rewritten, the holder of storage is a POST whose line is the last one of
  the chat), `ResultsInHand` (a VM has a result only while its handler runs, so
  that no request starts with the result of another) and what `FileInv` says of
  the end of a rewrite. `ReturnKeepsInv` covers the four ways a storage function
  can end, exceptions and results that do not fit among them. `ChatIsALog` maps
  each step to one of `ChatLog` or a stutter: a POST becomes visible when its
  storage function ends, whatever the end (`ReturnIsLogStep`), and a restart in
  the middle of a rewrite leaves a beginning of the log, or the log and the line
  of the POST that it ends (`RestartIsLogStep`). It needs `NoRequestOutside`, an
  invariant of its own: a VM without a handler has no request.

Every invariant and every action property that a passing run checks is a
theorem. Only model-checked: `StorageIsReleased`, `Terminates` and
`EveryRequestAnswered` (liveness is out of the prover's reach).

## Where the code and its documentation disagree

Two have a run that ends in a counterexample.

1. `StorageRemembers`: `on_resume_update` of `c/storage.c` restores the bytes
   but not `cont_len`; after an update GET answers with nothing.
2. `LlamaRecomputes`: a swap puts zeros into the context where llama.cpp:284
   has the newest tokens, because `last_n_tokens` is never written after it was
   filled; the newest tokens are in `last_tokens`.

The others are plain in the code. The models have them all, and the properties
are stated with them: what still holds in their presence.

* A POST to the chat whose state file cannot be opened is answered with 201 and
  an empty text (`storage_trampoline`, main.c:285); chat.js:117 has "The result
  is the updated text".
* `on_error` of `cpp/webp` (line 184) answers a GET that fails before line 149
  with the image of an earlier request; line 183 has "Respond with the source
  image".
* A GET to `cpp/webp` never sets the content type of the original, which `bail`
  (helpers.hpp:14) and `on_error` answer with: the client gets its own image
  under the type of the last POST. `AnswersAreOwn` says nothing of the type in
  these answers, nor of the image in `on_error`'s.
* `get_frame` of `cpp/gbc` frees the new PNG before it returns it (main.cpp:173
  and 207), in every call that draws a frame. A call that cannot store its state
  throws, and its keys stay for the next one. Line 199 has "Store state every X
  frames", but the test is made once per call, of the last frame it has drawn: a
  call that draws several can step over the frame to be stored.
* `deflate.cpp` frees its only decompressor when a body cannot be decompressed
  (lines 88, 104, 115, 120) and goes on using it. When the output does not fit
  it "resizes the buffer" (line 100) to a size libdeflate has not set, 0: the
  buffer is freed, its recorded size stays, and the next compression writes to
  a null pointer. After a compression the decompression has only as much room
  as that compression needed, so that a request with nothing wrong in it fails,
  and leaves the freed decompressor, without any failure before it.
  `FaultsHaveCause` names that case and bounds the damage.
* `zlib.c` loses its buffer when `realloc` fails (line 76), and answers every
  request of at most the recorded size with 503 until a larger one comes.
  It sizes the buffer with `compressBound` (line 74), which has no room for the
  gzip header that `16 + MAX_WBITS` asks for: 4.2 million random bytes need
  1,298 bytes more than their size, the bound allows 1,294, and the answer is
  503 "Failed to compress data" unless an earlier request left a larger buffer.
* `payload.cpp` answers a request for random bytes with the constant bytes of
  the request before if their number is the same (line 31).
* `Deliver` of the Go binding panics for an empty content (api.go:76), and the
  example's storage grows without end, so that after 2 MB of lines a GET is answered
  with an error, or with results that end where the buffer does (which of the two
  is the host's doing, see below). `on_get` of the example has no return after it has
  delivered an error (goexample.go:34): that the program stops there is the
  host's doing.

## Assumptions about the host

What the models assume because the repository does not show it:

* `backend_response` ends the request: the handler does not go on after it
  (the programs rely on it, for example main.cpp:216 of `cpp/gbc`).
* A storage function in progress is not interrupted by the time limit of the
  request that called it. A failed assertion in storage ends the call with an
  error and keeps what it had changed (kvm_api.h:355-356).
* Storage functions that are called directly (`cpp/minimal`, `cpp/collector`)
  run side by side, in the caller's VM on the storage program's memory. When
  the caller is terminated, its VM is reset and storage is not.
* A live update is one access to storage; in `cpp/minimal`, one step.
  Requests that have been taken by then, running or queued, end in the old
  program and its storage, and no new ones are given to it. So a POST that is
  answered after an update can be missing in the successor, in `c/storage.c` and
  in the chat, whose state file it rewrites all the same. The register and the
  log of the refinements are what the clients of one program see; none is
  claimed of the clients of two.
* `sys_fetch` may fail at any time, also when a VM has taken the request: that
  VM then goes on with it.
* What becomes of a result longer than the caller's buffer is open: for Go's
  `storage_callv` both answers are modelled, an error (which is what api.go:167
  and 200 test for) and the first part of the result with a length that is not
  negative (which is how javascript/src/main.c:328 reads it). In the chat the
  storage function itself checks the size before it returns.
* `file_writer` may throw on opening or on writing; storage then goes on as it
  is, or is started anew (a restart), and the state file is as it was, empty or
  cut.
* A VM whose handler ends with an exception, or runs out of time, is reset to
  what `main` left, in programs that are not ephemeral too. Storage in
  which a function throws is kept as it is or started anew; `BasicAuth` allows
  both.
* `realloc` to no bytes frees the allocation and gives a null pointer, as
  glibc's does. What a freed decompressor does is anything from success to a
  fault.
* Contents in `c/storage.c` fit the 64 KB buffer of `on_get`; longer ones, and
  the unchecked length of line 39, are not modelled.
* Addresses of shared memory do not wrap at 2^64.
* In `cpp/collector` a termination leaves the mutex as it is. That nobody can
  report again after one that left it locked is what the model does; no
  property says so, and no document promises otherwise.
* The CPU clock that `cpp/gbc` reads starts at zero in every process, and no
  time passes for it while storage is idle; delays between calls are arbitrary
  because of the work of other callers.
* A rewrite of the chat's file is cut between lines.

## Not modelled

QuickJS (`javascript/quickjs`) and the other libraries, codecs and emulators
are third-party; the static site, formatting, headers other than the ones that
outlive a request, and caching parameters carry no state. The prediction of
frames in `cpp/gbc` is switched off by `if (false && ...)`. Build, upload and
measurement scripts are not part of the running system.

The programs whose VMs are reset after every request and share nothing
(`c/zstd`, `cpp/zstd`, `cpp/thumbnail`, `espeak`, `minify`, `xml`, `base64`,
`fetch` and the like: `compute.json` does not make them `"ephemeral": false`)
have globals, such as the thumbnail sizes and the recorded speech, but no second
request to see them. The fetching GET of `c/zlib` keeps nothing either.

The paused loops of `hello_world.cpp` and `deno/server.ts`, and streaming,
multiprocessing and sockets of `kvm_api.h`, are loops around calls of the host:
which events come, how often and after what, is not in the repository, and a
model would be of a host of our making. The Python, Rust and V8 bindings, and
the `Curl` wrappers, pass arguments on. The Nim binding's POST trampoline takes
a Nim string for the content type (varnish.nim:35) where C passes a character
pointer (main.c:38), so that what a POST does depends on how the compiler lays
out a string; its GET keeps no state.

## Plan

Done: the modules above, in this order: the host and `c/storage.c` with its
register; `cpp/minimal` and `cpp/collector`; `cpp/gbc`; the chat; the image
converters; shared memory; llama; the Go example and basicauth; the programs that
keep buffers. Every invariant and action property that a run checks is proved.

Next, in order:

1. A counter as an abstract specification (a set of requests that have been
   counted, an answer between the number when it was asked for and the number
   when it is given), and `BatchedCounter` and `ShmCounter` shown to implement
   what each of them can: the former may lose what a VM holds back, the latter
   answers with its own addition counted.
2. What the liveness properties rest on as safety theorems: that in
   `StorageCalls` a VM that waits for storage is in the queue, and that some
   step of the guest or the host is possible whenever a request is unanswered.
3. A program and its successor side by side over one state file, for the chat:
   which lines survive when both write it, which `Foreign` leaves open.
