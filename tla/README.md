# TLA+ models of c-embedded-utils

A collection of small C utilities for embedded targets: no allocation, no threads of
its own, errors as return codes, the client owns all memory.  Each utility is a struct
and a handful of functions on it.  What is hard about them is therefore not
distribution but (a) calls from an interrupt between two stores of another call,
(b) client callbacks that call back, (c) indices and counters at their limits, and
(d) long sequences of legal calls.  This directory models the utilities with enough of
that to be checked by TLC and, for the safety of every container, the search, the
FSM runner, the event publisher and the ring in an interrupt, proved with TLAPS.

Paths below are relative to the repository root.

## 1. Inventory

| Component | State | Operations | What makes it correct |
|---|---|---|---|
| Circular buffer (`src/collections/circular_buffer.c`) | array, `buffer_max_size`, `read_index`, `write_index`, `buffer_is_empty` | init, deinit, push_byte, pop_byte, get_count | it is a FIFO that drops its oldest byte when full; indices stay in the array; usable between an interrupt and the main loop (header, line 30) |
| Fast circular buffer (`src/collections/fast_circular_buffer.c`) | array, `size_mask`, two free-running `size_t` counters | the same | the same FIFO, also when a counter wraps at the width of `size_t` |
| Iterative binary search (`src/search_algos/bsearch_iter.c`) | status, window, pivot, pivot offset | init, deinit, notify, get_check_index, get_found_index | finds a readable match if there is one; stays in the range; ends |
| Simple FSM runner (`src/simple_fsm/simple_fsm.c`) | configuration, `state`, `started` | init, deinit, start, on_event, force_stop | entries and exits are matched; no handler of a stopped machine runs; calls return |
| Copy queue (`src/collections/copy_queue.c`) | `count`, `max_size`, `element_size`, byte offsets `tail_idx` and `head_idx` | init, deinit, enqueue, dequeue, peek, get_remaining, get_size | a bounded FIFO inside the buffer it was given |
| Bounded heap (`src/collections/bounded_heap.c`) | array of client pointers, `items_in_heap` | init, deinit, push, pop, peek, get_remaining, get_size | holds what was pushed, once; pops in order of the client's comparison |
| Pointer stack (`src/collections/ptr_stack.c`) | array of pointers, `max_item_count`, `stack_top` | init, deinit, push, pop, get_remaining_count | a bounded LIFO that stays in its array |
| Static pool and pool allocator interface (`src/mem_alloc/`) | configuration, free stack; the interface is a table of functions | init, deinit, allocate, deallocate, get_available_count, as_i_pool_allocator | an object has one owner at a time and lies in the buffer |
| Static event publisher (`src/events/static_event_publisher.c`) | configured subscriber list | init, deinit, notify_subscribers | every subscriber hears every event once, whatever callbacks call; a notification returns |
| Packing (`src/struct_pack/`) | none | `le_pack_*`, `le_unpack_*`, `pack_is_within_buffer` | round trip; touches only its bytes; exact bound check |
| Numeric and bit operations (`src/operations/`) | none | power-of-two test, bit count | agrees with the arithmetic definition |
| Error codes (`include/cemb/error_codes.h`) | none | none | shared by all |

Interactions: the static pool calls the pointer stack and is called through the pool
allocator interface's function table; the fast circular buffer calls the power-of-two
test; the FSM runner and the event publisher call client code, which may call them
back; a ring is shared by an interrupt handler and the main loop.  There is no other
shared state, no persistence and no messaging.

The behaviours that are hard to test are listed, at their lines, under `hazards` in
`PROJECT.json`.

## 2. Modules

| Module | Models |
|---|---|
| `ErrorCodes` | the codes of `error_codes.h` that the modelled calls return |
| `OverwritingFifo` | abstract: what both rings promise |
| `CircularBuffer` | `circular_buffer.c`, call after call; refines `OverwritingFifo` |
| `CircularBufferISR` | `circular_buffer.c`, push and pop interleaved at their loads and stores |
| `CircularBufferISR_proofs` | proofs about `CircularBufferISR`: the uses of the ring that are safe |
| `FastCircularBuffer` | `fast_circular_buffer.c`, call after call; refines `OverwritingFifo` |
| `FastCircularBuffer_proofs` | proofs about `FastCircularBuffer`, the refinement included |
| `BsearchIter` | `bsearch_iter.c` with the client's array |
| `BsearchIter_proofs` | proofs about `BsearchIter` |
| `SimpleFSM` | `simple_fsm.c`, cut at every handler call |
| `BoundedFifo` | abstract: what the copy queue promises; `OverwritingFifo` with a refusing push and a peek |
| `CopyQueue` | `copy_queue.c`, call after call; refines `BoundedFifo` for the first lap |
| `CopyQueue_proofs` | proofs about `CopyQueue`, the refinement included |
| `BoundedHeap` | `bounded_heap.c`, cut at the iterations of its loops |
| `BoundedHeap_proofs` | proofs about `BoundedHeap` |
| `PtrStack` | `ptr_stack.c`, operators on the record of the stack's owner |
| `StaticPool` | `static_pool.c` over `PtrStack`, called through `i_pool_allocator.c` |
| `StaticEventPublisher` | `static_event_publisher.c`, cut at every callback |
| `LePack` | `le_pack.c` and `pack.c` |
| `LePack_proofs` | proofs about `LePack` |
| `NumericOps` | `numeric_ops.c` and `bit_ops.c` |
| `Containers` | the rings, queue, heap and pool side by side |
| `Containers_proofs` | proofs about `CircularBuffer`, the refinement included, about `StaticPool` and the stack under it, and the theorems about the other containers carried over to `Containers` |
| `MCContainers` | ranks of the heap's items, for TLC |
| `Dispatchers` | the FSM runner and the publisher side by side |
| `Dispatchers_proofs` | proofs about `SimpleFSM` and `StaticEventPublisher` |
| `MCDispatchers` | lists of subscribers, for TLC |
| `Operations` | packing and the numeric operations side by side, for TLC |

`Containers`, `Dispatchers` and `Operations` put components that share no state into
one specification with a variable `driven` that says which one a behaviour exercises; the others keep their
initial state.  They add no behaviour of their own: they let one run, with one set of
bounds, check several components.  The composition that the code has is in the modules
themselves: `StaticPool` calls `PtrStack`, and the allocator interface calls the pool.
`RECURSIVE` operators come in only through `Bitwise`, which only `NumericOps` uses.

Definitions named "Faulty variant" in the modules are what a plausible slip in the code
would make of the definition after them.  Nothing uses them; each one, put in place of
its original, must make a named property fail (`mutants` in `PROJECT.json`).

### Rings: `OverwritingFifo`, `CircularBuffer`, `FastCircularBuffer`

`OverwritingFifo` has a capacity (0 when deinitialised) and the sequence of the bytes
held.  Its actions are init accepted or rejected, deinit, push (which drops the head of
a full sequence), pop, and the refused push and pop with their codes.

The two detailed modules keep the fields of the C structs under their C names, plus
`ret`, the last code returned, and `out`, the client's variable that `pop_byte` writes.
Each public function is one action.  The array has `MaxSize` bytes and `init` may be
called at any time with any part of it, also with sizes it must reject.  `get_count` is
an operator, used by pop as in the code.  The refinement mapping (`Contents`) is the
`get_count` bytes that follow the read index round the array.

The fast ring's counters are numbers modulo `SizeMod`, the number of values of
`size_t`, so that they do wrap; `index & size_mask` is the remainder by
`size_mask + 1`, a power of two by `ValidConfig`.  A deinitialised fast ring is one
with `size_mask` 0, which is why a ring of one byte is rejected.

### `CircularBufferISR`

`circular_buffer.h:30` offers the ring for "ISR to main thread".  Here one producer
only pushes and one consumer only pops; `prod.pc` and `cons.pc` say between which two
accesses of the shared fields each is, and the registers hold what it has loaded.  The
operands of an expression are loaded left to right and each access is one step, in
program order: the build asks for no optimisation.  (An optimising compiler may load
less often, since the fields are not volatile; that removes some interleavings and adds
others, and is not modelled.)  `init` has run, and neither side calls `init` or
`deinit` again.

`use` fixes how the ring is used:

* `isr_pushes`, `isr_pops`: that call is the interrupt.  It runs to the end once it has
  begun; the main loop's call can be interrupted anywhere;
* `lockstep`: as `isr_pushes`, but the interrupt pushes only when every byte pushed so
  far has been popped;
* `masked`: the main loop masks the interrupt during its own calls.

The bytes pushed are consecutive numbers modulo `ByteMod`, so the byte a pop should
return (`Oldest`) is determined by how many were pushed; `ByteMod > Size + Limit` keeps
the bytes outstanding and the stale ones in the array apart.

### `BsearchIter`

The iterator's fields under their C names, and the client: the range of the last init,
which indices are smaller than, equal to and larger than the wanted element (two
boundaries, since the array is sorted), the set of indices that cannot be fetched, the
set already looked at, and whether the client gave up.  The client answers truthfully
or aborts.  `notify` is one action with one disjunct per notification.  A sum that
exceeds `INT32_MAX` is undefined in C; `Int32` gives both results a build produces (the
wide value and the wrapped one), and the search must be right with either.

### `SimpleFSM`

An API call is a frame on `stack`, innermost first, suspended in the handler it has
called; `HandlerReturns` is the code from that handler's return to the next handler
call or to the return of the API call.  A handler may return any state.  `open` counts,
per state, the entry handlers called minus the exit handlers called; it exists for the
properties.  `client` fixes what handlers do besides: `straying` ones return states
that are out of bounds, `nesting` ones call `start` and `on_event` from entry and event
handlers, `stopping` ones call `force_stop` from an event handler.  `must_reset` says
that a call returned a code of `ResetAfter` to the client, which then makes no other
call than `deinit`, or `init` if the machine is stopped (the header asks for this after
`ERR_TIMEOUT`).

Not included: any call from an *exit* handler, which runs when its state is already
closed, so that entries and exits cannot be matched by any rule; `force_stop` from an
entry handler; `init` and `deinit` from a handler, which the header excludes for a
running machine.  The theorems about the runner are for the calls that are included.

### `CopyQueue`, `BoundedFifo`

The queue's fields under their C names.  `tail_idx` and `head_idx` are byte offsets that
only grow, so the model's `memory` goes on after the client's buffer and what the queue
does there can be seen.  An element is kept at the offset of its first byte: live
elements have one size and start at multiples of it, so they cannot overlap.  `Laps`
bounds what the client enqueues between two inits, as a multiple of what the queue can
hold.  With `Laps = 1` the queue is a bounded FIFO inside its buffer; with `Laps = 2` it
is not, which is a finding.  The client's `element_count * element_size` fits a
`size_t`; the code's check of the product would accept one that has wrapped.

### `BoundedHeap`

A push or pop is one step up to its loop, then one step per iteration (`SiftUp`,
`SiftDown`), so that the invariants speak about the heap in the middle of a sift.
`compare` is the client's function; `Rank` gives items equal ranks too.  `heap_storage`
has the entries in use as its domain, since the code reads no others.  `inside` (pushed
and not popped) and `skipped` exist for the properties: `skipped` records that a
sift-down has ended at a parent with only a left child that ranks above it.  `Ordered`
and the order of the pops are stated up to that point, and a finding shows that they
fail after it.  The client does not push an item that is already in the heap.

### `PtrStack`, `StaticPool`

A pool's pointers are offsets in its buffer, `NULL` or `Foreign`.  `handle` holds the
client's pointer variables.  A `careful` client frees each object it holds once, into
the pool it came from, drops its pointers when the pool is set up again, and configures
a pool whose size fits a `size_t`.  A `careless` one copies and forges pointers, keeps
them, and configures anything: for it only `StackInBounds` is claimed.  `allocate` and
`deallocate` are called through `Interface`, the function table.  Two things are as in
the code and worth knowing: an `object_count` of 0 is accepted and leaves the old free
stack in place, because the result of `ptr_stack_init` is ignored; and after deinit the
available count reads `object_count`, although nothing can be allocated.

### `StaticEventPublisher`

A notification is a frame on `stack`, suspended in the callback of the subscriber at
`idx`; `CallbackReturns` is the code from there to the next callback or the return.
`callbacks` is the set of calls that callbacks may make before they return: `"notify"`
is `notify_subscribers`, `"configure"` is init and deinit.  With both, a callback can
replace or clear the list in the middle of nested notifications.  The loop reads count
and list anew at every turn, as in the code.
`seen` and `log` record who was called with which event, and who was subscribed and
which notifications were in progress when an event was notified.

### `LePack`, `NumericOps`

A type is its width and how it is read; each has one pack and one unpack function.  A
byte has `ByteMod` values, so that a field of 8 bytes stays within TLC's integers; the
code treats bytes by position and is the same for any base.  A value is a number, raw
data the function of its bytes, which `memcpy` copies.  A shift by `8 * k` bits is the
factor `Place(k)`, and the sums of `le_unpack` are written out term by term, as in the
code.  Which values are packed (`Values`) and which sizes raw data has (`RawSizes`) are
parameters: the proofs cover all values of a type, TLC the samples of `Operations`.
`fields` holds what was packed and not overwritten since; `last` the last call and its
result.  A shift into the sign bit is undefined in C; the model keeps the bits, as
builds do.
`NumericOps` checks the two bit tricks on every word of `WordBytes` bytes.

## 3. Runs

| Run | Expect | Shows |
|---|---|---|
| `containers` | pass | ring: indices in the ring (`IndexInv`), every step one of `OverwritingFifo` (`ImplementsFifo`); fast ring: the same while its counters wrap (`CountInv`, `FastImplementsFifo`); copy queue, first lap: in its buffer (`StaysInBuffer`) and a bounded FIFO (`QueueImplementsFifo`); heap: no item lost or doubled (`HeldOnce`), in order until a comparison is skipped (`Ordered`, `PopsGreatestUnlessSkipped`); pool: one owner per object (`OneOwner`), honest count (`AvailableIsHonest`), stack in bounds for any client (`StackInBounds`) |
| `copy_queue_second_lap` | violation | the element after the first `element_count` ones is copied past the buffer |
| `heap_left_child_skipped` | violation | a pop that leaves two items does not compare them; pops come out of order |
| `isr_safe` | pass | `masked` and `lockstep` use: pops return the oldest byte (`PopsOldest`), `ERR_EMPTY` is never returned for a ring that held a byte when pop was called (`EmptyMeansEmpty`), waiting bytes are delivered (`Delivered`) |
| `isr_unmasked` | violation | a call between the other side's stores of its index and of the flag: a pop there leaves an empty ring marked full, a push there has its byte skipped.  Either use alone violates the property; TLC reports the one it meets first |
| `isr_count_torn` | violation | `get_count` loads the indices twice; an interrupt that fills the ring in between makes it return 0 |
| `bsearch` | pass | all ranges, matches and unreadable sets over indices 0..5: right answer (`ResultIsRight`), only fresh indices of the range (`ChecksFreshIndex`), the inductive invariant (`WindowInv`), logarithmic rounds when all is readable (`Halves`) |
| `bsearch_header_example` | violation | the header's example passes the element count as the inclusive stop index |
| `dispatchers` | pass | FSM, straying and nesting clients: entries and exits matched (`EntriesMatchExits`, `HandlersInTurn`), nothing runs on a stopped machine (`QuietWhenStopped`), calls return (`CallsReturn`); publisher: each subscriber hears each event once (`EachHearsOnce`), and in order but for nested events, which overtake exactly at the later subscribers (`HeardByPosition`), nobody is called after deinit (`QuietAfterDeinit`), notifications return (`NotifyReturns`) |
| `operations` | pass | fields read back (`FieldsReadBack`), exact bound check (`BoundsExact`), exact power-of-two test and bit count |
| `fsm_out_of_bounds` | violation | without a reset after `ERR_OUT_OF_BOUNDS` (the header asks for none) the machine runs in a state it has left |
| `fsm_stop_in_handler` | violation | `force_stop` in an event handler does not end the surrounding `on_event` |

The violating runs are described, with the line of the repository they contradict,
under `findings`.  The two about the ring in an interrupt share a cause: shared fields
are read or written in more than one step.  The ring is safe between an interrupt and
the main loop in the two ways `isr_safe` checks, not in general.

Bounds, and why they are enough (for the properties section 4 lists, the result does
not depend on them: it is proved for every value):

* rings: `MaxSize` 4 gives rings of size 1 (every index equal), 2, and two sizes that
  are not multiples of each other, with bytes left over from a larger ring; three byte
  values distinguish the oldest, the newest and the others.
* fast ring: `SizeMod` 8 lets the counters wrap around rings of 2 and 4 bytes at every
  offset, with the full ring half of the counter's range; sizes 1 and 3 must be rejected.
* copy queue: a buffer of 4 bytes holds up to 3 elements of one byte or 2 of two, with
  and without bytes to spare; two laps show the overrun.
* heap: 6 items fill three levels and give parents with two children, one and none;
  ranks come in equal pairs; capacities 0 (rejected), 1 and 6.
* pool: 6 bytes cut into up to 3 objects of 1 to 3 bytes; two handles leave one object
  free, or none in smaller pools; `SizeMod` 8 lets the product 3 * 3 wrap.
* publisher: three events give notifications nested two deep; a list of three and one
  that is shorter and in another order, so that a running loop, or each of several
  nested ones, can meet a list that has shrunk below its index.
* packing: two fields anywhere in 9 bytes, overlapping, adjacent and apart, for every
  offset of a 16-value `size_t`, so that offset plus size wraps; the values are the
  least, the largest, those next to the sign and one whose bytes differ; raw data is
  empty (refused), of three bytes, or as long as the buffer.  The numeric
  operations are checked on all words of two bytes.
* interrupt: `Size` 3 separates first, middle and last slot; `Limit` 5 allows two
  overwrites before a pop.  The violating runs use the smallest limit that shows the
  point: 2 bytes outstanding, so never overwriting, and 3, a ring just filled.
* search: `IntMax` 5 is the first width where a skip sequence +1, -1, +2, -2 fits
  inside a window and a second window still follows; it includes the ranges that end
  at `INT32_MAX`.
* FSM: three states give a transition, a redirected transition and a cycle; a limit of
  three transitions lets a cycle come round; three nested calls.

Fairness:

* `CircularBufferISR`: weak fairness of the consumer (the main loop keeps polling, or,
  for a consumer in the interrupt, it keeps firing) and of a push that has begun (an
  interrupt handler runs to its end).  No push is ever forced to begin.
* `SimpleFSM`: weak fairness of handlers returning.  Nothing forces the client to call.
  `CallsReturn` is stated for handlers that do not call `on_event` themselves, since
  one that keeps doing so need never return.
* `StaticEventPublisher`: weak fairness of callbacks returning.  `NotifyReturns` leaves
  out callbacks that notify, for the same reason.
* The other modules state no liveness.  For the search, termination follows from
  `ChecksFreshIndex`: every round looks at a new index of a finite range.

## 4. Proofs

Every theorem holds for every value of the constants.  Where a module has `ASSUME`s
they are the hypotheses; the modules that `Containers` and `Dispatchers` instantiate
state theirs as an operator (`FastConstants`, `QueueConstants`, `HeapConstants`,
`PoolConstants`, `PublisherConstants`), which the theorems assume and the composing
module assumes of its constants, so that TLC evaluates it.
Each argument below names the inductive invariant and why the property alone is not
inductive.  The invariants were checked by TLC on small instances before being proved.

`Containers_proofs`, the ring (from `Byte # {}` and `MaxSize >= 1`):

* `TypeCorrect`, `IndexCorrect`: `Spec => []TypeOK`, `Spec => []IndexInv`.  The
  inductive invariant is their conjunction: `IndexInv` needs the types, and the type of
  the indices needs `IndexInv`, because an index stays in the array only by being
  reduced modulo a `buffer_max_size` that is not 0 (`ModStep`, `AdvanceInRing`).
* `RingImplementsFifo`: `Spec => ImplementsFifo`.  Each call maps to one abstract
  action.  The argument is about `Contents`: an accepted init or deinit empties it, a
  pop removes its head, a push appends to it, or to its tail when full; each lemma
  compares lengths and then elements slot by slot, with the position of the written
  slot as the one that no surviving byte occupies.

`Containers_proofs`, the composition:

* `FastAlone`, `QueueAlone`, `HeapAlone`: a behaviour of `Containers` is,
  seen through the variables of one container, a behaviour of that container's own
  specification.
* Hence what the proof modules below establish for each container alone holds in
  `Containers`, whose definitions the run `containers` checks:
  `ContainersTypeCorrect`, `FastRingCounts`, `FastRingImplementsFifo`, `QueueInBuffer`
  (with `Laps = 1`), `QueueLeavesAfterFirstLap`, `QueueIsBoundedFifo`, `HeapKeepsItems`, `HeapKeepsOrder`,
  `HeapPopsInOrder`.

`Containers_proofs`, the pool:

* `PoolStackStaysInBounds`: `StackInBounds` for any client, forged pointers and wrapping
  sizes included.
* `PoolKeepsOneOwner`, `PoolCountsHonestly`: `OneOwner`, `AvailableIsHonest` for a careful
  client.  The inductive invariant `PoolInv` adds that free and held objects are distinct
  objects of the current configuration and together are all of them (`Careful`), which
  is why a careful client's deallocate is never dropped by a full stack.

`FastCircularBuffer_proofs` (the width of `size_t` is a power of two, and the array is
smaller than it):

* `FastTypeCorrect`, `FastCountCorrect`: types and `CountInv`.  The inductive invariant
  adds that the ring size is a power of two.  That matters where a counter wraps: the
  slot `index & size_mask` of a counter that goes from `SizeMod - 1` to 0 is the next
  slot only because the ring size divides `SizeMod`.
* `FastRefinesFifo`: the same `OverwritingFifo`, along the same argument about
  `Contents`, with the difference of the counters modulo `SizeMod` in the place of the
  flag.  A power of two is characterised as a number whose only odd divisor is 1
  (`IsPowerOf2`), which gives divisibility without induction; `Containers` has TLC
  compare it with `2^k` for all numbers up to 64.

`CircularBufferISR_proofs`:

* `IsrTypeCorrect`: in every use, masked or not, the indices stay in the ring.
* `IsrPopsOldest`, `IsrEmptyMeansEmpty`: for the uses `masked` and `lockstep`
  (`SafeUses`), every pop returns the oldest byte, and `ERR_EMPTY` is returned only for a
  ring that was empty at the call.  Without the hypothesis both are false, as the runs
  `isr_unmasked` and `isr_count_torn` show.  The inductive invariant says, for every
  pair of program counters that can occur together, how far the read index is behind
  the write index (`Gap`), which bytes the slots between them hold (`Bytes`), what the
  flag says (`Flag`) and what the consumer's registers are worth (`Consumed`).
  `Exclusion` is the heart of it: the two are inside a call at the same time only in
  `lockstep`, while the consumer still counts a ring that was empty when it began.
  Slots and byte numbers are positions on two circles, and one lemma (`CircleFacts`)
  carries the modular arithmetic of both.

`BsearchIter_proofs` (from `IntMax >= 1`):

* `SearchTypeCorrect`, `WindowHolds`, `FreshIndex`, `SearchCorrect`: `TypeOK`,
  `WindowInv`, `ChecksFreshIndex`, `ResultIsRight`.  The inductive invariant is
  `TypeOK /\ WindowInv /\ ResultIsRight`.  `ResultIsRight` alone is not inductive: that
  nothing is missed when the search stops depends on every match having stayed in the
  window and on the elements around the pivot up to the offset, and only those, having
  been found unreadable.  One lemma per notification (`LeftNarrows`, `RightNarrows`,
  `SkipProbes`) carries the arithmetic.
* `SearchIsLogarithmic`: `Halves`.  That `2^n` doubles when one index is added to the
  set looked at (`PowerDoubles`) comes from the library's theorem on the number of
  subsets, since an induction over `n` is not available.

`CopyQueue_proofs`:

* `QueueTypeCorrect`, `QueueRefinesFifo`: for any number of laps the queue is the bounded
  FIFO, in a memory that goes on after the buffer.  The inductive invariant adds
  `Layout`: both offsets are multiples of `element_size`, and the tail is `count`
  elements after the head.
* `QueueFirstLapInBuffer`: for any number of laps every copy lies in the buffer while
  the elements enqueued since init are no more than the queue holds, so that the
  offsets which never return to the start are the only way out.  With `Laps = 1` that
  is always (`QueueStaysInBuffer`); for `Laps = 2` the run `copy_queue_second_lap` shows
  the overrun.

`BoundedHeap_proofs`:

* `HeapTypeCorrect`, `HeapHoldsOnce`, `HeapInOrder`: types with the indices of both
  loops, `HeldOnce`, `Ordered`; inductive together, through every iteration of a sift.
  `Ordered` excepts the pair that is being repaired and relates its neighbours across
  it, which is what makes it inductive.
* `HeapPopsGreatest`: `PopsGreatestUnlessSkipped`.  That the root is greatest follows from
  `Ordered` by a least counterexample: the least index whose item ranks above the root
  has a parent with a smaller index.  The order needs the exception for a skipped
  comparison; the run `heap_left_child_skipped` shows what happens after it.

`Dispatchers_proofs`, the FSM runner:

* `FsmTypeCorrect`: for all three kinds of clients, stopping ones included, `state` stays
  inside the configured table.  Handlers call `start` and `on_event` from entry and event
  handlers and `force_stop` from event handlers; exit handlers call nothing.
* `FsmEntriesMatchExits`, `FsmHandlersInTurn`, `FsmQuietWhenStopped`: for clients whose
  handlers stray or nest and which reset the machine after `ERR_TIMEOUT` and
  `ERR_OUT_OF_BOUNDS` (`SafeClient`), at any depth of calls from entry and event
  handlers.  The inductive invariant speaks about the whole stack: below the top frame
  there are only frames suspended in an entry or event handler (`Nested`), and the
  machine runs while a call is in progress (`Running`).  Without the hypothesis the properties are false: see
  `fsm_out_of_bounds` and `fsm_stop_in_handler`.

`Dispatchers_proofs`, the publisher (from a finite set of subscribers and lists without
repetition):

* `PublisherTypeCorrect`: a running loop has no index past the longest list there can
  be, whatever the list is set to meanwhile.
* `DeinitQuiets`: after deinit no callback is called, by any of the notifications in
  progress, because each loop compares an index of at least 1 with a count of 0.
* `SubscribersHearOnce`, `EventsHeardInOrder`: `EachHearsOnce` and `HeardByPosition`, which
  speak of notifications that have returned, at any depth of nesting.  The inductive
  invariant `Delivery` speaks of those in progress too: later events are further up the
  stack and an undisturbed one runs on the list it began with (`Frames`); below a
  notification are the ones it was nested in, as it found them (`Outer`); whatever was
  notified since one began was nested in it, at a position not after its present one
  (`Inner`); an undisturbed event has been heard exactly once by exactly the subscribers
  it has come to (`Once`, `Hears`); and two events are in order at every position both
  have come to (`InOrder`).  `Delivery` is a predicate on any stack and log, so that a
  call of notify_subscribers can be taken as the beginning of a notification
  (`BeginKeeps`) and a first turn of its loop (`CallKeeps`, `EndKeeps`), as a returning
  callback is; `SetKeeps` is for init and deinit.

`LePack_proofs` (a byte has an even number of values, `size_t` more than 8, and the
buffer's length and the sizes of raw data are values of `size_t`):

* `PackingTypeOK`, `PackingBoundsExact`, `PackingFieldsReadBack`: `TypeOK`, `BoundsExact`
  and `FieldsReadBack`, for any set of values of each type.  `FieldsReadBack` is about
  what would be read and is not inductive; the inductive invariant says where the
  bytes are: those of every field not overwritten are in the buffer, each at its place
  (`Stored`), and fields lie inside the buffer.
* That the bytes give the value back (`ReadBack`) needs no induction, since no field is
  wider than 8 bytes: by the uniqueness of quotients (`Quotient`, `Digit`) the byte at
  place k stands for what is left of the value above place k but not above place k + 1
  (`ByteTerm`), so that the written-out sum telescopes to the value less what is above
  its highest byte (`SumOfBytes`).  That is 0 for a value that is not negative and minus
  one times the highest place for a negative one (`NothingAbove`), which `Signed` adds
  back.
* `WithinExact`: a sum that has wrapped is below the offset, because the size is less
  than the number of values of `size_t`.

Only model-checked:

* liveness (`Delivered`, `CallsReturn`, `NotifyReturns`), outside the prover's reach;
* `NumericOps` (`PowerTestExact`, `HammingWeightExact`): its `&` and shifts come from
  `Bitwise`, which is recursive, and facts about them for every width are inductions over
  the bits of a word.  TLC checks all words of two bytes.

## 5. Not modelled

Every component of the library has a module.  Left out:

* null pointers: every function that is given one asserts against it;
* a buffer handed to a container and also used by the client, or two containers over
  one buffer: the library cannot see it;
* concurrent use of anything but the circular buffer, the only part whose header offers
  it;
* a search of a range that begins below 0: `bsearch_iter_init` (`bsearch_iter.c:26-30`)
  accepts any `start_idx < stop_idx`, and `right_idx - left_idx` (line 23) could then
  overflow.  The header's indices are those of an array ("0 indexed",
  `bsearch_iter.h:102`), so `BsearchIter` starts its ranges at 0 or above;
* FSM handlers that call the machine from an exit handler, or stop it from an entry
  handler (see `SimpleFSM` in section 2);
* an FSM that is used on after `ERR_TIMEOUT`: the header asks for a reset
  (`simple_fsm.h:136,170`) and the modelled client makes one;
* a copy queue whose `element_count * element_size` wraps, see `hazards`;
* the tests, build files and documentation: evidence, not subject.

## 6. State

Every component is modelled and checked.  Every safety property that a passing run
checks is proved for all values of the constants, but for the two of `NumericOps`.  What
is left to TLC alone is in the last paragraph of section 4.
