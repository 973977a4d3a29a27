# A verification of cld

cld downloads a file over HTTP or HTTPS, in several ranges at once, with one
thread, non-blocking sockets and epoll. This directory holds TLA+ modules that
model it, configurations that check them with TLC, and proofs for TLAPS. Paths
are those of the repository; line numbers are those of the commit at hand.

## The system

| Component | Code | State | Operations |
|---|---|---|---|
| `Cld()` | `src/cld.cpp:33-154` | URL, options, address, request, response, output file | ask with HEAD, follow redirects, open the file, choose a download |
| Download loop | `src/cld.cpp:205-297` | vector of workers, epoll set, time of the last progress line | fill slots, wait, handle events, end |
| `LengthController` | `src/length_controller.cpp` | list of fragments, map from workers to fragments | `next`, `add`, `afterRead`, `workerStopped`, `finished` |
| `Worker` | `src/worker.cpp` | state, bytes of the request sent, header so far, buffer, file offset | `process(event)`, `forceStop` |
| Body buffers | `include/http_buffer.h` | what remains of the body or chunk, the valid bytes | `read`, `finished`, `CreateBuffer` |
| Streams | `src/tcp_stream.cpp`, `src/ssl_stream.cpp` | descriptor, TLS objects | `connect`, `continueConnect`, `read`, `write`, `close` |
| Single download | `src/cld.cpp:167-203` | one worker | wait, process, leave |
| Response headers | `src/http_response.cpp`, `src/http_header.cpp` | map from names to values | parse |
| Options, URL, address resolution, system call wrapper | `src/options.cpp`, `src/url.cpp`, `src/address_info.cpp`, `src/wrapper.cpp` | values | parsing, formatting, one call each |

`Cld()` settles on a URL and calls one of the two loops. The loop of a download
by ranges asks the controller for a range, creates a worker for it and books
it; epoll reports workers that can go on; each is given its event and afterwards
the controller is told how far the worker has got. A worker drives its stream
and, once it has the header, its buffer, and writes to the file at an offset of
its own. Controller and workers know each other by address only.

What is hard here: workers stop, fail and are replaced at any point of the life
of the others; a fragment is split while its owner reads on; one call of
`process()` passes through several states and any stream call in it may throw;
an answer may be cut anywhere, and over TLS the library holds bytes epoll does
not know of; exceptions reach the loop with the controller half told; there are
no timeouts. Nothing is persisted, so there is no recovery to model, and there
is one thread: steps of different workers interleave only between events, those
of the network anywhere.

What makes it right: no byte of the file is lost, fetched into the wrong place
or owed twice; the two structures of the controller agree; success is reported
only for a complete file; a worker writes the body and nothing else, and stops
at its end; no descriptor is lost; what is downloaded is the page the redirects
lead to; and all of it ends.

## The modules

| Module | Models | State and actions against the code |
|---|---|---|
| `LengthController` | the controller and how its client may use it | `length_monitor` and `node_finder` as functions on node addresses and workers; `NextRange`, `Add`, `AfterRead`, `WorkerStopped` are the methods. `CanBeBack` is what the sort may leave at the back; ties are open. `Spawn`, `Read`, `Stop` are the uses the loop makes of them. |
| `LengthControllerList` | the controller with its list in order, over `LengthController` | `order` is the list; `Arranged` takes some of its positions in a given order: all by `Less` is `Sorted`, the stable sort of `next()` and again of `add()`; those that remain, in place, is `Unlinked`, which is `remove`. `ImplementsController` is the refinement. |
| `RangeDownload` | what a download promises | bytes are fetched in any order; success only with the promised ones |
| `Download` | the loop, over `LengthController` | one action for each branch of the pass over the slots, each outcome of handling an event, and the end of the iteration. Workers as the loop sees them, servers that close, stall or leave the connection open; headers whose end is torn and missed, chunked bodies, short writes to the file. `source` is where in the resource the next byte of a worker's body comes from: a byte is right in the file if it is there that it belongs. `at()` of `afterRead()` throws for a worker that is not tracked, which ends the program. `UsesController` is the refinement of `LengthController`, `KeepsPromise` that of `RangeDownload`. |
| `Stream` | `read()` and epoll | bytes arrive in pieces; `decrypted` is what TLS has taken from the kernel |
| `HttpBuffer` | the three buffers, over `Stream` | `reading` is the program counter of `read()` |
| `Worker` | `process()`, over `HttpBuffer` | `at` is its program counter: one action for each call of the stream |
| `SingleDownload` | the loop of one worker, over `Worker` | `loop` is where it is: in `epoll_wait`, in `process()`, returned, or left by an exception. `SingleKeepsPromise` is the refinement of `RangeDownload`. |
| `Connect` | the life of a stream | the loop over the addresses, the handshake, closing; uninitialised members are "garbage"; `givenUp` records the addresses tried in vain |
| `HttpResponse` | the header of an answer | `With` is what one line does to the map, `Headers` the constructor; `Meant` says the same without building the map |
| `Cld` | redirects, over `HttpResponse` | one action for each part of the loop; a site is a function from pages to answers, an answer a status and lines |
| `MC...` | instances for TLC | values of the constants |
| `LengthControllerProofs`, `LengthControllerListProofs`, `DownloadProofs`, `ConnectProofs`, `WorkerProofs`, `SingleProofs`, `CldProofs`, `Recursion` | | theorems about the module named, each over it and the proofs it builds on; lemmas on recursion |

`Download` sees a worker from outside and `Worker` sees it from inside; the
actions `Process...` of `Download` are what `Worker` makes of one event, in terms
of state and offset. That a call which does not start in ReceivingBody writes
nothing is used by `Download` and is the property `OnlyBodyCallsWrite` of
`Worker`; that the offset advances with what is taken off the stream is
`NothingTakenIsLost`.

`honest` and `short` are history variables: they record whether something has
happened that a property excuses, and decide nothing.

Definitions whose comment begins with "Mutant" are versions of the definition
below them with a plausible mistake in it. Nothing uses them in the model; put
in place of the original, each makes TLC find the property it is listed with in
`PROJECT.json` violated.

## What TLC checks

Passing runs:

| Configuration | Shows | Bounds |
|---|---|---|
| `MCLengthControllerList` | fragments stay disjoint, worth fetching and agreed upon, bytes leave the books only when read, progress never goes back, and the list implements `LengthController`, under every order of splits, ends, stops and retries | 8 bytes, 3 workers: enough for fragments of odd and even length split three deep, Min = 1 so that some halves are too short. 8 nodes are more than the list can hold. |
| `MCDownload` | the loop keeps to the controller's terms, puts every byte where it belongs, breaks down only in the step of a fault, and implements `RangeDownload` for all bytes but the last | 5 bytes, 2 slots, 2 faults of ten kinds, bodies that end by their length, with the connection, or leave it open |
| `MCDownloadRetry` | the download finishes in spite of refused connections and broken bodies; connections that get stuck keep no more than what cannot be split off them and the idle fragments `next()` does not see behind it | 8 bytes, Min = 2, 2 slots, 3 nodes, 2 faults (refused connections, bodies broken off, stalls), bodies of known length and bodies that leave the connection open |
| `MCWorker` | header, body and end of body are found and the body is written in order | a header of 5 bytes and a body of 3 with every cutting; chunks of 2 and 1 with ten cuttings, five of which tear a size, the last line break of the header or both; buffer of 2, so that the body takes several reads and a write can be short; every point of early close; both schemes |
| `MCSingleDownload` | the loop of one worker implements `RangeDownload` for all bytes, and is left | answers cut where reads end; every point of early close, refused connections, exceptions |
| `MCConnect` | no descriptor lost, no TLS object over a closed one; a blocking connect that comes to its end gives up no address it should not; garbage is closed or freed only after the first address | 3 addresses, all subsets of them alive |
| `MCCld` | headers are read as meant; the last page of the chain is downloaded under the first name and with the first cookie; following ends unless the chain is circular | all functions from 3 pages on 2 hosts to 12 answers, among them headers given twice, malformed and misspelt ones |

Runs in which TLC finds a statement of the repository violated by what the code
does:

| Configuration | Statement | What happens |
|---|---|---|
| `MCDownloadLastByte` | "Finished", "File saved to" | the first fragment is 0 to size - 1 and ends are exclusive: nobody owes the last byte. It is usually there, because ranges are inclusive on the wire and a worker reads on until it is stopped; it is missing when a `read()` of the last worker ends just before it, for which a segment or record that ends there is enough: `afterRead()` then stops the worker. |
| `MCDownloadReset` | "if should stop, afterRead return false" | a stream that throws in a body makes `afterRead()` throw `out_of_range` out of `main()` |
| `MCWorkerChunkedData` | buffers "shield all difference between body" | no byte of a chunked body is written |
| `MCSingleRefused` | "Finished", "File saved to" | a refused connection stops the worker, which is all the loop looks at: an empty file is reported as saved |
| `MCWorkerSplitCrLf` | "Worker in state Receiving never enter read data in ReceivingBody state" | the last line break of the header torn between two reads: the end of the header is missed |

More configurations, outside the run list, show further behaviour. In each TLC
reports the property named in it: `MCDownloadOneByte` (a file of one byte is
never finished: `ComesToAnEnd`), `MCDownloadEmptyRefused` (the back of an empty list is taken),
`MCDownloadNoRanges` (a server that ignores Range corrupts the file),
`MCWorkerEarlyClose` (the worker spins at the end of the stream),
`MCWorkerTlsPending` (header and body in one TLS record with keep-alive: no
event comes), `MCSingleShortWrite` (after a short write the rest of the buffer
is dropped and the file reported as saved), `MCConnectFallback` (a non-blocking
connect never reaches the second address) and `MCCldCookie` (a second cookie is
ignored). `MCDownloadEmpty` passes: the loop is left for an empty file, well or
not. `MCDownloadRetryFaults` passes as well: it checks `Finishes` for all ways a
body may end and one fault of eight kinds, among them torn headers, chunked
bodies, pages of errors and short writes, on 5 bytes with Min = 1.

Because of these the passing properties are about what remains: `Covered` and
`KeepsPromise` leave out the last byte; `WritesBody`, `NothingTakenIsLost`,
`CompleteWhenStopped` and `HeaderEndFound` assume `BreakWhole`, that the last
line break arrives whole, and the first three of them promise less after a short
write; `CompleteWhenStopped` leaves chunked bodies to
`ChunksComplete`; `StopsAtLastChunk` assumes `BreakWhole` and `SizesWhole`, that
no piece ends between the size of a chunk and the end of its line; `SingleKeepsPromise` and `SingleEnds` name their exceptions. `RightWhenDone`
excuses bodies that are not of the resource, headers whose end was missed and
short writes (`honest`), which the code takes for the bytes it has asked for.
`FirstThatAnswers` promises nothing of a connect that frees garbage and so does
not come to its end; `GarbageOnlyAtFirst` says when that is. `MCDownload`
includes the faults that end the program: its properties hold in spite of them.

`Finishes` says what becomes of a download in spite of faults. A connection may get
stuck (`Stuck`): the server says no more, keeps a connection open after a body
too short for its range, or closes within a header or a body of known length,
for which `read()` returns 0 for ever. There is no timeout for any of these. As
long as one worker is not stuck, the loop either completes the file, or comes to
a point from which on every fragment left is one that a stuck worker is at and
that is too short to be split, or an idle one that is no longer than the half of
such a fragment (`KeptByStuck`): `next()` looks at the back of the list only.
With 8 bytes and Min = 2 both cases occur, the second as an idle fragment of 1
byte behind a stalled one of 4.

### Fairness

`Download`: the loop does not block, since `epoll_wait` has a timeout of a
second; epoll is level-triggered and has room for every worker, so one for which
something has come is reported again and again (`SF` on `Reported`); 250 ms pass
again and again (`SF` on `Printed`). Of the server it is assumed that it answers
and sends what it has not cut off (`SF` on `Serves`). That a worker which could
go on is always reported is not true of the code in two cases, and there the
model has faults instead of fairness: over TLS, what the library has decrypted
already is not reported (`MCWorkerTlsPending`), which is a "stall" like that of a
silent server; and a worker that has missed the torn end of a header
("torn_head", `MCWorkerSplitCrLf`) reads on in vain. A stalled worker is not
reported any more, and fairness asks nothing of it. A body without a length
need not be followed by the end of the connection ("open"): HTTP/1.1 keeps it, and
the loop must do without. Faults, stalls and early closes are never fair, and
`MaxFaults` bounds them. `Worker`: the same about epoll, the kernel takes some of the request
and a handshake ends; the server sends its whole answer, but closes only if that
is how the answer ends. `SingleDownload` assumes the same and that the loop
returns to `epoll_wait`. `Connect`: its thread runs and the owner tries again. `Cld`: its thread runs
and servers answer.

### Bounds

`Size`, `Workers`, `MaxFaults`, the wires and the number of addresses and pages
are those of the configurations. `Nodes` bounds the list and is never reached:
every fragment but the idle ones has a worker of its own. `Offsets` goes to
twice the size because a worker may run past the end of its fragment by at most
one body. `kBufferSize` is 2 instead of a megabyte and Min 0, 1 or 2 instead of
128 KiB, so that several reads and splits fit into a small file.

## What is proved

Every theorem holds for all values of the constants, from the assumptions named
in the modules and, where it says so, from hypotheses of its own.

### The controller

`LengthControllerProofs`, for every `Size`, `Min` and sets `Workers` and `Nodes`:

- `TypeCorrect`, `FinderCorrect`, `SyncCorrect`, `DisjointCorrect`: types, the
  agreement of map and list, the agreement of fragment and offset, and
  disjointness are invariants of `ControllerSpec`;
- `WorthCorrect`: with at least two bytes, every fragment is non-empty and in
  the file (with one byte the first fragment is empty, which is a real flaw);
- `OwedCorrect`: `OwedOnlyShrinksByReading` for every step;
- `NothingCorrect`: with at least two bytes, `next()` answers (0, 0) only while a
  tracked worker is at a fragment whose half is at most the minimum, and passes
  over nothing longer than that half.

None of the first six is inductive alone. A split keeps fragments disjoint only
because the half of a non-empty fragment lies inside it, a removal takes one
node only because no other is equal to it, which follows from disjointness or
from the agreement of list and map, and a new worker begins where its fragment
does only if the fragment it is cut from is the one the map names. The invariant
`ControllerInv` is the conjunction of all of them, without the lower bound on
the size. `HalfSplits` is the arithmetic of C++ division; `AddIdle`, `AddSplit`
and `RemoveOne` say what the operations do to the functions; there is a lemma
for each way a step changes the structures (leaving, advancing, idling, taking,
splitting), one for each action on top of these, and `NextKeepsInv` puts them
together. `OwedCorrect` rests on the same lemmas.

`LengthControllerListProofs` proves that the list in order implements this
(`ListImplements`, `ListTypeCorrect`), so that the theorems above hold of it. The
argument is about `Arranged`: counting those before it gives every position a
place of its own (`Places`), so an arrangement goes through the positions in
order (`Arrangement`), keeps the elements and repeats none (`ArrangedHolds`).
Hence the back of a sorted list is a longest fragment (`BackIsLongest`), and the
second sort, being stable, leaves it there (`BackStays`). `RemainCorrect` is the
action property `RemainNeverGrows`: the sum over the list is the number of bytes
owed (`RemainIsOwed`), of which `OwedCorrect` says that they only become fewer.
It needs a file of at least one byte: the only fragment of an empty one ends
before it begins, and counts as -1 until it is removed.

### The download by ranges

`DownloadProofs`, for every size, number of slots, kind and number of faults:

- `ControllerIsUsed`: the loop implements `ControllerSpec`, which carries the
  theorems on the controller over;
- `CoveredCorrect`, `AliveTrackedCorrect`, `TrackedExistCorrect`,
  `ClosedCorrect`, `LoopTypeCorrect`; `FinishedNeverThrows`: "Bad bound in
  length controller" is never thrown; `BackCorrect`, for files that are not
  empty (for an empty one it is false, `MCDownloadEmptyRefused`);
- `PromiseKept`: the loop implements `RangeDownload` for all bytes but the last;
- `RightCorrect`: if the server knows ranges, all bodies have been of the
  resource and all buffers written whole, every byte is the right one when the
  loop is done, and only the last may be missing (`MCDownloadNoRanges` shows that
  ranges are needed);
- `BreaksOnlyByFaults`: of a file that is not empty the loop breaks down only in
  the step in which a stream throws or no address can be opened. In every other
  step `at()` in `afterRead()` finds its worker, `finished()` does not throw and
  `next()` finds a list that is not empty. `MCDownloadReset` shows that such a
  step does end the program.

`NeverBackOfEmptyList` and `ClosedWhenDone` are proved and not in a run.

The invariant `DownloadInv` puts together the invariant of the controller,
offsets inside the file, the agreement of slots and map (`Tracked`), coverage,
and that the loop returns to its slots only with something in the list. A file
of one byte needs a part of its own (`OneByteIdle`): its empty fragment is never
handed out. `RightCorrect` needs another one (`NothingWrong`): while all has been
honest, every worker that lives has come as far in the resource as in the file.
Coverage is kept because bytes leave the books only under a worker
that has written them (`StepCovered`), which is where `OwedCorrect` is used.

### The worker

`WorkerProofs`, for all answers, lengths, cuttings, faults and buffer sizes:

- `WorkerTypeCorrect`; `BodyCallsWrite`, which `Download` relies on;
- `HeaderEndCorrect`: a last line break that is not torn is found;
- `TakenCorrect`, `WrittenCorrect`, `CompleteCorrect`: what is taken off the
  stream is in the file or the buffer, the file is the beginning of the body, and
  a worker that stops by itself has all of it;
- `LastChunkCorrect`: it stops behind the last chunk of a chunked body, for all
  chunks, buffer sizes and cuttings that tear neither a size nor the end of the
  header;
- `ChunkedWritesNothing`: that no byte of a chunked body is written is no
  accident of the answers in `MCWorkerChunkedData`.

Four invariants carry this. Of the first three each is on top of the one before:
`WorkerInv` relates the program counter of `process()` to the state and to what
the stream has given; `Scanning` says where in the header the scan is, that
`last_char` is the byte before, and that no end of the header is behind it;
`FileInv` says that the
valid bytes of the buffer are the last ones received and come directly after
those in the file. `ChunkInv` takes the place of `FileInv` for chunked bodies: it
says that `read()` is always around the size of some chunk (`Around`), with what
has been taken off the stream since kept in `chunk_head`, or with as much of the
chunk ahead as `remain` says. What a `kAgain` drops from `chunk_head` is then at
most the line break before the size, which the loop does without. The lemma of
each step of `read()` says which chunk the worker is around next, so no induction
over the chunks is needed.

The modules assume of an answer only that its header ends with its first empty
line (`HeaderAssumption`), that a body ended by closing is as long as
`BodyLength` says (`BodyAssumption`), and that a chunked body consists of chunks
up to one of size 0 and an empty line (`ChunksAssumption`, which gives the places
of the sizes as a set, each but the last with its successor).

`SingleProofs`: `WorkerIsDriven`, by which all this holds in the loop of one
worker, and `SinglePromiseKept`, that this loop implements `RangeDownload` for
every byte, with the same exceptions as `SingleKeepsPromise` and two hypotheses:
the last line break arrives whole and the disk takes all of every write, which
are those of `MCWorkerSplitCrLf` and `MCSingleShortWrite`. `SavedCorrect` is what
becomes of `SavedWhenFinished` under these and without refused connections and
chunked bodies: the file is saved whole, unless the server cut short a body
without a length.

### Connecting

`ConnectProofs`, for any number of addresses: `ConnectTypeCorrect`,
`DescriptorCorrect`, `SslCorrect`, `FirstCorrect`, `GarbageCorrect`. `ConnectInv`
adds to them what the descriptor is at each place of the search, which addresses
have been given up by then and that none of them could have been kept, and that
nothing is garbage after the first clean-up.

### Redirects and headers

`CldProofs`, for all hosts, paths and answers, any finite set of pages, and
chains of any length:

- `HeadersAreRead`: the map holds what the lines of an answer say;
- `LastPageIsDownloaded`, `FirstPageNames`, `FirstCookieCarried`: page, name and
  cookie of the download are those of the whole chain;
- `OpenedForAPage`, `CldTypeCorrect`.

These properties speak of the chain as the servers have it, the variables of
`Cld()` only of the page it is at. `CldInv` joins them by the way so far
(`Past`): a sequence of redirects from the first URL to the present one, with
the first name and the first cookie on it. That the chain needs no more elements
than there are pages is because a way that ends comes to no page twice
(`NeverTwice`): https and http of a page lead to the same answer, so the way
would repeat itself from there.

### Recursive definitions

`Headers`, `FlattenSeq`, `Chain` and `Remain` are recursive functions. `Recursion`
proves that recursion along an interval defines a function
(`RecursiveFunction`), and that a set of numbers has a least element
(`LeastNatural`), which replaces induction: of the numbers for which a claim
fails there would be a least one.

### Only model-checked

Liveness (`Finishes`, `SingleEnds`, `EndsUnlessCircular`):
the prover does not reason about fairness and `ENABLED`.

## What is not modelled

Formatting and the regular expressions of URLs, headers and options; the command
line; the wrapper of system calls beyond its exceptions; `getaddrinfo()` and the
ownership of its result (the move assignment of `AddressInfo` leaks the list of
the page before, on which nothing depends); `buffer.h`, which the program does
not use, and the version; SIGPIPE; setting the clock back. Chunk sizes have one
digit, and no chunk has an extension or the last one trailers. Connections are
assumed to carry one answer. In `Cld` https behaves like http: what differs is in
`Connect` and `Stream`.

In `Download` a header that is torn loses its end or finds one in its body; a
second torn line break in that body is not followed further. A server that
closes or a connection that fails before the request is sent is "refused" or
"reset". Short writes before a stream throws in the same event are left out: the
program ends in that step.

## Plan

Modelled and checked: the controller with and without the order of its list, the
two loops, the worker with streams and buffers, connecting, headers and
redirects. Proved: every safety and action property that a passing run checks,
and the four refinements, some of them under the hypotheses named above. What could still be done is to make the proofs shorter
where one lemma serves several of them.

Not planned: a refinement from `Worker` to the worker as `Download` sees it. The
two meet in the properties named above.
