# A TLA+ model of php-quic

php-quic is a PHP extension that exposes OpenSSL's QUIC implementation as three
classes, `Quic\Listener`, `Quic\Connection` and `Quic\Stream`, and a function
`Quic\poll`. The extension is single-threaded C code between two engines it does
not control: the Zend engine, which decides when objects are destroyed, and
OpenSSL, which runs the protocol whenever it is called. This directory holds
specifications of the extension's own logic, the TLC runs that check them on
small instances, and proofs checked by TLAPS.

Paths below are relative to the repository (`src/quic_stream.c`); `PROJECT.json`
prefixes them with `src/`.

## Inventory

| Component | State | Operations | Hard because | Correct when |
|---|---|---|---|---|
| Object lifetimes (`php_quic.h`, `quic_connection.c`, `quic_stream.c`, `quic_listener.c`) | `ssl`, `fd`, `owns_fd`, `closed`, the `listener` and `connection` zvals, the resource's abstract pointer | constructors, accept, openStream, acceptStream, close, asStream, getConnection, free and get_gc handlers | an engine is shared by many objects, a descriptor is not; destruction by refcount, by cycle collector, at request end | references outlive their users, each descriptor has one owner, nothing is forgotten |
| Stream reading (`quic_stream.c`) | locals of `read()`, the engine's receive state | `read()`, php_stream read | peer events take effect between the calls of one `read()`; buffer growth | no byte lost or repeated, the end is final, `read()` returns |
| Stream writing (`quic_stream.c`) | the engine's send state | `write()`, `end()`, `reset()`, `getResetCode()` | part of a write may be accepted; the states of two halves and the connection mix | what is accepted is reported, the reset code belongs to the reset |
| Timed handshake (`quic_util.c`) | clock, blocking mode, engine timer | `php_quic_connect_timed()` | deadline races the answer; loss; int conversions | truthful result, bounded waiting, returns |
| Client set-up (`quic_connection.c`, `quic_util.c`) | a dozen locals | `Connection::__construct`, `php_quic_udp_client` | every call may fail | all or nothing; the peer is checked as asked |
| Listener set-up and release (`quic_listener.c`, `quic_util.c`) | locals, then four fields | `Listener::__construct`, `php_quic_udp_server`, `close()`, free | ownership moves; order of release; constructing again after close | all or nothing; callback data outlives the callbacks |
| Connection shutdown (`quic_connection.c`) | `closed`, the phases of `SSL_shutdown_ex` | `close()`, `getCloseInfo()` | one call in non-blocking mode for an operation that needs several; the peer's close and timers race it | data goes before the close, the first code and the first cause count, a blocking close returns |
| Event-loop interface (`quic_connection.c`, `quic_listener.c`) | blocking mode | `setBlocking`, `getFd`, `wantsRead`, `wantsWrite`, `getTimeout`, `handleEvents` | the caller's loop is the only clock | the descriptor watched is the engine's |
| `Quic\poll` (`quic_poll.c`) | heap arrays | one function | array holes, string keys, mixed objects, float timeout | results carry the caller's keys |
| ALPN (`quic_util.c`, `quic_listener.c`) | the wire buffer | encoding of the option, selection callback | lengths in one byte, blanks, empty segments; `out` is set even without overlap | the wire form means the option; only a common protocol is agreed |
| TLS context (`quic_util.c`) | SSL_CTX, borrowed passphrase | `php_quic_configure_ctx`, passphrase and verification callbacks | precedence of nine options; a callback per error | a verifying side accepts only what the options allow |
| Fingerprints (`quic_util.c`) | the peer's certificate | `php_quic_check_fingerprint` | string and array forms, early exits | pinned to every entry; the certificate is freed |
| Introspection, exceptions, module init | none of their own | getters | - | - |

Components interact by calls into one another's structs: `accept()` copies the
listener's descriptor number and a reference to it into the new Connection; a
Stream holds its Connection by zval; a php_stream resource holds its Stream by a
counted pointer. The cycle collector sees the two zvals through the `get_gc`
handlers, and cannot see the resource's pointer.

## Modules

| Module | Models | Stands for |
|---|---|---|
| `QuicObjects` | all objects, engines, descriptors, and the Zend engine around them | the three struct types; one action per method and handler |
| `DescriptorTable` | who may open and close a descriptor (abstract) | - |
| `QuicObjectsProofs` | theorems about `QuicObjects` and its refinement of `DescriptorTable` | - |
| `StreamRead` | `read()` and the php_stream read | `quic_stream.c` 48-74, 261-363 |
| `BytePipe` | what a reader of a stream is promised (abstract) | - |
| `StreamReadProofs` | theorems about `StreamRead` | - |
| `StreamWrite`, `StreamWriteProofs` | `write()`, `end()`, `reset()`, the php_stream write, `getResetCode()` | `quic_stream.c` 24-46, 207-253, 341-434 |
| `ConnClose`, `ConnCloseProofs` | `close()`, `getCloseInfo()`, `setBlocking()`, `handleEvents()` | `quic_connection.c` 418-504, 560-569 |
| `ConnectTimed`, `ConnectTimedProofs` | the timed handshake | `quic_util.c` 171-246 |
| `SetupLedger` | what both constructors share: locals, allocations, cleanup | the cleanup labels |
| `Fingerprint` | `php_quic_check_fingerprint()` with its helpers | `quic_util.c` 582-692 |
| `ClientSetup`, `ClientSetupProofs` | the client constructor, composed with `Fingerprint` | `quic_connection.c` 153-360, `quic_util.c` 35-87 |
| `ListenerSetup`, `ListenerSetupProofs` | the listener constructor and release; the proofs are also about `TlsContext` and `Alpn` | `quic_listener.c` 49-239, `quic_util.c` 89-165 |
| `Poll`, `MCPoll`, `PollProofs` | `Quic\poll()` | `quic_poll.c` 19-166 |
| `Alpn`, `MCAlpn` | the ALPN option and the selection callback | `quic_util.c` 251-340, `quic_listener.c` 32-47 |
| `TlsContext` | `php_quic_configure_ctx()` and its callbacks, then a handshake | `quic_util.c` 346-576 |

**QuicObjects.** `listener`, `connection`, `stream` and `resource` are the
structs by handle; a handle that is not in `live` is not allocated. A successful
constructor is one action here: the failing ones leave no trace, which is what
`ClientSetup` and `ListenerSetup` show. An engine is the identity shared by the
`SSL*` of a listener, its connections and their streams; it is alive while any
of them is set. `sock[f]` says for which engine the socket now open at number
`f` was made, `bio[e]` which number engine `e` does its I/O on: the two disagree
once a descriptor is closed under an engine. References are not counted but
looked up (`Referenced` and the three `HeldBy` operators), so a missing or
surplus count in the code corresponds to a wrong clause there. Destruction is in
two stages, as in Zend: an object enters `doomed` and its free handler runs as an
action of its own, releasing what it held, which may doom the next object.
Reference counting dooms one object at a time; the cycle collector dooms all
garbage at once, and the free handlers then run in any order. External: the Zend
engine's part (`Referenced`, `Reachable`, `DropVariable`, `DropIntoCycle`,
`CollectCycles`, `RequestShutdown`, `FreeObjectStorage`, `NewRequest`) and
OpenSSL's (`EngineAlive`, `SSL_free`).

**DescriptorTable** is what `QuicObjects` promises about descriptors: an object
acquires one that is not open, and only it releases it. The mapping takes the
open numbers of `sock`, and for each Listener and Connection the number its
release would close (`fd`, for a Connection only with `owns_fd`).

**StreamRead.** One `SSL_read_ex` is one action (`ReadMore`, `ReadLast`,
`ReadStop`), and the peer's actions interleave with them. Bytes are counted: the
stream is ordered, so a count is a position. `kept` leaves open whether OpenSSL
still hands out buffered data after the connection has ended. `sendOnly` is a
unidirectional stream opened on this side: the php_stream read reports its end at
once, `read()` throws. `BytePipe` is the contract: bytes in
order and once, a clean end only after the last of them, nothing after an end.

**StreamWrite.** OpenSSL is in its all-or-nothing mode: `pend` is the write it
remembers after it has taken a part and answered WANT_WRITE; `call` is a
blocking write that sits in the engine. Strings are model values (OpenSSL
compares buffer addresses), bytes are counted. The receiving half is there for
`getResetCode()`, which asks both halves; `told` records what the null of
`read()` stood for.

**ConnClose.** A blocking `close()` is a call in progress (`pc`), with the
engine's events inside it; a non-blocking one is a single step that does as many
phases of `SSL_shutdown_ex` as it can. The engine runs only inside calls, so
acknowledgements, the peer's close and the timers take effect in `handleEvents()`
or in `close()` itself.

**ConnectTimed.** The clock ticks between the steps, a flight may be lost or
answered, the engine retransmits only when it is called with its timer due. `told`
is whether SSL_get_event_timeout gave a finite timeout; where it did not, only the
deadline bounds the wait. Two simplifications: a timer fits an int of milliseconds
(`TimersAssumption`), and the clock does not tick between its last reading and the
entry into `poll`.

**SetupLedger, ClientSetup, ListenerSetup, Fingerprint.** `locals` are the C
variables that are not NULL or -1, `alloc` is what really exists, `ctxRefs` the
references on the SSL_CTX, `object` the fields. Each call that may fail is one
action with a failing and a succeeding disjunct; each statement of a cleanup
label or of `quic_listener_release()` is one action. `ClientSetup` extends
`Fingerprint`: at the statement that calls the check it runs that module's
actions, and goes on with their result.

**Poll.** The walk that fills the array, the timeout, `SSL_poll` and the walk
that maps back are separate actions, and so are the three errors of the first walk,
each with its own `efree`; keys are numbers in the reverse order of positions, so
that a confusion of the two shows. Every item has its own mask of events, and
`SSL_poll` answers it with those that are ready on its object. An `$events` that is
not an int is converted by Zend in the middle of the first walk, which may call
userland (an error handler) and so release any handle, the item's own included.
Time is counted in fractions of a second (`Unit`, a microsecond in the code), `long`
has the range of `LongMax`; the fraction is the truncated product of a double, which
may be one less than the exact one (`Fractions`).

**Alpn.** The string form is scanned byte by byte as in the code (`i`, `start`),
the array form entry by entry. What an option means is defined apart from the
code: `Ends` are the places where a protocol ends, `Means(b)` is the one that ends
at `b`, and `IsMeant` compares a list with them, order and number included.
`MaxProto` stands for 255.

**TlsContext.** Each section of the function is an action with its failures.
Files and strings are told apart by what happens when they are used. The
handshake then presents every kind of peer: with and without a certificate, with
every set of chain errors.

## Runs

| Run | Instance | What it shows |
|---|---|---|
| `objects` | 1 listener, 2 connections, 1 stream, 1 resource, 2 engines, 2 descriptors, with fairness; about 355 000 states | references stay alive, nothing is forgotten, every descriptor has one owner, `getFd()` is right while the listener listens, streams stay on their connection, `DescriptorTable` is implemented, the end of a request releases everything |
| `objects_foreign` (violation) | the same | after `Listener::close()` the engine works on whatever is opened next under the number, though `quic.stub.php:353` calls closing safe with connections open |
| `read` | first chunk 2, lengths 1, 3, 5, 8, up to 9 bytes; about 26 000 states | no byte lost, loop bounds, draining, `BytePipe` is implemented; a non-blocking `read()` returns always, a blocking one as soon as the stream has bytes or an end to tell |
| `write` | 2 strings, lengths 1, 2, 4, send buffer 3, up to 6 bytes, 2 codes; about 50 000 states | retries neither repeat nor drop a byte, a FIN asked for with data comes after it, every write ends, `getResetCode()` explains a null while the connection is open |
| `close` | 2 codes, up to 3 pieces of data; 214 states | data before CONNECTION_CLOSE, first code, first cause, a blocking `close()` returns, even if the peer falls silent |
| `close_sent` (violation) | the same, with fairness | a non-blocking `close()` with unacknowledged data sends nothing, and nothing later does, though `quic.stub.php:233` and `README.md:80` say that it sends CONNECTION_CLOSE |
| `connect` | timeouts 1, 3, 6 ms, timers 1, 2, 4 ms, INT_MAX 4, clock up to 9; about 96 000 states | truthful result, wakes for deadline and retransmission, always returns |
| `client_setup` | 2 addresses, all option combinations, arrays of up to 2 fingerprints; about 30 000 states | nothing leaked, nothing freed twice, socket outlives its BIO, every check asked for was made, pinned to every entry |
| `listener_setup` | 3 addresses, with and without SO_REUSEPORT; about 150 states | the listener is whole or empty between calls, for any sequence of constructions and closes; ALPN data outlives the engine |
| `poll` | up to 2 items, 1 of which fits the stack array, 2 handles, 2 event bits; about 944 000 states | each item's events under its key, the heap array freed on every way out, a timeval never longer than asked, a released handle polled only after a conversion of `$events` |
| `alpn` | strings of up to 5 bytes over blank, comma and two letters, arrays and client lists of up to 2 names, names of up to 3 bytes against a limit of 2; about 12 000 states | the wire form means the option, refusals are right and leak nothing, the agreed protocol is common and the server's first |
| `tls_context` | every combination of the options, both roles, every kind of peer; about 94 000 states | a verifying side accepts only what it was told to, a server, and a client given a certificate, has a matching identity, the passphrase pointer does not stay |

*Bounds.* In `objects` two connections are needed for one borrowed and one owned
descriptor, or two borrowed ones; two engines and two descriptors for a number
to be reused by somebody else; one stream can have one Connection after another.
All safety properties of this run are also proved, for any number of everything.
In `read` a first chunk of 2 with a length of 8 doubles twice, 5 meets the limit
off a power of two, 3 on the first growth, 1 is below the chunk; 9 bytes exceed
every length. In `write` a length of 4 exceeds the send buffer of 3, so that it
is cut short even with an empty buffer, and two strings of equal length tell a
bad retry from a good one. In `connect` a timeout of 6 exceeds the INT_MAX of 4,
so that the clamp acts. In `poll` two items exceed the stack array of one, and are
enough for one object under two keys with different masks, for an error after a
good item, and for a conversion that releases the handle of an earlier item; the
timeouts include a negative one, the limit, one that `long` cannot hold, and NaN. In
`alpn` five bytes hold an empty segment between two names, blanks on both sides
of one, and a name above the limit. The constructors' loops run over lists whose
length matters only as zero, one or more.

*Fairness.* `QuicObjects`: Zend's destruction loops never wait, so a doomed
object is freed and a request that has begun to shut down drops what is left;
nothing is assumed of userland. `StreamRead`: the loop of `read()` runs on, and
nothing else: a blocking read of a stream on which a live peer sends nothing may
wait for ever, as the code has no timeout there. `StreamWrite`: a call runs on, a caller that
was told 0 tries again with the same string, a peer acknowledges while the
connection is open. `ConnClose`: the caller pumps events; data in flight is
acknowledged or the idle timeout ends the connection (a peer that has gone away
leaves that timer running); the termination timer runs out. With nothing in flight
the idle timeout is not assumed, and of the peer's own close nothing ever is. `ConnectTimed`: the process is scheduled and the clock advances; the
network promises nothing.

*Deadlock* is checked in `objects`, `read` and `listener_setup`. The other runs
model one call, or a stream or connection that is over in the end, and stop.

## Proofs

`QuicObjectsProofs`, for any sets of objects, engines and descriptors (the three
kinds of handle disjoint, NULL none of them):

- `TypeCorrect`: `Spec => []TypeOK`, inductive by itself.
- `ReferencesStayAlive`: `Spec => []NoDanglingReference`, inductive with `TypeOK`;
  the step that matters is that dropping a reference dooms an object only when
  no other reference is left (`UnreferencedIsNot`).
- `DescriptorsOwnedOnce` and `FdsAreEngineSockets` from `SocketInv`, the
  conjunction of `LiveRecords` (a Connection has an engine exactly while it is
  allocated, a Listener an engine exactly when it has a descriptor),
  `EngineSockets` (an owner's engine does its I/O on the owned descriptor and
  that descriptor is the engine's; a listener and its connections agree) and
  `DescriptorOwnedOnce`. The strengthening is needed because ownership alone does
  not say that a new engine's descriptor is not one an older engine is still
  bound to. One lemma per action that touches descriptors, one frame lemma for
  the others.
- `CountsBalance` (`NothingForgotten`) and `StreamsStayOnConnections`, from
  `CountInv`. Neither is inductive: a constructor that overwrote a field holding
  a reference would lose a count, so the invariant adds `StreamRecords` (a Stream
  has an engine exactly while it is allocated) and uses `LiveRecords` and
  `NoDanglingReference`.
- `ObjectsImplementTable`, `Spec => Table!Spec`. The two constructors acquire
  (`ConstructAcquires`, from `LiveRecords`: an object without an SSL object owns
  nothing), the listener's release and the connection's free handler release or
  do nothing (`CloseReleases`, from `EngineSockets`: what is owned is open), all
  other steps leave the table alone.
- `NothingOutlivesObjects` (when no object is allocated no descriptor is open and
  no engine alive) from `SocketInv`, `CountInv` and `FreeListenerRecords`, and
  `ShutdownMakesNothing` (a request that shuts down creates nothing): together
  the part of `ShutdownReleasesAll` that needs no fairness.

`StreamReadProofs`, for every first chunk, every set of lengths and any number of
bytes:

- `ReadInvariant`: the inductive invariant `TypeOK /\ LoopBounds /\ NoByteLost /\
  EndStays`, where `EndStays` says that once an end has been reported the engine
  can only report an end again. `BufferBounds` and `EveryByteReturned` are parts.
- `ReadImplementsPipe`: `Spec => Pipe!Spec`; each step of the reader is a step of
  `BytePipe` or leaves its variables alone, and `EndStays` is what makes bytes
  after the end impossible.
- `ReadDrains`: `Spec => Drains`, an action property. A non-blocking `read()` ends
  when the request is met, on a failing call or on a short read, and a short read
  means that the engine is empty (`ShortReadEmpties`).
- `ReadTurnsBounded`: each turn of the loop takes a byte and stays below the
  requested length, the part of `ReadReturns` that needs no fairness.

`StreamWriteProofs`, for any strings, lengths, buffer size and codes:
`EveryByteAccounted` and `FinAfterAllData` from `WriteInv`, which adds that the
engine never holds more than its buffer and that a waiting write has something
left; `NullIsExplained` from `NullInv` (what `read()` was told agrees with the
receiving half for ever). `BegunWritesAdvance` is the part of `WriteCompletes` that
needs no fairness: a write that was cut short is continued where it stopped or
completed, never given up, restarted or replaced; a retry that finds room and each
turn of a blocking write get further; and a full buffer holds something that an
acknowledgement can take out.

`ConnectTimedProofs`, for any timeouts, timers of at most INT_MAX, and INT_MAX:
`HonestResult` and `NeverOversleeps` (for the engine's timer, where the engine has
told one) from `TimedInv`, which adds that the handshake is undecided wherever the
loop does not return at once, and that the engine's timer is within an int of
milliseconds, so that the wait is never negative. `DeadlineEndsTheCall` is the part of `Returns` that needs no fairness:
once the deadline has passed, each statement is one of at most four before the
return, and the poll among them does not block.

`ConnCloseProofs`, for any codes and amount of data: `NoDataCutOff`,
`FirstCodeCounts` and `FirstCauseStays` from `CloseInv`: an active connection has
no cause and has sent no close, and `close()` is asked for a code once.
`CloseHasBoundedWork` is the part of `CloseReturns` that needs no fairness:
`WorkLeft`, a number, becomes smaller with every step while a blocking `close()`
runs, and a `close()` that can neither send nor return waits either for the
acknowledgement of its data on an active connection or for the termination timer
(`CloseWaits`), never for the peer's CONNECTION_CLOSE.

`ClientSetupProofs`, for any number of addresses and of fingerprint entries:
`ClientLedgerSound`, `ClientThrowLeavesNothing`, `ClientDoneIsVerified` and
`ClientPinnedToAll` from `SetupInv`, in three parts. `Ledger` is the exact content
of locals, allocations and references at each statement; `LedgerSound` alone is
not inductive, as it allows a context that no local and no SSL object refers to,
which the cleanup could not free. In the cleanup there are three cases (nothing
of TLS yet, a context of ours, an SSL object that holds the context), and each
statement of the label leads to a case of the next. `ChecksInv` says which checks
are in force before each call. `PinInv` is the loop invariant of the fingerprint
check: the entries behind the cursor have passed, and the certificate is held
from the first statement to the last but one.

`ListenerSetupProofs`, for any number of addresses and any sequence of calls on
one object: `ListenerLedgerSound`, `ListenerAllOrNothing` and
`ListenerAlpnWhileListening` from `Ledger`, which follows the ALPN string from the
local through the callback data into the object, and the two references on the
SSL_CTX through the cleanup and through the release.

The module also extends the two that make things of the listener's options, which
for that name their specifications `TlsSpec` and `AlpnSpec`.

`TlsPeerVerified` and `TlsContextComplete`, of `TlsContext`, follow from `TlsInv`:
where the configuration is, what it has loaded and found to match (`IdentityInv`),
what it has told OpenSSL and its caller about verification (`VerifyInv`), and what
the handshake made of it (`HandshakeInv`). `TlsVerifiesAsAsked` says that the call
is what the step `Configure` of `ClientSetup` takes it for, verification on or off
as asked, and `TlsRefusedForCause` is the converse of `TlsPeerVerified`: nobody is
refused whose chain the options forgive. These two are stated in the proofs only.
`TlsContext` has no constants; the proofs add the reason to what TLC has enumerated.

`AlpnWireMeansOption`, `AlpnRefusedRightly` and `AlpnAgreedProtocol`, of `Alpn`, hold
for any alphabet, names, lengths and width of the length byte. The inductive invariant `AlpnInv` says what the
buffer is at each position `i` of the loop: `Encoding(buf, Meanings, i)`, the frames
of the protocols that end up to `i`, in order. The step at a delimiter rests on
`TokenIsMeant` (what the two trimming loops leave is empty exactly where the option
has no protocol, and is the protocol otherwise) and on `AppendedBytes` (a length that
fits its byte does not wrap). That such a buffer decodes to its protocols is
`DecodeOfFrames`, an induction over the list, and that the recursion of `Decode`
is well defined at all is `WalkExists` and `DecodeIsWalk`, an induction over the
buffer from its end. The induction theorems of the library take an operator as
a parameter, which the provers cannot instantiate; both inductions are done with
`LeastElement` instead (a set of counterexamples has a least element), which follows
from the first-order `WFMin` of the module WellFoundedInduction.

`PollProofs`, for any items, handles, stack array, unit, limit and width of
`long`: `PollHeapBalanced`, `PollResultByKey`, `PollStaleOnlyByConversion` and
`PollTimevalNeverLonger` from `PollInv`. `CopiedInOrder` (the array holds the objects
and masks of the first items, in order) is what keeps the second walk in step with the first;
`Mapped` says that the result holds the answers of the items behind the second
walk, and adding one changes no other because no two items share a key
(`KeysDistinct`). A handle once found alive stays so up to the next conversion,
which is what the invariant carries for the items behind the first walk. The
timeval rests on `WholeSeconds` and `ClampedSplit`, lemmas about quotient and
remainder.

The assumptions are those named in the modules: disjoint handles, NULL distinct
from every value, positive lengths and sizes, timers that fit an int, a limit on
timeouts that fits a `long`, names that are strings of bytes.

Each inductive invariant was checked with TLC on the instances of the runs before
it was proved (`AlpnInv` with the decoded list and the places of its frames as
witnesses, as TLC cannot enumerate sequences).

Only model-checked is the liveness: `ShutdownReleasesAll`, `ReadReturns`,
`WriteCompletes`, `CloseReturns` and `Returns`, as the prover has no rule for
fairness. For each of them the part that needs none is a theorem
(`NothingOutlivesObjects` and `ShutdownMakesNothing`, `ReadTurnsBounded`,
`BegunWritesAdvance`, `CloseHasBoundedWork`, `DeadlineEndsTheCall`): no step leads away
from the end.

## Disagreements with the documentation

Two are violation runs: `objects_foreign` and `close_sent`. Two more are findings
about passing runs, whose property states what does hold:

- md5 and sha1 fingerprints are refused, though `README.md:105` lists them among
  the algorithms inferred from the length. The comment at `quic_util.c:585` and
  `tests/115-weak-fingerprint.phpt` side with the code, and so does `PinnedToAll`.
- The conversion of a non-int `$events` may run userland code between the check
  of an item and its use (`quic_poll.c:114`), so that `SSL_poll` gets an SSL object
  that is gone, though `quic.stub.php:168` promises an exception for an item that is
  not live. `StaleOnlyByConversion` shows that there is no other way to it.

The others met on the way:

- `getFd()` of an accepted connection is a closed, possibly reused number after
  `Listener::close()`, though `php_quic.h:62` calls the field the underlying UDP
  socket, or -1. `FdIsEngineSocket` states what does hold.
- The cycle collector and request shutdown may free a Connection before its
  Streams, against the comment at `quic_connection.c:74`. OpenSSL's own counts
  make this harmless.
- `write()` returns 0 although the engine has accepted a part
  (`quic.stub.php:388`); a caller must repeat the same string, and `end()` after
  giving up ends the stream inside the cut write. `Accounted` states what holds.
- `getResetCode()` is null after a reset once the connection is closed, and an
  int after a clean FIN when the own half was reset or stopped
  (`quic.stub.php:413`, `README.md:145`). `NullExplained` states what holds.
- `README.md:142` says that one `read()` may return fewer bytes even when more is
  buffered; in non-blocking mode the code drains what is buffered, as the comment at
  `quic_stream.c:291` says, and `Drains` states it. In blocking mode it is as the
  README says.
- A NaN timeout passes both clamps of `quic_poll.c:122-128`, and its conversion
  to `long` is undefined; `TimevalNeverLonger` excludes it. A timeout with a fraction
  may lose a microsecond to truncation (4.35 s become 4.349999 s), which the
  property allows for.
- An empty fingerprint array passes, although it pins to nothing.
- Option strings with a NUL byte count as absent, not as errors (the comment at
  `quic_util.c:418`).
- The exception text quotes the oldest error of OpenSSL's queue, not the most
  recent (`quic_exception.c:36`, `quic_exception.c:49`).

## Not modelled

Introspection getters read OpenSSL state and change nothing. Exceptions format a
message and drain OpenSSL's error queue; only wording depends on it. Module
initialisation registers classes and constants once, and the arginfo header is
generated. OpenSSL's protocol engine is external throughout: flow control and
packet loss below the stream, and TLS itself, are not modelled. Changing the
blocking mode while a cut-short write is pending is left out of `StreamWrite`.
The conversion of ALPN array entries (`quic_util.c:321`) may call a userland
`__toString`, which could construct the object a second time between the check for
a live object and the assignment of its fields: the constructors are modelled as
not re-entered, so `ImplementsTable` and `AllOrNothing` say nothing of that case.
The casts of `verify_depth` and `security_level` to int (`quic_util.c:568`) are left
out, as no property depends on the two values; engine timers beyond an int of
milliseconds (`quic_util.c:226`) are assumed away.
Whether OpenSSL may run the ALPN callback for a connection that is already
accepted, after its listener has freed the callback's data, cannot be told from
this repository. PHP with threads (ZTS) shares no object between threads, so
there is no concurrency beyond what the models show.

## Plan

1. Done: all components that keep state, the two refinements, the composition of
   the client constructor with the fingerprint check.
2. Done: proofs about every module. Every safety and action property of the passing
   runs is proved, and the safety part of every liveness property.
3. Open: a composition of `StreamWrite` with `ConnClose`, so that what `close()`
   waits for is what `write()` left.
