# MessageU: models, checks and proofs

The repository is a small messenger: a Python server that keeps registered users
and waiting messages in an SQLite file, and a C++ console client that registers,
lists other users, agrees on symmetric keys with them and exchanges encrypted
texts and files through the server. This directory holds TLA+ models of both
sides, the TLC configurations that check them and the proofs TLAPS checks.

## 1. The system

| part | source | state | operations | hard behaviour |
|---|---|---|---|---|
| store | `server/database.py`, `server/user.py` | two tables behind one shared connection, one lock | seven methods, each with its statements under the lock | statements of threads on one connection, COMMIT that raises with no rollback, crashes, reads of uncommitted rows |
| server | `server/server.py`, `server/protocol/protocol.py` | a thread per connection: request, response | accept, read, dispatch, five handlers, error path, respond | threads interleave between two method calls; messages are deleted before they are sent; the accept loop ends when no thread can be had |
| wire objects, server | `server/protocol/objects.py` | none | header, `from_bytes`, `to_bytes` | lengths: short first segment, truncated request, 32-bit length |
| exchange | `client/client_net.cpp` and `handle_connection` | bytes read and written on each side | write, read in a loop, compare sizes | segmentation, early end of either stream, what an error means for a retry |
| client identity | `client/client.cpp`, `client/main.cpp`, `client/utils.cpp` | registered or not, name, identifier, RSA key; `server.info`, `me.info` | start, register, save, list | lost response after the row was added, torn or failed save, restart, namesakes, files that do not parse |
| client peers and messages | `client/client.cpp`, `client/main.cpp`, `client/client.hpp` | per peer: identifier, public key, secret, "asked" flag | commands 120 to 153, `handleMessage` | crossing keys, exceptions in the middle of a batch, restarts |
| wire objects, client | `client/objects.cpp`, `client/protocol.hpp` | none | constructors, `to_bytes` | lengths cast to 32 bits, the offsets of a collection |
| server's port file | `server/utils.py` | none | read once | parsing |
| utilities, cryptography | `utils.cpp`, `RSAWrapper`, `AESWrapper` | a file; none | hexadecimal, base64, read and write files; keys | a write that stops half way |
| console, logging | `main.cpp`, `logs.py` | none | pure input and output | none that a model would show |

A client makes one connection for each command, sends one request and reads one
response. The server has a thread for each connection. Threads meet only in the
store. Clients meet only through the server: in its list of users and in the
mailboxes. There are no callbacks and no timeouts anywhere.

What makes each part correct:

- **store**: the statements of threads that share one connection add up to whole
  methods, and the lock is given back.
- **store and server**: a message is stored before its sender is told so, is
  handed out once and in order, and disappears only with a response that carried
  it; an identifier a client was given is in the table for good; names are
  unique (they are not, see section 5); every connection ends.
- **exchange**: handlers execute whole requests only, clients accept whole
  responses only, a call returns, and it is clear after which error a command may
  be repeated.
- **identity**: who a client believes to be, the server knows, on disk; what a
  start makes of `me.info` is one identity that was given, or none.
- **collections**: what a recipient is handed is all its sender meant, or the
  sender was told (what is longer than 2^32 bytes is the exception, see section 5); a
  client finds the messages the server put together.
- **peers and keys**: a name leads to the client that bears it; two clients hold
  the same secret when they use it; a secret made for two users stays with them.

`PROJECT.json` lists every hazard with the line where it bites.

## 2. Modules

| module | models | extends / composes |
|---|---|---|
| `Database` | the store, a method as one step | |
| `Store` | the store, statement by statement, with its lock | extends and implements `Database` |
| `Server` | threads and handlers of the server | extends `Database` |
| `Postal` | the abstract promise about a message | implemented by `Server` |
| `Exchange` | one request and response, byte by byte, both sides | |
| `Enrolment` | client identity and the list of users | extends `Server`: a call is a request, the steps of a thread and its response |
| `Startup` | `server.info` and `me.info`, as texts | |
| `Collection` | the length of a message, from its sender to the parsing of a collection | extends `Startup` |
| `KeyExchange` | peers, keys, texts, files | mailboxes with the promise of `Postal` |
| `MCServer`, `MCEnrolment`, `MCKeyExchange` | request mixes and symmetry for TLC | |
| `StoreProofs` | proofs about `Store` | |
| `ServerProofs`, `ServerMailProofs`, `PostalProofs` | proofs about `Server`; the last, that it implements `Postal` | |
| `EnrolmentProofs` | proofs about `Enrolment` | extends `ServerProofs` |
| `ExchangeProofs`, `KeyExchangeProofs` | proofs about `Exchange` and `KeyExchange` | |
| `CollectionProofs` | proofs about `Startup` and `Collection` | |

**Database.** A method is one step because its statements are all inside
`with self.lock`, which `Store` makes precise (`get_client`, which reads after
the lock was released, has no caller). A writing method may raise instead: before it changed anything, at COMMIT
with the transaction left open, or with the transaction rolled back by SQLite. The tables the connection sees (`clients`, `messages`) are therefore
separate from what the file holds (`disk`). The next COMMIT of any method writes
both tables, whatever is open; a restart begins with `disk`. A row number stands
for the posting it comes from.

**Store.** Each thread is outside, waits for the lock, or is at a point between
two statements of the method it is in: before the first, between SELECT and
DELETE, before COMMIT, behind the last. Each statement may raise, COMMIT too, and
the `with` gives the lock back whatever happens; a crash comes between any two.
All threads see the same tables at once, because they share one connection: an
INSERT that is not committed is visible to every method the lock lets in. `Store`
implements `Database!DbSpec` under the mapping `Seen`: while a thread is between
its first change and COMMIT, the abstract tables are those it found (`before`).

**Server.** `pc` follows a thread through `handle_connection` and
`handle_request`: `idle`, `handling` (the request is read), then for a
registration `checked` (after `username_exists`) and `added` (after
`add_client`, before the listing that is printed), then `replying`. Each of
these stops is a place where the code calls a method of the store and other
threads can come in between. `database_raises` is the `except` of
`handle_request` for each call that can raise. `response_too_long` is
`struct.pack` refusing the length of a response whose messages are already
deleted; `lose_response` is a failing `sendall`, or a response nobody reads.
`accept_raises` is `Thread.start` failing: the accept loop ends, the threads that
are running finish, and then the process ends (`Ended`).
`handed`, `dropped`, `acked` and `enrolled` record what clients were told; no
action reads them.

**Postal.** A letter is unsent, waiting, taken, delivered or lost, and moves only
forward. `lost` is reachable from `taken`, and also directly from `waiting`: a
collection whose COMMIT raised has thrown its rows away, and the next commit of
another thread completes the deletion. A sender is told that a letter is stored
only when it is. `Server` implements it under the refinement mapping `Fate`.

**Exchange.** Counters for the bytes written and read on each side. The client's
two reading styles (one read for responses of fixed length, a loop for lists)
and the server's (one `recv` for the header, a loop for the payload) are kept
with every comparison they make. `Chunk` is TCP: a read returns any non-empty
prefix of what has arrived. `link` is up, finished or broken; a break comes at any
time, after the server has closed its end too, and may leave a server thread or
kill it. Name resolution and `connect` happen before.

**Enrolment.** A process of an installation starts (reads `me.info` or makes a new
RSA key), registers, saves, lists, ends. Its call is bound to a thread of
`Server` by `conn`; either side may give up on the other, and the thread goes on
without its client. `me.info` is whole or not here, which `Startup` shows to be
all that matters. `client_lists_namesake` is the exception in the middle of
the loop of `getPeers`. `SELECT` promises no order, so any user may come first.

**KeyExchange.** A command makes one call and is one step. The collection of mail
is a step per message, because `handleMessage` may throw and take the rest of
the batch with it. Encryption is by value: what was encrypted with a secret
opens with that secret; with another one `decrypt` throws or shows noise. A file
that is received is saved, or does not open (an exception `handleMessage` catches:
the message is dropped), or has no directory to go to (`filesystem_error`, which it
does not catch: the rest of the batch is lost and the client is at its prompt).
The mailboxes lose a whole collection at a time and keep the order of messages:
`ImplementsPostal` and `FetchedInOrder`, proved of `Server`, are what entitles
them to that.

**Startup.** `server.info` is a text over an alphabet of a letter, the colon, a
space, a minus and two digits. `find`, `substr` and `stoi` do what the standard
library's do: `npos` is the largest `size_t`, adding one to it wraps to zero,
a number that is no `int` throws, and a negative port wraps in `size_t`. `me.info` is a sequence of cells, one
for each character of the name, digit of the identifier and piece of the encoded
RSA key, each marked with the registration it comes from, so that a mixture of
two registrations can be told from either. `write_file` empties the file and
writes cell by cell; the process may end between any two. `read_me_info` keeps
what it had stored when a test fails or a conversion throws.

**Collection.** A message is whether it is a text or a file, the length its sender
meant, and the length of the content that is stored. `encrypt` is the narrowing of
the length of a text to 32 bits, which nothing tests, and `sealed` the padding to
whole blocks. `content_size` is the cast to 32 bits in `Message` and the test behind
it, `Sendable` the test in `sendMessage` in 64 bits, `Accepted`
the comparison in the server's `Message.__init__`, `Packs` the 32 bits of a
response. The payload of a collection is a sequence of messages of which the
client's loop knows only an offset: at the beginning of a message it reads that
message's length, at any other offset it reads anything (`HeaderAt`).

## 3. Runs

| run | bounds | shows |
|---|---|---|
| `store` | 2 threads, 2 rows posted, statements that raise, crashes | `Store` implements `Database`; a method reads nothing another has half inserted or half deleted, and deletes what it fetched; the lock is freed |
| `server_mail` | 2 threads, 2 mailboxes, 2 messages, batches of 1 | `AtMostOnce`, `FetchedInOrder`, `NoSilentLoss`, `ImplementsPostal` with crashes and raising methods |
| `server_progress` | 2 threads, every request code, well formed or not | `TypeOK`, `ConnectionsEnd` |
| `server_race` | 2 threads, 1 name | `UsernamesUnique` is violated |
| `exchange` | headers of 2 bytes, buffers of 3, payloads up to 5, breaks anywhere | all of `Exchange` |
| `exchange_short` | as above, smaller | `ShortResponseReported` is violated |
| `exchange_segments` | as above, smaller, no breaks | `WrongSizeIsWrong` is violated |
| `enrolment` | 2 installations, 2 names, 3 identifiers, 2 RSA keys, 2 threads | identities and lists, both sides crashing; `RegistrationsDurable`, `DuplicatesBounded` |
| `key_pair` | 2 clients, 2 secrets, 5 messages, failing calls, failing saves, restarts | `TypeOK`, `TextsReadable`, `KeysAgree` |
| `key_three` | 3 clients, 3 secrets, 4 messages, batches lost to exceptions | `SecretsOfThePair` |
| `key_unasked` | 2 clients, 4 messages | `UnaskedKeysDropped` is violated |
| `client` | `server.info` up to 5 characters, ports up to 10, 2 RSA keys, 3 messages of 0 to 38 bytes, 5-bit lengths | all of `Startup` and `Collection` |

Why these bounds: two threads are enough for every race between two calls of the
store, and between two statements of it, since one of them holds the lock. More
identifiers than threads let a later registration meet rows that earlier ones
left. Two messages and batches of one let a collection be too long (`MaxBatch`
stands for 4 GiB) and let one message be waiting while the other is taken. In
`exchange` a header spans reads, a payload needs several reads, and the buffer
holds less than a response. In `key_pair` five messages hold a request, a key, a
file, a second key and a file under it. A file takes every step of a text and two
more, so the passing runs of `KeyExchange` send files only, and the violation run
texts. In `key_three` calls do not fail, since the state space with failures is
out of reach: that keys stay with their pair when calls fail or a client restarts
rests on the theorem `SecretsStayWithThePair`, which has no such bound. `MaxPosts` (`MaxRows` in `Store`) is a guard
of the actions that post; no other bound is in a guard except the pools `Ids`,
`Keys` and `Secrets`, whose members are used once, and those of `client`.

In `client`, five characters hold a host of two, a colon, a sign or a space and a
digit, or two digits, one more than a port may have; texts without a colon and
with several are among them. `MaxPort = 10` stands for 65535 and two digits reach
beyond it; `MaxInt = 100` stands for the largest `int` and three digits reach
beyond it, with a sign one value later. Only the first starts try every text (`Tried`); once a `me.info` may
exist, which no text changes, one valid `server.info` is enough. Two registrations
are what a mixture in `me.info` needs, and names of one or two characters let the
second file be shorter than the first.

`Width = 32` stands for 2^32, `Block = 4` for 16 bytes, and `MaxBlob = 12` for
SQLite's limit, which is below 2^32. Texts and files have lengths of 11 (a content of
12, the longest that is stored), 27 (a content of 28, which SQLite refuses and which
exceeds `Width` with its header), 29 (which fits in `Width` until it is padded to 32),
and 38 (which is cut to 6). Key messages have no content, or 6 bytes. Three contents
of 12 with their headers exceed `Width` in one collection.

The largest runs are `store` (about 690,000 distinct states), `key_pair` (390,000),
`server_mail` (320,000) and `client` (310,000).

Deadlock is not checked where a behaviour may end: bounds run out, an exchange is
over, a server nobody restarts.

**Fairness.** `Server!FairSpec` assumes that a thread which can take a step takes
one: the interpreter schedules all of them, a lock is held for a few statements
only, and `sendall` returns or raises. It does not assume that clients connect,
that the process crashes or starts again. `StoreFairSpec` assumes that a thread
within a method goes on, never that a waiting one gets the lock:
`threading.Lock` promises no order. `Exchange!FairSpec` assumes it of the
client's thread and the server's, and never that a connection breaks. The client
has no pauses of its own while it writes, so a client that stops in the middle
of a request (against which the server has no timeout) is outside the model.

`TextsReadable` and `KeysAgree` are conditional on `spoilt`, which collects the
pairs whose exchange met one of the listed accidents: a key message lost with
its batch or dropped, a call that failed after the secret was set, keys that
crossed, a restart. The code has no protection against any of these; what is
checked is that nothing else can part two clients. `EveryoneListed` admits a
row that was rolled back after it had been listed, for the same reason.

## 4. What is proved

All proofs hold for every value of the constants that satisfies the named
assumptions. `ConstantsAssumption`, `StoreAssumption`, `SizesAssumption`,
`KeyExchangeAssumption` and `EnrolmentAssumption` say that numbers are natural
numbers, switches are Boolean and `NoThing` is none of the values it stands
beside. `StartupAssumption` adds how the widths of the code compare: a port fits
in an `int`, and `size_t` has room for an `int` and a port more, so that a
negative number never wraps into the range of ports. `CollectionAssumption` adds
that the longest content SQLite stores, with its header, fits in 32 bits, and that a
block is not empty.

- `StoreProofs`: `StoreTypeOK` (with the fact that a thread is inside exactly when
  it owns the lock), `ReadsBetweenMethods`, `DeletesWhatItFetched` and
  `ImplementsDatabase`. They follow from `StoreInv`: whoever is before COMMIT is
  alone inside, so the tables differ from `before` by its own change only
  (`HolderInv`), and `before` is set only then (`BeforeInv`). `ReadsBetweenMethods`
  says of every SELECT, one with an empty result included, that it returns what it
  would have returned of `Seen`, the tables between the methods of the others: not a
  row that another inserts, and not a gap that another deletes, before its COMMIT.
- `ServerProofs`: `TypeOK`, with one lemma per group of actions. `RegistrationsDurable` from `EnrolInv` (a thread that
  has passed `add_client` has its user in the table and on disk, and no
  rollback can take it away because `disk` only grows), and `DuplicatesBounded`
  from `DupInv`, an argument by counting: the rows of a name together with the
  threads between test and insertion do not exceed the number of threads,
  because once a row is there no new thread passes the test.
- `ServerMailProofs`: `AtMostOnce`, `FetchedInOrder`, `NoSilentLoss`. None is
  inductive. They follow from `MailInv`, which adds `RowsSpent` (every row stored
  or fetched has a number below `nextRow`, so that a new one is younger than all)
  and `UnsavedDeletes` (rows that are on disk and no longer in the tables were
  thrown away by a collection that raised, so that a later commit, which makes
  their deletion final, loses nothing that is not already counted as dropped).
- `PostalProofs`: `ImplementsPostal`, the refinement. The fate of a message is read
  off the places its row is in; `RowsMove` says what a step may do to these
  places, each action is shown to satisfy it, and `FateMoves` derives a step of
  `Postal` or a stutter from it and from `RowsInv`: no two rows have one number,
  and a dropped row is in the tables only if a rollback has found it on disk.
- `EnrolmentProofs`: every step of the composition is a step of `Server` or leaves
  it alone (`ServerSteps`), so the server's invariants hold of it. To these `Inv`
  adds that a thread's row is made from the request it handles (`AnswersMatch`),
  that this is the request of the client waiting for it (`CallsMatch`), and that
  whoever a client believes to be is on disk (`IdentitiesKnown`). From it follow
  `EnrolmentTypeOK`, `IdentityKept` and `IdentityForLife`. `PeersInv` adds
  `NamesInv`: an identifier belongs to one name wherever it is, in the tables, on
  disk, in a thread or in a response, and no new user gets one that was given out;
  so a rolled back row that a client has listed leads to nobody, and never to
  somebody else. With it `PeersNamedRight` holds. `EveryoneListed` follows from
  `ListsMatch`: everyone who was registered when a list was asked for is in the
  response, once there is one, and the loop of `getPeers` that goes through
  passes over nobody.
- `ExchangeProofs`: `TypeOK`, `AcceptedMeansDone`, `RetryIsSafe`, from `ExchangeInv`: the handler has run only if everything was
  received, bytes are sent only after it ran, and a client that is still
  writing has not given the server a whole request.
- `KeyExchangeProofs`: `TypeOK`, and `SecretsOfThePair` from `KeysInv`, which adds
  the key messages in mailboxes and batches to the secrets in memory.
  `TextsReadable` and `KeysAgree` from `StepInv`, which says of two clients whose
  exchange is not spoilt what holds between the moments these two are about:
  while a key of one is under way, nothing but requests of the other is; the last
  key one has sent is what the other will hold when it is through its batch and
  its mailbox; and every text there opens with the last key before it. Commands
  append a message, which changes nothing for the positions before it, and a step
  of `handleMessage` takes the first one away.
- `CollectionProofs`: all of `Startup` and `Collection`, for texts, files, keys and
  payloads of any length. `StartupTypeOK`, `IdentityOfOneRegistration` and
  `ServerInfoRead` follow from `StartInv`: `me.info` is the beginning of what was
  once to be written for somebody enrolled, and while a save goes on, of what the
  process says of itself. `SavedIsOneIdentity` follows from that invariant after
  the step. `CollectionTypeOK`, `ReadAsMeant`, `ReadsInside` and `ParsedInOrder`
  follow from `CollectionInv`: a payload fits in 32 bits, the offset of the
  loop is the end of the last message parsed, and every content of less than 2^32
  bytes has kept its length (`KeepsLength`), for any size of a block.

  These need induction over data. The library's induction theorems take a formula
  as a parameter, which no installed prover can instantiate. `LeastNumber`, that a
  set of natural numbers has a least element, needs only a set, and follows from
  the well-foundedness of the order. From it come `UpTo` (a set that has 0, and
  with every number below n the next one, has them all) and `Recursion` (a
  function given by its first value and a step exists), and from those what the
  recursive functions of the two modules are. `ReadBack` is the main lemma about
  `me.info`: from its first m cells `read_me_info` makes nobody, or whom the whole
  was written for, whatever m. `PortsAre` is the one about `server.info`: `find`,
  `substr`, `stoi` and the two tests accept exactly the ports that `Configures`
  describes. `EndsRise` is the one about payloads: a later message ends later, so
  no two headers are at one offset.

TLC finds no violation of `KeysInv`, `StepInv`, `PeersInv`, `StartInv` and
`CollectionInv` as invariants under the configurations `KeyExchangePair`,
`KeyExchangeThree`, `Enrolment` and `Collection`.

Only model-checked: the liveness properties (`ConnectionsEnd`, `LockIsFreed`,
`ThreadEnds`, `FixedCallReturns`, `CallReturns`). They rest on fairness, hence on
ENABLED, which is out of the prover's reach. The four rules that section 5 shows
violated have nothing to prove.

## 5. What the models found

- `UsernamesUnique`: two registrations at once both pass the test of
  `server.py:83`. Afterwards each of the two is told by `getPeers` that the
  other is "against the protocol rules" (`client.cpp:147`), and sees no list.
- `ShortResponseReported`: a list that ends early is not reported as corrupted
  (`client_net.cpp:66`); the loop of `client_net.cpp:60` never ends.
- `WrongSizeIsWrong`: a response of fixed length that arrives in two segments is
  refused as of "Wrong size" (`client_net.cpp:30`), although the server has sent all
  of it and executed the request: `validate_size` is given what one read returned. A
  user who repeats the command has it executed twice.
- `UnaskedKeysDropped`: after one request every later key of that peer is
  accepted, against `client.cpp:228`.

Observed on the way, as conditions of properties that hold: messages are
delivered at most once, never at least once; a failed COMMIT leaves rows that
later commits complete; an identifier listed from a row that is rolled back is
kept for ever; after "sending request failed" a command may be repeated, after
every other error it may be executed twice. A text or file of 2^32 bytes or more is
cut to the low 32 bits of its length (`AESWrapper.cpp:64`) before any test sees it,
sent and stored, and the sender is told of no error, whatever `client.cpp:345` says of
messages that are too long; because padding makes a content longer than its text, the
test of `objects.cpp:72` still refuses a text whose low 32 bits are within 16 of 2^32,
and nothing else. `ReadAsMeant` is what remains true: all that is shorter than 2^32
bytes is read as it was meant. The words of `client.cpp:236`, "can't decrypt message",
are assigned to a string that is never printed. A `server.info` without a colon, just
a port, is accepted, its text being host and port at once, since `npos > 1`
(`client.cpp:285`), and a host of one character is refused (`Configures` states what
is accepted exactly). A `me.info` that cannot
be opened is taken for none, and the next registration replaces it. A registered
process whose save failed goes on, and the identity ends with it.

## 6. Not modelled

`get_server_port` of the server: read once, with a default when it fails. The
console: its commands are the actions. The order of the fields in a header,
printing, logging: data no property tells apart. RSA and AES: wrappers supplied to
the project, taken as opaque. In `Startup` a piece of an encoded key stands for
many characters, base64 keeps the cells and adds the newline its encoder ends
with, and a file holds what was written when the process ended: the reordering of
writes by a power failure is left out. `IsHex` is stricter than
`stoi(.., 16)`, which also takes a sign, spaces and `0x`: no beginning of a file that
`save_me_info` writes has them. The names of users that no client can use, because
the response with their identifier was lost or could not be saved, are a consequence
of the code that the models contain and no property forbids. Message identifiers: 4 random bytes that
no query uses; two equal ones make a received file overwrite another. Weak keys
after a failing `_rdrand32_step`: a matter of probability.

## 7. Plan

Every safety and action property of the passing runs has a theorem. What is left,
in this order:

1. The bridge from `Server` to `KeyExchange`: what a mailbox of `KeyExchange`
   promises (messages appended at the end, taken as a whole, lost as a whole),
   proved of the rows `Server` holds for one recipient.
2. `get_server_port`, read once when the server starts.
