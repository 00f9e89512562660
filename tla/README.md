# Verification of the tracker-assisted file-sharing system

TLA+ models of the tracker, the peers and the storage layer of this repository,
the TLC configurations that check them on small instances, and TLAPS proofs of
the main safety properties for every size. Paths below are relative to `src/`.

## 1. The system

A **tracker** (an HTTP server) keeps, per torrent, the list of peers that
announced themselves. A **peer** process runs one **worker** thread per torrent;
a worker scans its storage, serves its pieces to other peers over TCP, announces
itself, pings the peers the tracker names, downloads what it lacks from them,
and leaves again.

| Component (source) | State | Operations | Hard behaviour |
|---|---|---|---|
| Tracker state (`tracker/tracker_state.py`) | `_swarms`: info hash → peer id → record with `left`, `last_seen`; one `RLock` | `announce` with the events started, completed, stopped and none; `remove_peer`; `remove_expired_peers`; queries | handler threads and the cleanup thread share the table; timestamps are read before the lock; a logger that raises under the lock |
| Tracker HTTP server and runtime (`tracker/tracker_server.py`) | threads, stop event | parse the query, answer, cleanup loop, start/stop | one thread per request, exceptions of the cleanup loop |
| Tracker client (`peer/tracker_client.py`) | none | `announce` | requests lost, answered late, connection reset |
| Torrent worker (`peer/torrent_worker.py`) | the locals of `run()`: the last response, the cycle counter, `started_sent`, `completed_sent`, ... | boot, announce, ping, download, wait, close | everything happens among other workers that come and go; failures in the `finally` block |
| Thread pool, application (`peer/torrent_worker.py`, `peer/peer.py`) | `_running`, stop event, barrier, futures | `run`, `stop`, Ctrl+C | re-entry, barrier with workers that never start, clear of the stop event, leaving the executor |
| Peer server (`peer/peer_server.py`, `peer/transfer_stats.py`) | listener, stop event, set of handler threads, set of interested peers, upload counter | `start`, `stop`, accept loop, one handler per connection | `stop` against accept and handlers, joins with timeouts, counting after sending |
| Piece manager (`peer/piece_manager.py`) | bitfield, lock, the files | prepare storage, scan, `write_piece`, `read_piece` | pieces that cross files, partial writes, crashes, files changed from outside |
| Piece client (`peer/piece_client.py`) | none | bitfield, interest, request | each on a connection of its own; the other peer may have gone in between |
| Ping client (`peer/ping_client.py`) | `PeerPingService`: `_started`, stop event, its thread | `ping_peer`, `ping_all_peers`; `start`, `stop` | a round may outlast the join of `stop`; `start` after it clears the event that the old thread has still to see |
| Metainfo and its generator (`peer/metainfo.py`, `tools/create_metainfo.py`) | the torrent's layout and hashes | `load`, `validate`; `calculate_piece_hashes`, `create_metainfo` | where pieces are cut, empty files, the short last piece; sizes asked for after the content was read; names that collide; documents edited by hand |
| Framing (`peer/peer_protocol.py`) | none | `send_message`, `recv_exact`, `receive_message` | bytes that arrive in any pieces, or stop arriving; length limits |
| Event logger (`common/event_logger.py`) | the log file, the temporary file next to it, one lock per path | open or create, `log` | a read-modify-write that the disk or the end of the process may cut short; timestamps read before the lock |
| Bencode (`common/bencode.py`) | none | `bencode`, `bdecode` | canonical form, damaged or foreign input |

What makes them correct, in a sentence each:

- tracker: every announce takes effect at one instant, its reply shows the swarm
  of that instant, and peers are evicted when they are silent and only then;
- worker: what the tracker believes about a worker is true or will be corrected,
  a stopped worker leaves nothing behind, a patient worker completes;
- thread pool: one run at a time, workers start together, a stop ends them;
- peer server: `stop()` returns, and then everything is over and counted; pieces
  go to the peers that were told UNCHOKE;
- piece manager: the bitfield never lies, and nothing that is right is lost;
- layout: the generator, the reader and the writer agree on every byte, and the
  loader accepts what the generator writes;
- messages between client and tracker: what was meant is read, or refused;
- event logger: a call that returned has its line, one that raised has none;
- ping client: a success is a whole PONG of the right peer; stopped means it ends.

The hazards, line by line, are in `PROJECT.json`.

## 2. The modules

```
Announces ──┬─ SwarmRegistry (abstract) ◄── implemented by ── TrackerState ─┐
            │        ▲                                                      ├─ TrackerProofs
            │        │               Bencode ── TrackerWire ────────────────┘
            │        └── used as the tracker by ── TorrentWorker ── TorrentWorkerProofs
Sums ── PieceLayout ┬─ MetainfoFile ── PieceHashing ─┐
                    └─ PieceManager ─────────────────┴─ PieceProofs
AppendLog (abstract) ◄── implemented by ── EventLog ── EventLogProofs
Sums ── DataLemmas (numbers and sequences) ── PieceProofs, TrackerProofs
PeerServer ── PeerServerProofs            ThreadPool ── ThreadPoolProofs
PingService ── PingServiceProofs
```

Each module `M` that TLC runs has a module `MCM` with its small sets.
An operator named after another with a suffix (`Shutdown_nowait`) is a faulty
variant of it and no part of any specification: put in its place, it makes TLC
violate the property that `PROJECT.json` pairs it with, which shows that the
property depends on that code.

**Announces** – requests and replies. Of the byte counters a request carries,
only whether `left` is 0 matters to the tracker, and for `stopped` not even that;
a reply's ports and addresses follow from the peer ids.

**SwarmRegistry** – the abstract tracker: `members` and `seeds` per torrent, the
request each client has pending, the reply it is about to get. `Serve`, `Refuse`,
`Fail` (an internal error after the change was made), `Drop` (eviction, removal).

**TrackerState** – the real one. Variables: the lock, the keys of `_swarms`
(`known`), the records (`members`, `seeds`, `age`), per handler a control point,
request, timestamp and reply; the cleanup thread's control point, timestamp and
the swarms it has still to visit. Actions follow the code: `Receive` (validation
and timestamp, before the lock), `Acquire`, then one of `Stopped`, `Register`,
`RefuseUnknown`, each including its log call, which may raise; `Respond` (build
the reply, still locked), `Finish`. The cleanup thread: `Wake` (timestamp),
`SweepStart` (lock), `SweepSwarm` per torrent, `SweepEnd`, or `SweepFails`.
Timestamps are ages that `Tick` increases. `heard` is a history variable: the age
of the youngest timestamp ever written for a peer.

**TorrentWorker** – `TorrentWorker.run` of several peers of one torrent composed
with `SwarmRegistry`. Every announce is a connection of its own, named
`<<worker, event>>`, so that one that timed out can still be served. One action
per step of `run()` between two points where others can interfere: `Boot`,
`Accepted`/`Rejected`, `BeginCycle`, `Ping`, `FetchBitfield`, `ExpressInterest`,
`RequestPiece`, `EndCycle`, `Wake`, `Close`, `StopServer`. The constant `Faults`
names which faults may occur; an announce is lost, if it is, at the moment it is
sent. `Rotting` names the workers whose disk may spoil pieces: `UploadFindsRot` is
an upload handler whose `read_piece` finds a wrong hash and clears the bit, at any
point of the worker's cycle; `spoilt` is a history variable with the pieces that
went that way since the worker last looked at its bitfield for an announce. Peers
are visited in any order (the code goes by peer id). A `RequestPiece` that succeeds stands for the transfer, the hash check
and `write_piece`; those are PeerServer and PieceManager.

**PeerServer** – the thread in `start()`/`stop()` (`owner`), the accept loop
(`acceptor`, the connection `inHand`), and for each connection its stage: in the
backlog, accepted, handler launched, response to send, upload to count, to close.
A registered handler is a member of `workers`; `abandoned` records the handlers
whose join timed out. The upload counter is the set of
connections counted. `PieceArrives` is the download side filling the bitfield.

**ThreadPool** – the callers of `run()` through entry, clear, submission,
collection, executor exit and `finally`; workers through barrier and work; Ctrl+C
as an exception at the places where the main thread waits, after which nobody
calls `run()` again; `asked` records whether a `stop()` came before or after the
clear.

**PieceLayout** – the arithmetic, as operators on a layout (file lengths, piece
length), and the reference it is checked against (`Stream`, `Slice`). What a loop
holds after n terms (`offset` of `_build_segments`, `consumed` of `_write_virtual`,
`downloaded_bytes`) is `RunningSum`, a function defined by recursion on n.
**MetainfoFile** – the JSON document as a record, whose fields hold their value, a
value of another type (`Odd`) or nothing (`Absent`): what the generator writes
(`Document`) and what `validate` accepts (`Accepts`). **PieceHashing** – the
generator's loop, chunk by chunk, then `CreateMetainfo` (one file may have changed
its size since it was read), `EditByHand` (one field) and `Load`; a hash is
represented by the bytes it covers; the place in the program is `stage`, and the
specification is `GeneratorSpec`, so that PieceProofs can speak of both this module
and the next. **PieceManager** – a file is its existence, its size
and the set of its
offsets with the right byte; a piece verifies when all its bytes are right.
Writing goes file by file; `WriteFails` stops after any number of bytes, `Crash`
at any moment, `Tamper` changes a file from outside, between two operations or
while the program is not running; `tampered` records that it happened to an open
manager, which is the one case in which a bit may be wrong. The constructor's scan
may fail to read any piece (`unread` records which), and then takes it as missing.

**AppendLog** – the abstract log: `Submit`, then `Accept` (the entry is appended) or
`Reject`; somebody may `Erase` the file, and a process may `Die`.
**EventLog** – the threads of one process with the file, the temporary file and the
lock of the path. A log is its damaged header lines (`bad`), the two dates of the
header and its lines; each text is a value, already sanitised. `Call` reads the
clock before the lock; `Read` takes the lock and makes the new content (`draft`),
`Write` writes it to the temporary file, `Replace` puts that in place; each of the
three has a failing variant. The constructor (`Create`, `Open`) uses the same steps.
`Crash` ends the process anywhere, `Tamper` spoils a header line or deletes the file
between two calls.

**Bencode** – encoder and decoder over symbols. Where the source recurs on what is
inside a value or further on in the text, they are functions that refer to themselves:
`Codes` by the nesting depth, `Parser` by the position, from right to left. What may
raise returns a set, empty if it does. Python's `int()` is modelled with its
leniency (blanks, signs, underscores). **TrackerWire** – a message on its way: a
query as `build_announce_url` quotes it and `parse_announce_parameters` reads it, or
a reply as the server encodes it and `parse_tracker_response` reads it, after up to
`MaxEdits` symbols were replaced, inserted or deleted. A symbol is a byte, or a word
such as a key or `%2B` that nothing in the code cuts.

**PingService** – `start`/`stop` of `PeerPingService` as steps of the `Callers` (what
happens under the lock is one step), each thread ever started with its place in
`_run` (`pinger`), and for each of its pings the place in `ping_peer` (`ping`), the
answer on the connection (`frame`: declared length, bytes that come, whether it then
closes, what it says) and the bytes received (`got`). `Receive` is one call of
`recv()`, which returns any number of the bytes due. `abandoned` records the threads
whose join timed out.

## 3. What is checked

Run `tlc -config X.cfg MCM` in this directory.

| Run | Instance | Properties | Distinct states |
|---|---|---|---|
| `TrackerState_safe` | 1 torrent, 2 peers, 2 handlers, failing logger | `ImplementsRegistry` | 86,072 |
| `TrackerState_live` | 1 peer, 2 handlers, timeout 2, delay 1, fair | `LastSeenNearlyRight`, `EvictionGrace`, `SilentPeersGo`, `EveryAnnounceAnswered` | 69,553 |
| `PieceHashing` | up to 3 files of 0–3 bytes, pieces of 1–4, three namings, one size changed, one field edited | `GeneratedIsLoaded`, `HashesMatchReader`, `WriteInvertsRead`, `LeftIsZeroWhenComplete` | 129,026 |
| `PieceManager` | files of 1, 0, 2 bytes, 2 pieces, 2 threads, any initial storage, files changed from outside | `BitfieldSound`, `CompleteMeansContent`, `NothingLost`, `ScanFindsAll`, `SetOnlyWhenValid` | 15,088 |
| `TorrentWorker_live` | seeder and leecher, 2 pieces, endless, no faults, fair | `CompletedIsAnnounced`, `FinishedGone`, `StopIsHonoured`, `PatientPeersComplete` | 14,039 |
| `TorrentWorker_faults` | seeder and leecher, 1 piece, 2 cycles, all nine faults, the leecher's disk rots | `TypeOK`, `NoResurrection`, `MutualDiscovery`, `SeedsAreComplete` | 1,552,857 |
| `PeerServer` | 2 connections, 1 peer, 1 piece, all four faults, fair | `StoppedMeansAccounted`, `CountedWereSent`, `UnchokeIsKept`, `EveryConnectionEnds`, `StopTerminates` | 233,146 |
| `ThreadPool` | 2 callers, 3 jobs, one of them endless, faults, one Ctrl+C, fair | `NoWorkerOutlivesRun`, `BarrierAllOrNone`, `RunEnds` | 3,518 |
| `EventLog` | 2 threads, 1 text, clock 0–2, delay 1, 2 lines, fair | `TimesNearlyOrdered`, `ImplementsAppendLog`, `EveryCallReturns` | 69,727 |
| `TrackerWire` | ids of 2 symbols with all reserved ones, up to 2 peers, 1 damaged symbol | `RequestArrives`, `ReplyArrives`, `DecoderIsCanonical` | 21,376 |
| `PingService` | 2 callers, one of them stopping, 2 threads, 2 peers, 1 worker, 5 answers, both faults, fair | `SuccessIsGenuine`, `PingersAccounted`, `PingersEnd` | 467,533 |

One more run, `ThreadPool_ctrlc`, checks what a comment says and finds that the code
does otherwise: "Press Ctrl+C to stop gracefully" (`peer/peer.py:80`), while the
executor waits for its workers before `pool.stop()` is reached.

Four things the models show that a reader of the documentation may not expect, and
which the properties above leave room for:

- a `started` announce that times out may be served all the same; the worker never
  saw the reply, does not send `stopped`, and stays registered until the tracker's
  timeout (`FinishedGone` is checked without that fault);
- a peer that leaves between its PONG and its BITFIELD ends the worker that asked
  it, incomplete (`PatientPeersComplete` is checked without that fault);
- a `stop()` of the pool that falls between the entry of `run()` and its clear of the
  stop event is lost (`RunEnds` speaks of the stops after the clear);
- a connection reset while the reply to `stopped` is read leaves `run()` past the
  server's `stop()`: such a worker (`raised`) goes on serving, and no property says
  that it does not.

Some properties are weaker than a reader of the code may expect, because the
code does no more. `EvictionGrace` subtracts `MaxDelay`, and counts an announce from
the moment its timestamp is written: the sweep and an announce both read the clock
before the lock, so the sweep may evict a peer while a newer announce of it waits. Of
that announce the property says that it came more than `PeerTimeout - MaxDelay` ticks
after the one on record; a peer that awaits each answer and announces more often than
that stays.
`SeedsAreComplete` excepts the pieces a worker's own disk spoilt since it looked at
its bitfield for the announce: the tracker cannot know of them before the next one. `CompleteMeansContent` speaks of the declared
bytes: a file that was longer before the download keeps its tail.
`StoppedMeansAccounted` excepts the handlers in `abandoned`, and says nothing of
a running server: an upload is counted after it was sent, so a client may have
its piece first. `SilentPeersGo` is checked without logger failures: one in the
cleanup loop's own exception handler ends that thread. `GeneratedIsLoaded` and
`HashesMatchReader` except files whose size changed while they were being hashed:
`create_metainfo` asks for the sizes afterwards, and may then write a document that
is refused, or loaded with a last hash no reader reproduces. `GeneratedIsLoaded` also
says when a document is refused: two of several files with one base name, or a name
that is no safe path component. `RequestArrives` says that an announce URL with
parameters of its own is always refused. `DecoderIsCanonical` excepts blanks, plus
signs and underscores, which `int()` takes. `PingersAccounted` takes one stopping
thread: two `stop()` whose joins time out around a `start()` leave a thread that no
further `stop()` would end. `_started` stays true after a raising logger has ended the
thread, until the next `stop()`; `PingersEnd` is checked with that fault.

**Bounds.** `PeerTimeout`, `MaxDelay` and `AgeCap` (their sum plus one) bound
time: ages beyond `AgeCap` are past every timeout alike, and `MaxDelay` is how
long a thread may sit on a timestamp, so it is part of the statement of
`EvictionGrace` and not only of the instance. Two handlers are enough for any
pair to overlap with the cleanup thread; the proofs cover more. The one layout of
the PieceManager run has what layouts can have: a piece that crosses files, an
empty file inside a piece, two pieces in one file, a short last piece; PieceHashing
tries all small layouts. `Slack` lets a file be one byte too long. Two workers
make every pairwise race of the worker. Only the leecher's disk rots, for the sake of
the number of states; it is the worker that becomes a seed during the run and may
cease to be one, and the theorem covers the others. `MaxCycles = 2` has a
periodic announce; `Endless` workers have a `max_cycles` that is not reached.
`MaxInterrupts` counts Ctrl+C. `MaxDelay` of EventLog, as that of the tracker, is
part of the property; with `MaxTime = 2` a line can be out of order with its
neighbour and with the creation date. `MaxLines = 2` gives two threads a line each,
which is what an update needs to be lost. In PingService one worker for two peers is
the case where a round outlasts the join; two threads are one restart, in which the
old thread can meet the event that the new start cleared; sizes of 2 let header and
payload be cut, ended and exceeded. Two symbols of an id make every pair of reserved
bytes; one damaged symbol reaches each refusal of the decoder and of the client.
Connections of PeerServer carry one request each, as in the code. Symmetry is used only in runs of safety properties, on sets
whose members are interchangeable.

**Fairness.** Threads are run by the interpreter: weak fairness per thread. The
tracker's lock is no queue, so a waiting thread is owed it only if it is free
again and again: strong fairness of `Acquire` and `SweepStart`, and for the same
reason of the first step of a waiting `log()` in EventLog. A barrier wait
and a socket operation end by their timeouts, whose steps belong to their
threads (in PingService, `Fails`, which weak fairness of a ping owes it once nothing
else can happen on the connection). A tracker that is up serves requests. Nothing is
assumed of what others decide: clients need not connect, nobody need call `stop()` or
press Ctrl+C, and no fault need happen.

## 4. What is proved

For all values of the constants, subject to the `ASSUME`s of the modules (sets
are what their names say; the number of peers is finite; time bounds are natural
numbers) and to what is listed.

- **TrackerProofs.** `TypeCorrect`; `LockIsHeldInside` is inductive with the
  types; `TableAgrees` needs nothing else. `LastSeenLag` and `GraceHolds` rest on
  types alone: a stored timestamp is at most `MaxDelay` old when it is written,
  and all ages grow together up to the cap. `TrackerIsARegistry` is the refinement:
  the mapping says that a handler's request is pending until its change is made,
  and from then on its reply is the one it will build. This is an implementation
  because the lock keeps the swarm unchanged between the change and the reply,
  which is where `LockedInside` enters; each action is shown to be one abstract
  step or a stutter.
- **TrackerProofs**, about TrackerWire and Bencode: the announce exchange for all ids,
  numbers, peer lists and symbols, not only the ones TLC tries. All of it is
  structural, and rests on `DataLemmas`.
  `EveryRequestArrives`: the query is the fields one after the other, each cut off by a
  separator; quoting leaves no separator or sign inside a field, so the cuts the server
  finds are those between the fields (`CutsOfQuery`), and each value is unquoted, or
  read as a number, to what it was (`UnquoteByteInverts`, `DecimalFacts`). A field of the
  URL's own is a name the server does not know, or one that then comes twice.
  `DecodedIsCanonical`: by induction on the position, from the end of the text: whatever
  list, dictionary or value is read from a place encodes to the slice it was read from.
  Numbers need that a numeral without a leading zero is `str` of the number it spells
  (`NumeralIsDecimal`), dictionaries that a set of items has one sorted listing
  (`SortedAlike`). `DamagedRepliesAreCanonical` applies it to every state.
  `DamagedReplyKeepsItsKind`: what is read where an encoded text stands is the value and
  nothing else (`IsReadAs`), for numbers and byte strings, and then for lists and
  dictionaries with one element more (`LongerListRoundTrips`, `MoreItemsRoundTrip`), so
  that every payload is read back (`UndamagedArrives`). For damage the inductive
  invariant `OneEditInv` says that the text is the original, or one edit was made and
  what is read is of the same kind. A failure of 8 symbols is far from every response,
  and a text with the first five symbols of a response is, after one change,
  insertion or removal, not the beginning of a failure.
  Assumed: `MaxEdits` is at most 1 in that last theorem, as in the run. With three
  it is false: a response whose `complete` happens to be the length of what follows
  becomes a failure with that text when its first key and the two marks around the
  number are changed. The constants are as their `ASSUME`s say: ids have one length;
  a URL's own
  parameters are none called `event`, which the tracker would take for the client's,
  their names hold no `&` or `=` and their values no `&`; the escapes are none of the
  symbols; keys are ordered as their bytes are.
- **DataLemmas** and the first half of **PieceProofs**: what the arithmetic of
  PieceLayout computes for every list of file lengths (empty files, empty lists) and
  every positive piece length. Sums and concatenations are recursive functions, and
  facts about them need induction. It is done here in
  first-order form: a set that has 0, and with each number the next, has all numbers
  (`Induction`, from the least number outside it, which the well-founded order gives);
  that the recursive definition has a value at all is proved the same way, one
  more argument at a time. Running sums grow, so every position of the content lies
  in exactly one file
  (`SumLocates`, `SumSeparates`) and one piece; a chunk is exactly the bytes of its
  file whose positions lie in the piece (`ChunkFacts`). From that:
  `ChunksLieInTheirFiles`, `PiecesPartitionTheFiles`, `LeftIsZeroForSeeds`,
  `ReaderReadsTheSlice` (`_read_virtual` against the reference) and
  `WriterInvertsReader`.
- **PieceProofs**, about PieceHashing. The inductive invariant says that the bytes read
  so far are the full pieces hashed and then the buffer, in the order of the content
  (`BufferInv`, `FullPieces`), and at the end that there is a hash for each slice
  (`Hashed`); `HashesAreOfReads` and `GeneratedLoads` follow. What holds of documents
  edited by hand, `WritesLandWhereReadsLook` and `LeftIsZeroWhenLoaded`, rests on
  `AcceptedIsLayout`: whatever `validate` accepts is a layout to which the theorems of
  the layout apply. Assumed: at least one file and a positive piece length, as
  `create_metainfo` insists, and that the markers `Odd` and `Absent` are none of the
  values a correct field has.
- **PieceProofs**, about PieceManager. `RightPiecesStay` (`NothingLost`): every action
  either leaves the files alone or extends them and adds right bytes.
  `BitsAreEarned`: the inductive part says that the writer that holds the lock has
  made right all files of its piece that it is not still to visit.
  `BitfieldIsSound` follows from the two and from `ClosedIsEmpty`: a manager that
  is not open has no bits that a change of the files could make wrong. None of these
  opens the arithmetic. `TypeCorrect` does (`ChunkIsOffsets`: nothing is written past a
  file's length), and `CompleteIsComplete` needs that every byte of every file is in
  some piece, and that `PrepareStorage` made the files no piece touches
  (`FilesExist`). `RestartFindsEverything`: while the constructor scans nobody else
  works on the storage, and the bitfield is right for the pieces before the one it is
  at, except those it could not read (`ScannedSoFar`).
- **TorrentWorkerProofs.** For any number of workers, pieces and cycles, any rotting
  disks, and all nine faults unless said otherwise. `SwarmUsesTracker`: each step is one
  of the abstract registry or leaves it alone, so its types carry over. `TypeCorrect`
  needs `CyclesLeft`, since `cycles` may not pass `MaxCycles`. `SeedersAreComplete`: every
  announce under way was true when it was sent, and what its worker had then it still
  has or has given up since (`AsksAreTruthful`). That speaks of the worker's latest
  announce; it is enough because one that the worker gave up on is followed by nothing
  but `stopped`, which makes nobody a seed (`OneAtATime`, `AsksAreLatest`). `StoppedStaysOut`: `started` is sent once and answered
  before anything else is sent, so nothing that is under way when `stopped` is served can
  register the worker again (`LifeInv`). `PeersDiscoverEachOther`: of two registered
  workers, the one that registered second was answered with the first in the list, and is
  still to read that answer or has it (`Knows`). Two theorems exclude faults, because with
  them the code does not keep the property: `FinishedAreGone` excludes lost, late,
  reset and failed announces (`AnswersArrive`; a worker gives up after such an
  announce, and the tracker may have registered it), `CompletionIsAnnounced` moreover
  evictions (`NobodyDropped`; the `completed` of an evicted worker is refused). The other
  faults (crashes, failing boots, pings and pieces) may occur.
- **PeerServerProofs.** `TypeCorrect` needs that a connection in the accept loop's
  hands is one (`HandHolds`). The inductive invariant of `StopIsClean` says who is
  registered (`WorkersAreAlive`), that the accept loop is over when the handlers are
  listed and none is forgotten but the abandoned (`StopOrder`), and that a received piece
  is counted or
  about to be (`SoonCounted`). `UnchokeLasts` needs that an unanswered connection
  has no response yet (`Entitled`). `CountIsEarned`: only a connection whose piece was
  sent whole comes to the place where it is counted.
- **ThreadPoolProofs.** `RunsExclude` (whoever is inside has set `_running`, and
  alone), `StartTogether` (an open barrier stays open, a broken one lets nobody
  through), and `RunWaitsForWorkers`, which speaks of states before the first
  Ctrl+C: one during the executor's exit breaks its wait off. It needs
  `Exclusive`, since a second caller could otherwise finish over the first's workers.
- **EventLogProofs.** `LogIsAppendOnly`: the file maps to its lines and a thread's
  unfinished call to its entry. The inductive invariant says who holds the lock and
  that the holder's `draft` is the file as it still is with the entry appended, so
  that `Replace` is one `Accept`; everything else that happens to the temporary file
  is a stutter. `TimesAreNearlyOrdered` adds that every unfinished entry and every new
  file's creation date is at most `MaxDelay` old.
- **PingServiceProofs.** `SuccessNeedsThePong`: bytes received never exceed the bytes
  sent nor those due, and a ping that decodes has all that is due; typing of the
  answers does the rest. `PingersStayInReach` assumes one stopping thread and says,
  place by place, which threads a `stop()` under way still has to see.

**Only model-checked:** the liveness properties, since the prover handles neither
fairness nor ENABLED (`SilentPeersGo`, `EveryAnnounceAnswered`, `StopIsHonoured`,
`PatientPeersComplete`, `EveryConnectionEnds`, `StopTerminates`, `RunEnds`,
`EveryCallReturns`, `PingersEnd`). Every other property of the runs in section 3 is
also a theorem: those of `TorrentWorker_live` with the faults named above excluded,
`PingersAccounted` with one stopping thread, `ReplyArrives` with one edit.

## 5. What is abstracted and what is left out

- Content: a byte is right or not. Zeros that `truncate` puts into a file count
  as not right, even where the content has a zero there; a piece whose hash matches
  by accident does not exist.
- `bitfield`, `left` and the session counters are read when they are used; the
  sums of bytes are sets of pieces and connections. At the end of a cycle
  `is_complete()` and the `left` of the announce after it are one reading of the
  bitfield; so are the steps of a boot between the server's start and the announce,
  while nobody knows the server's port.
- `accept_thread.join(3.0)` always succeeds (the loop looks at the event every
  0.2 s); the joins of handlers may time out.
- Raising loggers are modelled in TrackerState under its lock and in ThreadPool
  where a worker's logger is made; not inside workers and peer server threads.
- The public `scan_existing` is only called by the constructor, as in the code.
- `RemoteDisconnected` and other exceptions of the HTTP library are the one fault
  "reset" of TorrentWorker; a reply nested deeper than Python's recursion limit is
  not modelled.
- JSON and UTF-8 as such: a message or a document has the fields it should, or is
  malformed. Two files of which one's path is a prefix of the other's cannot both be
  stored; `validate` accepts them, and the models give each file one name.
- Sanitising of log texts is left out: it changes a text, never the number of lines.

Not modelled: `start`/`stop` of the tracker's runtime (one caller, once, at exit; its
cleanup thread is in TrackerState); HTTP endpoints other than `/announce`; the demo,
audit and packaging tools, which are sequential scripts around the other components;
command-line parsing and printing.

Limits of the code that the models show or abstract from, and that no property is
about because nothing promises otherwise: a piece of more than about 6 MiB does not
fit a frame once Base64-encoded (`peer/peer_protocol.py:10`); two torrents with the
same file stem share one storage directory (`peer/peer.py:59`); a logger that raises
right after `_running = True` leaves the pool marked as running
(`peer/torrent_worker.py:469`); `TrackerRuntime.start` may be called after `stop`,
which closed the server for good (`tracker/tracker_server.py:410`).

## 6. Plan

Done, in this order: tracker and its abstract registry with the refinement proof;
layout and piece manager; worker; peer server; thread pool; event logger with the
refinement to an append-only log; metainfo documents from generator to loader;
Bencode and the announce exchange; ping service with the framing.

Next, most important first:

1. A composition of PeerServer, PieceManager and the piece client for one transfer.
2. **TrackerRuntime**: its start/stop lifecycle with the two threads.
3. Replies with more damage: which edits the decoder and `parse_tracker_response` refuse
   for certain.
