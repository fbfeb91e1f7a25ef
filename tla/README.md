# Wolframe: TLA+ specifications

Wolframe is a modular three-tier application server written in C++: a network
server accepts plain and SSL connections, a protocol handler turns what a
client sends into commands, command handlers run them through filters and
programs, and transaction functions execute them on a SQLite, PostgreSQL or
Oracle database. This directory models the core of the server: the network
front, the wolframe protocol with its login, and the database back. TLC checks
the models and TLAPS proves their most important properties.

Paths are relative to the repository's root (`src/` is the server's source,
`include/` its public headers, `docs/`, `tests/` the rest). `PROJECT.json` maps
every definition to the lines it models.

## 1. Inventory

### Components, their state and their operations

| Component | Source | State | Operations |
|---|---|---|---|
| Network server | `src/server.cpp`, `acceptor.*`, `connection.*` | acceptors with an open or closed socket; per acceptor a list of active connections with a counter, one counter for the server; per connection a back pointer to its list | accept, restrict by address, SSL handshake, push/remove/pop with two limits, `stop()`/`handleStop()` |
| Session | `src/connectionBase.hpp`, `wolframeHandler.*` | the top state machine, operations in flight, timer, end of data marker | `nextOperation()`, handlers of read, write, timeout, signal and shutdown |
| Wolframe protocol | `src/modules/protocol/wolframe/` | line dialogue state machine, sub-protocol in charge, I/O buffers, escaping and end of data automata | commands `AUTH`, `CAPABILITIES`, `REQUEST`, `INTERFACE`, `MECH`, `QUIT`, ..., data phase |
| Content only handler | `src/contentOnlyProtocolHandler.*` | buffers of a connection without a line dialogue | read until end of content, execute, print |
| Authentication, authorization, audit | `src/provider/`, `src/modules/authentication/`, `authorization/`, `audit/` | slices of an authenticator and the one in charge, user of the session | set mechanism, exchange messages, ask the authorization units in order, audit an event |
| Object pool | `include/system/objectPool.hpp` | list of free objects, mutex, condition variable | `get()` (timed or not), `add()` |
| Transactions | `src/libwolframe_database/`, `src/modules/cmdbind/tdl/`, `src/modules/database/*` | state machine and connection of a transaction; the transaction the database has open on each connection | begin, start, bind, execute, fetch, commit, rollback, audit, destruction |
| Transaction VM | `src/libwolframe_database/vm/` | instruction pointer, iterators, value sets, call stack | instructions of the TDL compiler |
| Provider, command handlers | `src/provider/`, `src/modules/cmdbind/` | tables of programs, filters, types; pipelines | look-up, direct map and Lua command handlers |
| Configuration, module loader, logger | `src/*Config.cpp`, `src/moduleLoader.cpp`, `src/moduleDirectory.cpp`, `src/libwolframe/` | filled once at start-up | parse, check, load, print |
| Filters, serialization, DDL, data types, doctype detection, language bindings, printing, graphics | `src/libwolframe_langbind/`, `src/libwolframe_serialize/`, `src/modules/filter/`, `ddlcompiler/`, `datatype/`, `doctype/`, `prnt/`, ... | that of one conversion | parse, convert, print |
| Service start-up | `src/posixMain.cpp`, `winMain.cpp` | pid file, signals | daemonize, lock the pid file, run, reload |
| Tools | `src/wolfilter*`, `src/wolfwizard*` | none shared | sequential front ends |

### How they interact

- `server::run()` starts the threads of one `io_service`. Everything network
  related is a handler that one of these threads runs; handlers of one *strand*
  do not overlap. An acceptor has a strand, a connection has another one. They
  share the register of connections, protected by a mutex, and the
  connection's pointer to it, protected by nothing.
- `ConnectionBase` asks `wolframeConnection` for the next operation, starts it
  asynchronously and asks again when it completes. `wolframeConnection` greets,
  delegates to the protocol handler, and takes over again when a timeout, an
  error or the shutdown signal interrupts it.
- The protocol handler runs a command handler *inside* the handler of a read: a
  database transaction blocks the network thread that runs it. So several calls
  of transaction functions run concurrently, each on its own thread, and meet
  in the pool of database connections.
- A call of a transaction function begins a transaction (takes a connection),
  runs its program, runs the audit functions (which may be transaction
  functions, so that one call waits for another), commits, gives the connection
  back and passes the result through a filter. Authorization and audit units
  may use the database in the same way.

### What is hard, and what makes each part correct

- *Network server.* Two strands unregister the same connection: a close and the
  shutdown. Registrations happen after the shutdown went through the list.
  Correct means: the counters are the numbers of connections, so that the limits
  are what is enforced; a slot is never held by a connection that cannot give
  it back; the shutdown reaches every connection.
- *Session.* Three or four handlers can be queued at the same time and
  cancelling a timer does not take back one that is queued. Correct means:
  closed exactly once; never without an operation that would wake it; a refused
  client is not served; a farewell is framed so that a client in the middle of
  a transfer recognises it; nothing brings a finished session back.
- *Object pool.* Wake-ups that are spurious, lost to a thread that was not
  waiting, or consumed by a wait that times out. Correct means: no object lost
  or handed out twice, none idle beside a waiting thread, and the configured
  maximum time to acquire one.
- *Transactions.* Every step can fail, and after a failure three state
  machines (of the program, of the transaction object, of the database on that
  connection) must agree. Correct means: a call is atomic for its caller, its
  success is durable, and the connection goes back exactly once.
- *Protocol.* The network cuts commands, escapes and end markers anywhere; input
  read by one handler belongs to the next. Correct means: what one side writes
  the other reads, every line and request is answered once and in order,
  nothing is lost between two handlers, and no handler turns or waits for ever.
- *Authentication.* Three objects with a status each (authenticator, slice,
  dialogue), several dialogues of one connection, several units for one
  mechanism, accounts that change meanwhile. Correct means: a login and a
  password change are proved by a known password and by an answer to the
  present challenge, and no object is called in a state it throws in.
- *Start-up* (not modelled). `posixMain.cpp:254` tests for a running daemon and
  creates the pid file in separate steps.

`PROJECT.json` lists each of these hazards with its line and with the
properties that would catch it going wrong.

## 2. The modules

```
ConnectionLists <- NetworkServer <- NetworkServer_proofs, MCNetworkServer
Session <= Connection <- Connection_proofs, MCConnection
ObjectPool <- ObjectPool_proofs, MCObjectPool
AtomicCalls <= DatabaseTransaction <- DatabaseTransaction_proofs, MCDatabaseTransaction
InputBlock <- EscDlf <- MCEscDlf
              EscDlf <- MainProtocol <- MCMainProtocol
              EscDlf, InputBlock_proofs <- EscDlf_proofs
              MainProtocol, EscDlf_proofs <- MainProtocol_proofs
Authentication <- Authentication_proofs, MCAuthentication
      (A <- B: B extends A;   A <= B: B is shown to implement A)
```

Definitions named after another one with a suffix (`Remove_socketOnly`,
`Begin_unchecked`, ...) belong to no specification. Each is a faulty variant, a
plausible mistake in the definition beside which it stands; `PROJECT.json`
("mutants") says which property it violates when it takes that definition's place, which
is how we know that the property is about the code.

### ConnectionLists and NetworkServer

`ConnectionLists` is the register (`connection.hpp`): a set and a counter per
acceptor and the counter of the server. `push()`, `remove()` and `pop()` hold
both mutexes and are one step each. Counters are unsigned: they wrap at
`SizeRange`, which stands for 2^64.

`NetworkServer` follows every connection object from the `async_accept` that
waits with it to its `handleShutdown`. A step is a whole handler, except where
the handler shares state with another strand:

| Action | Code |
|---|---|
| `AcceptCompletes`, `AcceptFails` | the reactor |
| `HandleAccept`, `HandleAcceptDenied`, `HandleAcceptSSL` | `handleAccept` with `connection::start()` and the next `async_accept` |
| `HandleHandshake`, `HandshakeFails` | `SSLconnection::handleHandshake` |
| `PeerVanished` | the throwing `remote_endpoint()` |
| `BeginClose`, `UnregisterRemove`, `UnregisterClear`, `HandleShutdown` | `unregister()`: test `m_connList`, call `remove()`, clear the pointer; then `handleShutdown` |
| `Stop`, `HandleStop`, `StopPop`, `StopSetUnregistered`, `StopSignal` | `server::stop()`, `acceptor::handleStop()` and the three accesses of its loop |

The second read of `m_connList` in `unregister()` races with
`setUnregistered()`; it yields either value, and NULL ends the process. So does
an exception that leaves a handler, since the thread functions catch none
(`crashed`).

### Connection and Session

`Connection` is one session: `ConnectionBase` and `wolframeConnection`
together. `ready` is the bag of handlers that are queued in the strand, any of
which may run next; `reads`, `writes` and `timer` are what is in flight. Every
handler is one action that ends in `NextOperation`, as in the code: the state
the handler leaves behind is its parameter. The protocol handler is reduced to
what it asks for (READ, WRITE, CLOSE; the last of them is `waits`), to what the
client knows from its writes (`inAnswer`: it has been written ANSWER and not the
end of data) and to what `interruptDataSessionMarker()` reports (`reported`).
`AsksRead` and `AsksWrite` relate the two as far as the code does, which is what
`InterruptMatchesClient` of `MainProtocol` establishes: with a READ the report is
right; with a WRITE it is never wrong about a client outside of an answer, but may
be missing inside one.

`Session` is the abstract conversation: greeted, served, leaving, ended; its
slot is given back in the step that ends it, and only then the socket closes.

### ObjectPool

`get()` is modelled as the steps between two acquisitions of the mutex:
`TakeOrWait` (head of the outer loop), `Recheck` (a woken thread tests the list,
leaves the inner loop and *releases the mutex*), `Timeout`, `SpuriousWakeup`.
`Add` is `add()` with its `notify_one()`. Whether the pool has a timeout is
chosen in the initial state.

### DatabaseTransaction and AtomicCalls

`pc` is the position of a call in `TdlTransactionFunctionClosure::call()`, `stm`
the state of its `TransactionExecStatemachine`, `conn` the connection it holds;
`tx` and `work` are what the database has open on each connection, `committed`
what is durable. Statements are abstracted to the call that executed them.

An action is one call of the state machine with all the error handling it sets
off: `StatementFails` includes the `rollback()` that `Transaction::execute()`
attempts and that is refused in state `Error`. A failing rollback, one that is
refused, a fetch error nobody notices (`FetchFails`), exceptions that are not
`std::runtime_error` (outcome `"escaped"`) and the destructor that gives back
the connection in whatever state it is (`Close`) are all there.

What the databases do with `BEGIN`, `COMMIT`, `ROLLBACK` and failing statements
is stated by the operators in section "The database". What a failed `COMMIT` leaves
on SQLite (`AfterFailedCommit`) follows `3rdParty/sqlite3/sqlite3.c`: a commit that
is busy or violates a deferred constraint may keep the transaction, other errors roll
it back. The rest is marked external: SQLite refuses `BEGIN` inside a transaction and `COMMIT`
outside of one, and an error leaves its transaction open or rolls it back;
PostgreSQL answers `BEGIN` inside a transaction with a warning, aborts the
transaction on an error and then answers `COMMIT` with success.

Only PostgreSQL's pool has a timeout (`TimedAssumption`): that of a SQLite
database is default constructed (`SQLite.hpp:105`).

`AtomicCalls` is what a caller may expect: the statements of a call become
durable at once, before it returns, and only if it returns successfully.

### InputBlock and EscDlf

`InputBlock` holds the two automata of the protocol as operators over bytes of
four kinds (CR, LF, dot, others). `GetEoD` is `InputBlock::getEoDpos()` on one
block: it finds the end of data, removes escaping dots *in place*, so that the
bytes behind move up, and keeps an unfinished marker for the next block.
`Escape` is `EscapeSTM::process()` with an output that may be full between two
dots. `Escaped` is what both are compared with. What a loop of the code has done
after each byte is a recursive function of the position (`EoDStates`, `KeptTo`,
`EscapeTurns`, and `EscapedTo` for the reference), an operator of its own, so that
a lemma can speak of every position.

`EscDlf` is `EscDlfProtocolHandler`. A turn of the loop of `nextOperation()` is
an action, `op` is what the loop has returned.

| Action | Code |
|---|---|
| `Receive`, `PutInput`, `Consume` | `getInputBlock()`, the read, `putInput()`, `consumeInput()` |
| `Send` | `getOutput()` and the write |
| `NoCommandHandler`, `HandlerReads`, `HandlerWrites`, `HandlerCloses` | states `StartProcessing`, `Processing`, by what the command handler returns |
| `FlushOutput`, `Discard`, `Close` | states `FlushingOutput`, `DiscardInput`, `Terminated` |

The command handler is any: it reads, writes, closes and throws at will. `Chars`
is the set of bytes; `Exchanges` are the requests, answers and what follows a
request, any sequences of bytes.

### MainProtocol

`LineProtocolHandler::nextOperation()`, a turn per action, with the commands of
`MainProtocolHandler` (`Commands`, `Outcome`) and the way of a `REQUEST` through
three handlers: the document type filter, which buffers (`dbuf`); the data
handler while the buffered data is redirected to it; the data handler as the
delegate. `caller` says who calls the data handler. Input lies in up to three
places at once: `inp` (between `m_itr` and `m_end`), `dbuf`, and the data
handler's block.

| Action | Code |
|---|---|
| `LineReceives`, `LineSends`, `DelegateReceives`, `DelegateSends` | `putInput()`, `getOutput()`, without and with a delegate |
| `InitCommand`, `EnterCommand`, `ParseArgs`, `ParseArgsEOL`, `ProtocolError`, `ProcessOutput` | the states of the same names |
| `DoctypeReads`, `DoctypeServed`, `DoctypeRefused` | the filter and `endDoctypeDetection()` |
| `PrefetchCloses` | the first operation of the command handler, fetched by `endDoctypeDetection()` without input and output block, was WRITE |
| `Redirect`, `RedirectWrites`, `RedirectReads`, `RedirectCloses` | `redirectInput()` |
| `HandlerTurn`, `DelegateCloses` | `nextOperation()` of the data handler, `endRequest()`, `endErrDocumentType()` |

A word of a line is one token; `Tags` are the words that `REQUEST` takes for a tag.
A client is a script, a sequence of messages: a
line, with the request and the answer to it (`job`) when it is one. It sends
on when its requests are answered, any number of messages but one request at the
most (`ClientSends`), so that what is behind a request may be read in one block
with it. `served` records how each request was answered, by number of its message:
how much of the answer the command handler has given, whether output of it was
given to nobody (`lost`), and the status.
`Proper` says which messages a script may have: lines that end in LF or CR LF, a
stray CR only inside the arguments of a known command, data behind the lines that
are executed as requests and behind no other, and no line that starts with a dot
(see section 5 for what is left out). `ScriptsAssumption` states it, and TLC
evaluates it for the scripts of the run.

What is replied is compared with definitions that know nothing of blocks, buffers
and handlers: `Standing` is how the protocol stands after i whole messages,
`ReplyTo` the reply that is due to one. The code departs from it in two places, and
the definitions name both: `ReplyPrinted` (and `RepliesTo`, which puts these
together) has nothing for a line skipped behind one that starts with a space, and
`lost` marks an answer without the output of its handler. `EverythingAnswered` is
stated with `RepliesTo`. The last section of the module states that the departures do
not occur (`EveryLineAnswered`, `AnswersComplete`), and that the interrupt marker is
there in every state (`InterruptFramed`): no run lists them, because the code does not
satisfy them (section 5).

### Authentication

The commands `AUTH`, `MECH`, `PASSWD` and `QUIT`, the two delegates,
`StandardAuthenticator` (`SetMech`, and `Settle` for the common end of
`messageIn()` and `messageOut()`), the slices of the text file, PAM, SASL and
database units, and `TextFilePwdChanger`. A message is one unit. A response is
the pair of a challenge and a password; the client can compute those of the
passwords it knows (`Known`) and has seen every response to an earlier
challenge. The accounts change at any time; `seen` are those of the present
dialogue.

| Action | Code |
|---|---|
| `DoAuth`, `DoMechNone`, `DoMechDenied`, `DoMech`, `DoQuit` | `doAuth()`, `doMech()` with `setMech()`, `doQuit()` |
| `DoPasswd`, `DoPasswdDenied`, `DoPasswdThrows` | `doPasswordChange()`, `passwordChanger()`, the changer's constructor |
| `AuthWrites`, `AuthReads` | `AuthProtocolHandler::nextOperation()` |
| `MechFailed`, `EndMech` | `endMech()` |
| `PasswdWrites`, `PasswdReads`, `EndPasswd` | `PasswordChangeProtocolHandler`, `endPasswordChange()` |

## 3. What TLC checks

| Run | Instance | Shows |
|---|---|---|
| `server_safety` | 2 acceptors, 3 plain and 2 SSL connections, limits 2 (plain) and 3 (server), symmetry; 1.8 million states | counters exact, limits kept, no slot leaked, no connection detached silently, all up to the one race named below |
| `server_liveness` | 2 plain and 1 SSL connection | what is registered while the acceptor stops is told or leaves by itself, and gets closed if its peer takes the farewell; the peer of one connection does not (`Deaf`) |
| `server_assert` | same | *fails*: the assertions `m_connCount == m_connList.size()` |
| `server_late` | same | *fails*: "at this point no more connections are accepted" |
| `connection` | no constants | closed once, never quiet, operations bounded, refused clients not served, farewells framed, no revival, signalled and silent sessions end, implements `Session` |
| `pool` | 4 threads, 2 objects, with and without timeout | conservation, no lost wake-up, no object idle for ever beside a waiting thread |
| `db_sqlite` | 3 calls, 2 SQLite connections, 2 statements each, nested audits; 722,000 states | implements `AtomicCalls`; a connection goes back inside a transaction only on the named paths |
| `db_postgresql` | 3 calls, 1 PostgreSQL connection, 2 statements each, nested audits, result filters, acquire timeout; 195,000 states | the connection is conserved, success durable, every call returns |
| `db_atomic` | 2 calls, 1 PostgreSQL connection | *fails*: see findings |
| `data_phase` | every request of up to 4 bytes and every answer of up to 3, input buffer 6, output buffer 2; 735,000 states | the command handler reads the request and the client the answer as they were written; what follows the request is left whole; every step leaves less to do |
| `dialogue` | 4 clients, input buffer 9, output buffer 2; 253,000 states | every line and request is answered once and in order, but for skipped lines and lost output; while the server waits for input the interrupt marker goes to exactly the clients inside an answer, while it writes to no other; the dialogue ends |
| `authentication` | 7 lists of units, 2 names, 2 passwords of which the client knows one, 2 dialogues, 1 change of an account; 244,000 states | logins and changes are proved, authenticator and slice agree, users are where they belong, a lone unit refuses no name before its challenge is answered, dialogues end |

**Bounds.** `Conns` and `MaxStm` bound what is unbounded in the code: the
connections a server accepts and the statements of a program. The rest of the
constants are sizes of sets. They are chosen so that the cases that matter
happen: more connections than either limit admits, on two acceptors that
compete for the server's limit; `SizeRange` above the number of connections
and small enough that a counter decremented too often wraps; more threads than
objects and two objects, so that a second `add()` meets a thread that is woken
but has not arrived; more calls than connections, so that a connection is
reused after a failure and an audit waits for a connection its caller's peers
hold. Two statements are the least for which a later statement can
fail after an earlier one has changed the database. `Connection` needs no
bounds. `InSize` and `OutSize` are the buffers of the protocol: an input buffer
of 6 holds an unfinished marker (4 bytes) and little more, so that markers,
escapes and data are cut in every place; in an output buffer of 2 an escaped dot
is cut between its dots. Requests of 4 bytes (`MaxRequest`) hold every
pair of an escaped line and a false start of a marker, answers of 3
(`MaxAnswer`) a line feed, a dot and another. The scripts of `dialogue` have a
request with a line behind it, one after the other, empty, and ending like a
marker, a line for every error and commands behind a QUIT. `MaxDialogues` 2 is the least for an answer to be
repeated in a later dialogue, `MaxChanges` 1 for an account to change under one.
The theorems of section 4 hold without any of these bounds.

**Fairness**, and why the code justifies it:

- `NetworkServer`: `io_service` threads run every queued handler, and a
  signalled connection closes, which `SignalCloses` of module `Connection`
  establishes if its farewell is taken: no write in the code has a timeout
  (`wolframeHandler.cpp:310`), so a peer that stops reading keeps its connection
  open. `Deaf` are the connections with such peers; no fairness is assumed of
  them, and the others are told to stop all the same. Peers need not connect,
  finish a handshake or leave.
- `Connection`: queued handlers run and the timer expires; a read completes by
  necessity only when the socket is closed. That a write in flight completes or
  fails is an assumption about the network (no write in the code has a timeout).
- `ObjectPool`: threads run, deadlines pass, and a thread that holds an object
  gives it back (the shared pointer's deleter does).
- `DatabaseTransaction`: a call runs on its own thread and the database
  answers. Since every call is made once, a timed `get()` cannot be starved for
  ever here (see the observations in section 5); so the timeout in
  `db_postgresql` is one that strikes.
- `MainProtocol` (for `DialogueEnds`): the connection calls `nextOperation()` after every operation,
  the network delivers what was sent, and the client sends what it has to send.
- `Authentication`: the same for the steps of a dialogue, so a client that is
  asked answers; commands and changes of accounts are not assumed to happen.
- `EscDlf` assumes none: `PhaseEnds` is a measure that every step decreases.

Deadlock is checked in every run but `db_sqlite`, where calls may wait for each other
for ever (section 5): elsewhere the only states without a further step are
those in which the server has stopped, the session is destroyed, every call
has returned, or a protocol handler has closed or has no more input to come
(`Terminated`, `Destroyed`, `Closed`, `Finished`).

## 4. What TLAPS proves

Eight modules, for every set of acceptors, connections, threads, objects, calls,
units and accounts, for every limit, and for every script, request, answer and size
of the protocol's buffers. The only assumptions are the named ASSUMEs on the
constants (finite sets, null values that are none of the objects, fewer
connections than `std::size_t` has values, three bytes that differ, an input
buffer with room behind an unfinished marker, scripts of proper messages, an
`ANSWER` that is no byte of the data) and, for transactions, the behaviour
of the databases stated in section "The database".

- **`NetworkServer_proofs`**: `TypeOK`, `CountsExact`, `LimitsRespected`,
  `ListedIsLive`, `NoSilentDetach`. None is inductive alone: that a counter is
  exact after `pop()` needs that a connection is in one list at most, which
  follows from `ListedIsLive`; that in turn needs that a connection not yet
  started is in no list and in nobody's hands. The inductive invariant `IInv`
  adds to the five properties `LifeOK` (a connection is inside `unregister()`
  exactly while it closes, and one not started still has its pointer) and
  `PoppedOK` (what `handleStop()` holds was started and is in no list). Lemmas
  on `Push` and `Pop` carry the cardinality arguments, `Inc` and `Dec` the
  arithmetic modulo `SizeRange`.
- **`Connection_proofs`**: all six invariants, `NoRevival` and the refinement of
  `Session`. The argument is a count: every call of `nextOperation()` uses up
  one handler and starts at most one operation, so the *tokens* (operations in
  flight and handlers queued) of an unfinished session stay at least one, and
  those that can lead to a read stay at most one. `IInv` is the type invariant,
  `StateSettled` (transient states are not seen between handlers),
  `ClosedExactlyOnce`, `TokensOK`, `TimerOK` and `FarewellOK`, which has
  in it what the protocol handler reports until it is interrupted (`ReportOK`).
- **`ObjectPool_proofs`**: `TypeOK`, `Conservation`, `NoLostWakeup`. The last is
  inductive together with `TypeOK`: each step changes the number of free
  objects and of threads on their way by at most one, in step.
- **`DatabaseTransaction_proofs`**: `TypeOK`, `ConnectionsConserved`,
  `SuccessIsDurable` and the action property `ReturnedClean` for both databases;
  `ImplementsAtomicCalls` for SQLite
  without result filters. The first four rest on `IInv`: `PhaseOK` ties the
  position of a call to its state machine and to holding a connection (and says
  in which states a call leaves its scope, which is what `ReturnedClean` needs:
  the other two ways back to the pool have ended the transaction), `OpenOK`
  says that a state machine inside its transaction has an open one on the
  server with everything the call executed. Only the call that steps and its
  connection change (`Frame`), so each action is treated for that call alone.
  The refinement needs more (`SInv`): on SQLite a connection works for at most
  its own call, because a transaction left open refuses the next `BEGIN`.
- **`Authentication_proofs`**: `TypeOK`, `StatusFollowsSlice`, `UsersInPlace`,
  `ChangeProved`, `LoginProved` and `NamesNotTold`. That a login is proved is
  decided when the response comes but rests on what happened before: `SliceOK`
  says that a slice with a real user holds an account of its own unit seen in
  this dialogue, and that a challenge that was sent is that of this dialogue,
  which no earlier response fits (`ResponseKnown`). `AuthOK` adds that the
  status is the slice's and that a lone unit was told so (`LastOK`), `UserOK`
  that a user waiting in the authenticator is proved, `ChangerOK` the like for
  password changes. `SettleInv` treats the end of `messageIn()` and
  `messageOut()` once for all slices; `NameOK` and `ResponseOK` say what a slice
  may become.

- **`InputBlock_proofs`**: what the automata compute, for every input. The
  library's induction theorems have an operator as a parameter, which the provers
  cannot instantiate; `Smallest` (every set of naturals has a least member)
  follows from `WFMin`, and `Induction` and `Recursion` from it, stated over
  *sets* of positions, so that every recursive function of `InputBlock` can be
  shown to satisfy its recursion and be reasoned about position by position.
  On top of them:
  - `StreamData`, `StreamMarker`: over the stream `Escaped(data) \o Marker \o rest`
    the automaton finds the data, byte for byte, and reaches the end state at the
    end of the marker and nowhere before.
  - `BlockStates`, `BlockFound`: started anew at a position where it is in its
    initial state, or where a candidate for a marker starts (`Sync`), it goes
    through the same states and finds the same bytes as over the whole stream.
  - `LastBlock` and `MiddleBlock`, about `GetEoD`: a block with the end of the
    marker yields the rest of the data and leaves what is behind it; any other
    yields some more of it and keeps at most four bytes, from a position of `Sync`
    on. The arithmetic is in `DataEndIs` (the removed dots before the end of data
    are counted, the one of the marker is not), `Candidate` and `TailIs`.
  - `EscapeIs`, about `Escape`: whatever the room in the output, the printer goes
    on from where it was in the escaped data, possibly between the two dots of an
    escape (`AtByte`, `Printed`), and prints something if there is something.
- **`EscDlf_proofs`**: `RequestExact`, `AnswerExact`, `LeftExact`, `PhaseEnds`, and
  that the measure of `PhaseEnds` is a natural number (`RemainingIsBounded`), so
  that every data phase ends. None of the three invariants is inductive: they say
  nothing about the bytes inside the handler. `PhaseInv` adds `NetInv` (what is not
  read is a tail of the stream), `OpInv` (what an operation tells about the
  state), `InputInv` (the input block continues the reading of the stream at a
  position of `Sync` up to which exactly `taken` was found, or, when the input is
  discarded, at any; once the end of data was seen, the data left and the unread
  bytes are the rest) and `OutputInv` (the bytes on the wire and pending are what
  a printer at some byte of the answer has printed, then the marker). There is one
  lemma per action. `PhaseInv` has three parameters: the operation the caller was
  told, the bytes printed so far and the bytes not read yet. In `EscDlf` these are
  `op`, `wire` and `net`; in `MainProtocol` the handler's output goes to the result
  or to the wire behind `ANSWER`, and its input comes from the filter's buffer first.
  `HandlerWritesInv` shows on the way that the branch of
  `HandlerWrites` for an output without a byte cannot be taken when there is an
  output buffer; it can in `MainProtocol`, where there may be none.
- **`MainProtocol_proofs`**: `EverythingAnswered`, `RequestReadExactly` and
  `InterruptMatchesClient`, for every script. They speak of the moments when the
  server waits for input or closes, or of the bytes inside the data handler; what
  makes them true is what lies in the buffers in between. `DialogueInv` is
  `MainType`, `Control` (what is returned to whom, and who calls whom, in which
  state: an output is pending only when WRITE was returned, a line handler that
  reads a line has used up its block, ...) and the existence of a number i of
  messages that are dealt with, such that `Progress(i)` (the requests among them
  are those answered, and one more is sent at the most) and `Mode(i)`. `Mode` has a
  predicate per state of the line handler and caller of the data handler; each
  says which tail of the script is spread over `inp`, `dbuf`, the data handler's
  block and `net`, and that what is on the wire, in the output and in the result is
  what is printed for i messages, then `ANSWER` and what the data handler has printed.
  The first operation of a command handler has a predicate of its own
  (`Prefetching`): the data handler waits for the buffered data, or it has closed and
  its output is lost, and then the handler that replaces it starts from nothing.
  TLC has checked `DialogueInv` on the instance of `dialogue`, with the quantifiers
  over `Nat` and `Seq(Chars)` bounded by the lengths of the line and of the output.
  There is one lemma per action. They rest on four groups of lemmas:
  - on lines: a scan for the end of a word or of a line that is resumed in the next
    block finds what one scan of the whole line finds (`Span`, `ConsumeEOL`), and
    the words of two parts cut anywhere are the words of the line (`WordsTo`);
  - on scripts: the bytes behind i messages are the line of the next one, its data
    and the bytes behind it (`BytesTo`);
  - on replies: `RepliesTo` satisfies its recursion, does not depend on requests
    beyond i, and grows by the reply to one message when `served` grows by it;
  - on the wire, for `InterruptMatchesClient`: the printed part of an escaped
    answer contains no end of data, the marker does; for the writes, the part that is
    under way is counted with the wire.

  While a request is served the proof is that of `EscDlf_proofs`, through
  `PhaseInv`: the lemmas of its actions are used as they are.

Only model-checked: liveness under fairness (`StopReachesAll`, `SignalCloses`,
`SilentPeerDropped`, `ObjectNotIdle`, `EveryCallReturns`, `DialogueEnds`), which
needs ENABLED, out of the prover's reach.

## 5. Findings

| Run | What the code does, and what it says |
|---|---|
| `server_assert` | `SocketConnectionList::remove()` decrements both counters also when the connection is no longer in the list, because `handleStop()` popped it after `unregister()` looked at the pointer. The assertions at `connection.hpp:163, 180, 199` fail, and without them the counters stay too low. |
| `server_late` | An SSL handshake that completes after `handleStop()` went through the list registers a connection that is never signalled (`acceptor.cpp:151`). Shutdown waits for its peer. |
| `db_atomic` | After a client-side error (a parameter that cannot be bound or parsed) `rollback()` is refused and the PostgreSQL connection goes back inside its transaction; the next call's `COMMIT` makes the statements of the failed call durable. |

Observations that no violation run states. The first four are departures from what
the code's own comments and documents say, found by TLC: the invariants named are
violated when they are added to `MainProtocol.cfg`, and so is `EveryCallReturns` under
`FairSpec` on SQLite.

- A command handler whose first operation is WRITE loses its output, because
  `endDoctypeDetection()` fetches that operation without an output block and takes the
  CLOSE that follows for the end of the command (`mainProtocolHandler.cpp:453`): the
  client reads an empty answer and OK (`AnswersComplete`). Lua command handlers that
  print before they read do so under the filters whose `getMetaData()` does not wait
  for input (char, line, blob, token).
- The command line after one that starts with a space is skipped
  (`lineProtocolHandler.cpp:346`): the complaint is made when the end of the line is
  already consumed, and state `ProtocolError`, in which "the rest of the line has to be
  discarded" (`lineProtocolHandler.hpp:187`), consumes another (`EveryLineAnswered`).
- While ANSWER and the first part of an answer are printed (state `ProcessOutput`)
  `interruptDataSessionMarker()` is empty, so that a BYE lands inside the answer
  (`InterruptFramed`), although it is "the termination marker to send for an abort of
  a running data session" (`protocolHandler.hpp:143`).
- The pool of a SQLite database has no timeout (`SQLite.hpp:105`, `objectPool.hpp:62`):
  as many calls as there are connections, each in an audit step that calls a
  transaction function, wait for ever, although transactions, auditing included,
  "return an object or an error" (`docs/AppDevelopment/Glossary.xml:50`).
- A timed `get()` (`objectPool.hpp:86`) computes a new deadline each time another
  thread takes the object it was woken for, so that it may wait longer than the
  configured maximum, without bound.
- A result filter runs after `COMMIT` (`tdlTransactionFunction.cpp:494`): when it
  fails, the call fails and is committed. `SuccessIsDurable` is what remains.
- An audit function that throws anything but a `std::runtime_error`
  (`tdlTransactionFunction.cpp:478`) leaves the transaction open.
- On SQLite a connection that is returned inside its transaction refuses `BEGIN`
  from then on, so atomicity is preserved at the price of the connection.
- In a refused line a carriage return that is not followed by a line feed makes
  `ProtocolError` drop the rest of the block (`lineProtocolHandler.cpp:405`).
- A second `REQUEST` read in one block with the end of the first: a data handler
  that has terminated inside `redirectInput()` becomes the delegate and is given
  the bytes of the next command. The clients of the model have one request in flight.
- For the same reason a line that starts with a dot, sent behind another line
  behind a request, may lose the dot: the terminated data handler unescapes the block
  it is given in place (`lineProtocolHandler.cpp:225`). `Proper` excludes such lines.
- No write has a timeout (`connectionBase.hpp:160`): a peer that does not read the
  farewell keeps its connection, and the shutdown, waiting.
- The salt in the challenge for an unknown name is a new one in every dialogue, that
  of a user is constant (`TextFileAuth.cpp:277`). `NamesNotTold` is only about when
  a client is refused.
- The PAM and the SASL unit return a slice for every mechanism, although
  `authUnit.hpp:74` says "An AuthenticatorSlice for the required mech (or NULL)":
  listed first they take the dialogues of the text file unit.
- A user known only to the second unit of a mechanism is refused
  (`Authentication.cpp:303`, with the comment "This has to be changed").
- `MECH NONE` after a second `AUTH` leaves the first user in place.
- Nothing stores the new password: `TextFilePwdChanger::password()` has no caller,
  and `endPasswordChange()` prints "OK password changed".

## 6. Not modelled

- The filters, serialization, DDL compilers, printing, graphics and language
  bindings: sequential conversions, mostly around third party libraries.
- Configuration, module loading, provider tables: run once, before any thread.
- Logging: no behaviour depends on it.
- Password hashes and challenge-response: cryptographic functions; module
  `Authentication` represents them by who can compute a response.
- Of the protocol: `INTERFACE` (a sub-protocol with one command), abbreviated
  commands, the tag repeated in the line `ANSWER &tag`, the cutting of the
  authentication's messages (`baseCryptoProtocolHandler.cpp`, the same `InputBlock`),
  and exceptions of commands, which close the connection
  (`lineProtocolHandler.cpp:257, 366`).
- Of the session: `abort()` on an operation without a buffer
  (`connectionBase.hpp:131, 152`), exceptions of the protocol handler, and how the
  bytes of a reply and a farewell that are written at the same time are mixed.
- Of authentication: a `PAM_USER` that PAM reports different from the login
  (`PAMAuth.cpp:404`) or empty, which alone leads to the branch "AUTHENTICATED but
  user is not available" (`Authentication.cpp:287, 359`). 'ERR AUTH denied'
  (`mainProtocolHandler.cpp:150`) is not reachable, since
  `AuthenticationFactory::authenticator()` always makes an authenticator.
- `escapeStringDLF()`, which leaves a dot after two line feeds as it is, unlike
  `EscapeSTM`: only base64 messages go through it.
- The content only handler, and authorization and audit units.
- Oracle: its state machine has the shape of the other two, but what OCI does
  with a failing statement cannot be told from the repository.
- The buffer of the farewell (`wolframeHandler.cpp:301`: a pointer into a
  temporary string) and the loss of the answer to a `COMMIT`: listed as hazards
  without a property. The first is about memory, below this abstraction; for the
  second the repository defines no behaviour that could be right.

## 7. Plan

Done: the network server, the session, the pool, the transactions, the data
phase, the dialogue, authentication. Left, in this order:

1. `Authorization`: the units in their order and the default when none decides;
   the audit units, required or not, and what a failing one does to a command.
2. `Server`: `NetworkServer` and several `Connection`s composed, replacing the
   assumption that a signalled connection whose peer reads closes; `MainProtocol` shown to
   implement the three answers that `Connection` assumes of a protocol handler.
3. `TransactionVM`: loops, iterators and subroutines of `programInstance.cpp`.
4. `PidFile`: two daemons starting at the same time.
5. The content only handler; `BaseCryptoProtocolHandler` on `InputBlock`.
6. Packed decimal numbers and calendar dates as operators against reference
   definitions.

Every invariant, action property and refinement that a run checks is proved. The
theorems to follow are those of the modules above; for `Server`, `DialogueInv` is
what the refinement of the protocol handler's three answers would rest on.
