# FlashPoint: a verification project

FlashPoint is a GraphQL gateway written in C++: an HTTP server on libuv that
terminates TLS, parses the HTTP request, parses the GraphQL document in its body
against a schema and forwards the selected fields to backends. This directory
holds TLA+ models of its own logic, TLC configurations that check them on small
instances, and proofs, checked by TLAPS, of what matters most for every instance.

Paths in this file are those of `PROJECT.json` (`src/src/...` is the directory
`src/` of the repository). `PROJECT.json` gives for every definition the lines it
models, for every property the hazard it is there for, and for every property a
variant of the code that breaks it.

## 1. Inventory

| Component | Files | State | Operations |
|---|---|---|---|
| Memory pool | `lib/memory_pool.*` | stack of free blocks; per ticket its current block and offset | `TakeTicket`, `Allocate`, `ReturnTicket`, `AllocateBlock`, `Reset` |
| HTTP server | `program/http_server.*` | the loop's handles; one `GatewayClient` (socket, TLS session, collected fields); a `ClientRequest` per forward; timer | `OnNewConnection`, `on_read`, `OnResolvedIpv4`, `OnClientConnect`, `OnForwardRequestRead`, `OnInterval`, the signals, `Close` |
| HTTP scanner and parser | `program/http_scanner.*`, `http_parser.*` | position, start of the token, stack of saved cursors; request line, headers, body | `Parse` and the scan functions below it |
| HTTP writer | `program/http_response.*` | a buffer and the position in it, per writer | `Write`, `WriteLine`, `WriteRequest`, `FlushBuffer`, `End` |
| GraphQL scanner | `program/graphql/graphql_scanner.*` | cursor, saved cursors, list of line beginnings | `take_next_token`, `try_scan`, `peek`, `skip_to`, `skip_block`, `search_for_line` |
| GraphQL parser base | `program/graphql/graphql_parser*.h` | diagnostics | `scan_expected`, `scan_optional`, `CreateSyntax`, `get_type_name` |
| GraphQL executor | `program/graphql/graphql_executor.*` | stack of enclosing types, fragments, spreads to be checked, duplicates, the schema's types | `Execute` and the parse functions |
| GraphQL schema | `program/graphql/graphql_schema.*` | `Type` nodes, declarations and symbols, directives and their definitions, root types, duplicates | the constructor: the parse functions, `set_root_types`, `check_forward_references`, `check_directive_references`, `check_object_implementations`, `check_union_members` |
| Others | diagnostics, syntax nodes, command line, TCP clients, test runner, glob | see `PROJECT.json` | |

How they interact. One thread runs the loop; every function above runs inside one
of its callbacks, to its end. `on_read` feeds bytes to OpenSSL, and a decrypted
request goes through `HttpParser::Parse`, takes a ticket of the pool, has a
schema and an executor made for it (both allocate their syntax nodes with the
ticket) and ends in one `ClientRequest` per selected field. Each of these passes
through three more callbacks (resolve, connect, read); in the second one an
`HttpWriter` per field writes to the backend's socket. Concurrency is therefore
the interleaving of callbacks of several connections over shared state: the one
`GatewayClient`, the pool and libuv's write queues.

What is hard, and what makes each component correct:

* Pool: blocks move between the stack, tickets and nowhere. *Correct*: every
  block is in one place, memory of live requests never overlaps, addresses are
  aligned, and it is an arena to its users.
* HTTP server: connections share one client object, TCP cuts and glues records,
  callbacks of one request run among those of others. *Correct*: what clients send is
  parsed once, in order, for the right socket; forwards complete; the server
  stops with its parent; clients are answered.
* HTTP parser: it reads behind the text and steps over its end, and gives
  characters back. *Correct*: no value contains what was not received, the values
  are those the text has, well-formed requests are accepted, it ends.
* HTTP writer: libuv reads the buffer later. *Correct*: what arrives is what was
  written, in order, and all of it.
* GraphQL scanner: look-ahead does not undo the line list. *Correct*: the binary
  search in it succeeds and gives the right place.
* GraphQL executor: the type stack is not unwound after errors; the schema is
  modified while a list is read. *Correct*: fields are looked up in the type they
  belong to, the schema is restored, what fits the schema is accepted, what is
  accepted fits, and parsing ends.
* GraphQL schema: definitions that fail half way stay among the symbols, what
  follows them is skipped, types are used before they are defined, checks modify
  the nodes that later checks read, and recursion runs through input types and
  directives. *Correct*: what is accepted is closed, a directive that leads back to
  itself is reported, values are accepted exactly when they fit, and the
  constructor ends.

## 2. Modules

| Module | Models | Used by |
|---|---|---|
| `Arena` | abstract: sessions obtain disjoint regions until they end | refined by `MemoryPool` |
| `MemoryPool` | the pool, in bytes | `MCMemoryPool`, `MemoryPoolProofs` |
| `HttpServer` | the event loop | `MCHttpServer`, `HttpServerProofs` |
| `HttpParser` | request parser and scanner, a character per step | `MCHttpParser`, `HttpParserProofs` |
| `HttpWriter` | writers on one socket, with libuv's write queue | `MCHttpWriter`, `HttpWriterProofs` |
| `GraphQlScanner` | the scanner under an arbitrary parser, a character per step | `MCGraphQlScanner`, `GraphQlScannerProofs` |
| `GraphQlParser` | tokens, calls and diagnostics of the parsers | extended by `GraphQlValues`, `GraphQlSchemaParser`, `GraphQlParserProofs` |
| `GraphQlValues` | arguments, values, directives, variables | extended by `GraphQlExecutor` |
| `GraphQlExecutor` | `Execute`: operations, fragments, selection sets | `MCGraphQlExecutor`, `GraphQlExecutorProofs` |
| `GraphQlSchemaParser` | how a schema is read: definitions, fields, types, directives, values | extended by `GraphQlSchema` |
| `GraphQlSchema` | the constructor: reading, then the checks at the end | `MCGraphQlSchema`, `GraphQlSchemaProofs` |

**MemoryPool.** `free_blocks` is the `std::stack`, `tickets` the fields of the
`MemoryPoolTicket`s, and `TakeTicket`, `Allocate` and `ReturnTicket` are the
actions. Sizes, alignment and padding are in bytes, computed as in `Allocate`:
whether padding is needed from the offset, how much from the address, and the
address returned is the one before the padding. `spans` and `forgotten` are
history. `top()` of the empty stack is undefined, so it leads to a final state.

**HttpServer.** One action per callback. A client's output is a stream of records
of two units (its hello, its finished flight, the records of its requests); a read
callback gets any number of units up to `MaxChunk`, so records are cut and glued.
`on_read` calls `SSL_read` once, with a buffer of 10240 bytes (`ReadBuffer`), and a
record carries up to 16384 (`RecordSize`): a record holds one or two *loads*
(`Loads`), a call returns one, and the rest waits in the session (`ssl.pending`) for
the next callback. The server does not join what it reads: every load goes to
`ParseRequest` as a request of its own, be it a whole one, the first half of a long
one or the second of one that its client cut into two records. What `ParseRequest`
makes of a load is any of `Documents`: how it ends and which fields it selects.
`parsed` is history. A session that has taken nothing accepts the hello of whichever
connection speaks first, and `FlushWriteBio` writes the answer to the socket of the
newest connection (`Answer`): a client without an answer does not go on.
`OnResolvedIpv4` may return early, or `uv_tcp_connect` may refuse, and then the
forward has no callback to come (`"abandoned"`). OpenSSL, libuv, clients and backends
are external. Of OpenSSL is assumed: `SSL_read` returns bytes of one record at most
and what is left of a record before it looks at the input; once the hello was taken,
bytes of another connection fail the session, and it stays failed. Of libuv: closing
a handle twice aborts, `uv_loop_close` refuses while a handle is open. Alerts, the
orderly end of a session, its renegotiation and a hello of several records are left
out.

**HttpParser.** Characters are classes; `current_char` behind the text is any
character, since the buffer is not terminated. Values are spans of the text, which
is what `get_token_value` copies. `atoll` and the narrowing to `unsigned int` are
modelled (`% (UIntMax + 1)`). An exception ends the parse.

**HttpWriter.** A byte is its writer and its place in what the writer was given,
and the text of a call of `Write` is where it ends there (`requests`, `Begin`,
`TextLength`). `uv_write` queues a pointer, so `PollOut` reads the buffer as it is
then. What the backend should receive is said byte by byte (`Follows`).

**GraphQlScanner.** The parser above it makes any call in any order, except
`scan_directive_location`, which only directive definitions of a schema use. It notes
line breaks too, but takes names out of comments and strings; what is said of the line
list is not said of sources with directive definitions (what the function returns is
`LocationAt` of `GraphQlSchemaParser`). A call that
looks ahead saves the cursor and reverts; `position_to_line_list` keeps what was
appended. `search_for_line` is the recursion of the code, a step per call.

**GraphQlParser, GraphQlValues, GraphQlExecutor.** A document is a sequence of
tokens; `TokenAt`, `After`, `Optional`, `SkipTo` and `SkipBlock` are what
`take_next_token`, `try_scan`, `skip_to` and `skip_block` do to the position. The
functions call one another, so `frames` is the call stack: the function, where it
goes on and its variables; those of a selection set include the type it selects
from and the height of `current_object_types` when it was called (which the code
does not keep: they are history). A diagnostic is its message. `list_types`
holds the `Type` nodes with `is_list_type`, which `parse_value` switches off and
on. The fragment spreads are checked one per step at the end of the document. The
schema is a constant that defines every type it names (`SchemaComplete`). Where the code follows a
pointer that is null or of another type (`fields` of a union, the name of a scalar
type), the outcome is `"undefined"` and nothing is claimed from there on. `flaws` is
history: what is wrong in the document, seen from the schema and the nesting of
the braces alone.

**GraphQlSchemaParser, GraphQlSchema.** The functions of the constructor are
frames of the same call stack. `types` and `declarations` are the `Type` nodes and
the declarations in the order they are made; they point to one another by their
places, and 0 is the null pointer. The maps of the code follow from them: `symbols`
has the first declaration of a name, `forward_type_references` the types with a
name. A declaration is there from its name on, as in the code, and `complete` only
behind its closing brace, so a definition that fails half way stays with a null
pointer for its fields. Four functions that differ only in the kind of definition
(`parse_object`, `parse_interface_definition`, `parse_input_object`, `parse_enum`)
share their actions. The loops of the checks are walked an element per step, those
over a map in the order of its keys (`Ordered`, `Foremost`), and what is left to do is
in the variables of the function. Besides
`"done"`, the outcome is `"undefined"` where a null pointer is followed, `"thrown"`
where `get_value_string` throws because it cannot print a value, and `"overflow"`
where `check_recursive_directives` has more than `MaxDepth` calls open. The checks
change the `Type` nodes as the code does: `check_forward_references` marks enums one
by one, `check_value` switches the list flags off and on. The constructor of `Type`
sets neither `is_list_type` nor `is_non_null_list` nor `name`, and the pool does not
clear its memory: what the parser leaves unset is assumed to be false or null.

## 3. Runs

Passing runs:

| Run | Instance | Shows |
|---|---|---|
| `pool` | 2 tickets, 3 blocks of 8 bytes, requests of mixed size and alignment | `BlocksAccountedFor`, `SpansBelowOffset`, `Isolation`; `AllocationsAligned`: in a block where one alignment is asked for, as `new_operator` does, every address is aligned, although it is taken before the padding; and that the pool implements `Arena` (`ImplementsArena`) |
| `gateway` | 2 connections, 1 record of one or two loads each, every way to parse a load, reads of up to 3 units | `RequestsKeepTheirSender`, `SoleClientKeepsSession`, `OneRequestPerForward`, `PoolLastsForItsBlocks` |
| `gateway_stream` | 1 connection, up to 2 records of one or two loads, reads that cut records and glue up to three | `ParsedInOrder`, load by load; `NothingStranded` as long as no read glued two records and none is longer than `read_buffer` (`SSL_read` is called once per read); and that forwards end (`ForwardsComplete`) |
| `scanner` | every source of up to four characters of lines, comments and names, every one of two characters, everything up to three characters that begins like a number, longer ones with numbers, strings, braces and carriage returns | `SearchSucceeds`, `LineListParted`; `LocationsAreRight`, and never too high where strings and carriage returns make them too low; `NumbersAsWritten`; `CallsReturn`, and, where white space is always skipped, `LocationsAgree` |
| `http_parser` | four requests cut at every place and with every character replaced by every other, and 25 more cut at every place | `ValuesInText`, `HeadersAsWritten`, `BodyAsDeclared`, `WellFormedAccepted`, `ParseEnds` |
| `http_writer` | buffer of 3 bytes, up to 2 fields with up to 2 texts of up to 3 bytes, and three short ones; the socket takes any part of a write | `WireInOrder`, `RequestsArrive` |
| `graphql_executor` | all documents of a grammar that follows from a schema with a type of each kind (`Fitting`, about 6000); eight documents cut at every place, without any one token, with any token replaced by any of 26; and four more | `StackCoversSelections`, `TypesFollowNesting`, `AcceptedFieldsExist`, `SchemaRestored`, `WellFormedAccepted`, `ParseEnds` |
| `graphql_schema` | four schemas that are right; each of them cut at every place, without any one token, with any token replaced by any of 33; a directive with some 90 values of every shape for an argument of type `[X!]!`; and six more | `AcceptedIsClosed`: every name of an accepted schema is defined, with a kind that fits its place, and the root type is there; `RecursionSearched`: the search for recursive directives overflows exactly on input types that contain themselves, and reports exactly the directives that lead back; `ValuesFit`: values are accepted exactly when a recursive definition of fitting says so; `WellFormedAccepted` of the four schemas, `ParseEnds` |

`WellFormedAccepted` of the executor says that every document of the grammar is
accepted. The grammar leaves out what fits the schema and the code refuses or does not
read: an alias other than the field's own name, since the alias is looked up
(`{ z : f }` is refused, `graphql_executor.cpp:281`), a second variable, which
`parse_variable_definitions` never reads (`:451`), and a list inside an element of a
list of the same `Type` node, whose flag is off there (`:473`).
`AcceptedIsClosed` lets a union have a name that is taken: `emplace` drops it without a
word. `ValuesFit` takes any name for a value of an enum, as `check_value` does
(`graphql_schema.cpp:966-974`), and its values have no list directly in a list. One of
the four schemas of `WellFormedAccepted` has an interface as the root of its mutations,
which `set_root_types` allows.

The runs of the pool, the gateway, the scanner and the HTTP parser also check
the type invariant of their module (`TypeOK`), once per module.

Runs that end in a violation, because what the repository says of the code is not
what the code does:

| Run | Says | Does |
|---|---|---|
| `pool_exhausted` | `Allocate` throws "Out of memory: ..." | it tests `block == -1`, which no block is; before that `top()` of an empty stack is undefined (`memory_pool.cpp:18`, `:48`) |
| `gateway_parent` | "If parent is dead(parent id is changed), kill the server." | the timer has no repeat interval and fires once; closing the loop is refused while the server listens (`http_server.cpp:302`) |
| `gateway_answer` | the HTTP test waits for an answer | what the backend says is printed and nothing is written to the client (`http_server.cpp:76`) |
| `executor_alias` | "should error on undefined field" | the alias is looked up, the field behind it is not (`graphql_executor.cpp:281`) |

Some more disagreements were met while modelling and have no run of their own.
The test "should error on duplicate argument" has a recorded reference without an
error, for `emplace` keeps the first argument silently (`graphql_executor.cpp:418`).
Whether a recursive directive is reported depends on the order of the definitions
when an enum behind a field is on the way (`graphql_schema.cpp:1106`): an enum is
followed only while its reference is not yet marked, so a directive that is defined
behind the input type is accepted (`LeadsBack` says which are found). An input type
that contains itself, which GraphQL allows, ends the process once a directive has an
argument of it (`graphql_schema.cpp:1107`). A union that neither a `|` nor a
definition follows is dropped without a message (`graphql_schema.cpp:363`).
`scan_integer_part` begins behind the first digit and takes a zero there for a
leading one, so `100` is scanned as `10` and `0` (`graphql_scanner.cpp:190`;
`NumbersAsWritten` leaves exactly these numbers out).
`string_to_token` has `sec-webSocket-accept` and four more keys with a capital
(`http_scanner.h:209`), but names are lower-cased before the search, so they are
never found. Missing required arguments are looked for only behind an open
parenthesis (`graphql_executor.cpp:300`, `:720`). And when a line break is returned
as white space the column is not set back (`graphql_scanner.cpp:39`), so the
columns in the rest of that line are too high.

### Bounds, and why they are enough

* Pool: three blocks let one ticket forget a block while another takes and
  returns one; sizes are chosen so that a request fits exactly, fits only without
  padding and does not fit. The theorems of section 5 have no bound.
* Gateway: two connections suffice for one to replace the other's session in
  every state of its handshake, and for a hello to be answered on the other's
  socket; `MaxChunk = 3` cuts a record and joins it to half of the next, `6` glues
  three. A record has at most two loads because 16384 is less than twice 10240.
  `MaxForwards` admits every forward that the blocks of the pool allow. The run with several records (`MaxRecords`) has one
  connection, since records of different connections meet only through the session,
  which the first run has. The theorems of section 5 have none of these bounds.
* Scanner: four characters give two lines with a token on each and a comment, which
  is what a revert across a line break needs; the list is at most three entries
  long when a call begins (`MaxEntries`), one cursor is left behind (`MaxSaves`).
  Carriage returns come in every order with line breaks and names, up to three
  characters, and behind quotes; numbers with every combination of their parts. Parsers that sometimes let white space count get the documents of even length,
  four characters included; the others get those of odd length (`Skips`).
* HTTP parser: the text is real requests, so every state of the scanner is
  reached; one changed character reaches every exception. `UIntMax = 15` makes
  `16` and negative lengths wrap.
* Writer: texts that fill the buffer exactly, exceed it by one and need it twice.
* Executor: one changed token reaches every message and every way out of every
  function; what follows it in the document meets what was left behind. TLC's
  coverage shows that every disjunct is taken. The grammar goes two levels of braces
  deep, with two selections in a set and one optional argument or input field at a
  time: enough for a type to be pushed twice and popped before the next selection, and
  for an argument with a list to be used again.
* Schema: the same for the four schemas, which between them have every kind of
  definition, references in both directions, a cyclic input type and directives on
  every place; what needs two changes is in six schemas of their own.
  `MaxDepth = 8` is more than the longest path of input types that is not a cycle.

`CHECK_DEADLOCK FALSE` everywhere: the parsers end, the pool and the gateway stop
when the behaviour is undefined, the process is killed or a bound is met.

### Fairness

`MemoryPool` has none. `HttpParser`, `GraphQlExecutor` and `GraphQlSchema` are
sequential code that one thread runs to its end: weak fairness of `Next`. `GraphQlScanner` and `HttpWriter`: a function that was
called runs on, but the parser need not call. `HttpServer`: libuv makes the
callbacks of a timer that has expired, of a resolution and of a connection
attempt that have ended; they end, as the resolver and TCP have timeouts. Nothing
is assumed of clients, signals or the parent. `HttpWriter` assumes that a queued
write is continued, that is, that the backend reads or goes away.

## 4. Plan

Done, in this order: `MemoryPool` and `Arena`, `HttpServer`, `GraphQlScanner`,
`HttpParser`, `HttpWriter`, `GraphQlExecutor`, `GraphQlSchemaParser` and
`GraphQlSchema`; with proofs for each of them.

Next, in the order of their importance:

1. The executor on a parsed schema instead of a constant one: `SchemaAccepted` is
   what it may take for granted then.
2. The rest of the scanner: the keyword tables, the stack of string errors.
3. A module that composes the pool with the parsers: what a request allocates,
   and what an exception leaves behind.
4. The test runner (`test/`): order of suites, timeouts racing results, the
   forked server.

## 5. Proofs

All steps are checked by TLAPS with Z3, Zenon and LS4; nothing is assumed but the
named assumptions on constants, which TLC evaluates on every instance. An inductive
invariant is proved with one lemma per action.

**`MemoryPoolProofs`**, from `PoolAssumption` (a positive number of blocks, a
ticket and every request fit into a block). `TypeCorrect` is inductive by itself,
once rounding up is known to give a padding that is not negative. The other
invariants are not: that memory does not overlap (`Isolation`) needs to know where
live memory can be, which is in filled blocks or below an offset
(`SpansBelowOffset`), and that in turn needs every block to be in one place
(`BlocksAccountedFor`), or a popped block might hold something. Their conjunction
with the types, `PoolInv`, is inductive (`PoolInvariant`).
`PoolImplementsArena` then shows that every step maps to a step of the
arena or leaves the regions alone. `AllocationsAlignedHolds` shows why an address
that is taken before the padding is aligned all the same: in a block where one
alignment is asked for, in multiples of it, every offset is a multiple and no
padding is ever added. `AlignInv` says this of every such block, whether it is
still filled or not, and that no block holds memory of two requests: otherwise the
return of one ticket could make a block uniform that was not.

**`HttpServerProofs`**, from `ServerAssumption` (the bounds are numbers, documents
have their type) and `OneEndpoint` (`field_to_endpoint` has one entry), for any
number of connections, records, forwards, chunk sizes and pool blocks.
`SendersKept`, `OrderKept`, `SoleClientSafe`, `NoneStranded`, `ForwardsCarryOne`,
`PoolAccounted` and `ServerTyped` state the seven invariants of the two runs. All
connections feed the one session, and the argument is about its input. The session
takes any hello, but the answer goes to the newest connection, so a session with a
foreign peer is stuck and its peer sends nothing more (`HelloInv`); behind the hello a
unit of another connection stays in the input for good, since `SSL_read` takes records
from the front and fails on what it does not expect. So either the input is exactly
what the owner sent and the session did not take (`PureInv`), or nothing beyond the
foreign unit comes out. Around it: whose session it is (`OwnerInv`), that no unit is
invented (`StreamInv`), that a session keeps less than a record of what it decrypted
(`PendingInv`), that without glued or long records a working session holds less than a
record (`ShortInv`), that the load which was parsed last for a peer is the one that its
session returned last (`RecordInv`), that a forward has a field (`FieldsInv`), and that
the blocks in use are paid for by parsed loads (`PoolInv`).

**`GraphQlScannerProofs`**, from `ScannerAssumption` (sources are sequences of the
characters). `SearchAlwaysSucceeds`: the exception of `search_for_line` is never
thrown, for any document and any calls. The search keeps its first entry at or
before the position (`SearchInv`); this needs the list to begin with position 0
and nodes to start inside the source, thus every token a node can be made of
starts there (`CursorInv`), also in the cursors that a revert brings back
(`SavedInv`). `ScannerTypeCorrect` includes that the bounds of the search never go
below zero, which on `std::size_t` would be a wrap. `NumbersRead`: in every document
without carriage returns a number that stands by itself is one token, an integer or
a float, unless a zero cuts it in two (section 3). `NumberAt` says where in the
source the parts of a number end, and `TextNumber` that a text which is a number has
such places. `NumbersInv` says in which part the cursor is in every state of
`scan_number`, and that tokens which start with a number are whole, in the saved
cursors too, since a revert brings them back.

Its second half is about where nodes are said to be.
`NodesPartLines` (without carriage returns the list is parted by the start of every
node, which is what the binary search needs), `LocationsRight` (the line found is
never too high, and without strings and carriage returns line and column are
right) and `LocationsOfTokensAgree` (where white space is skipped and there are no
carriage returns, the scanner's own line and column are those that the search will
find). Looking ahead appends lines that a revert does not remove and
that are appended again later, so the list is neither sorted nor free of
duplicates. What saves it (`Ahead`): whatever the list has beyond the cursor lies
in the blanks and comments between the cursor and the next token. `LinesInv` says
this of the cursor in every state of the scanner, of the saved cursors during a
look-ahead, and of the nodes that exist. `CountInv`, which needs nothing of the
document, says that no line break is counted twice, and `BeyondInv` that the
search has left only entries beyond the node behind.

**`HttpParserProofs`**, from `ParserAssumption`. `ValuesAlwaysInText`: for every
request and whatever lies behind it, no value holds a byte that was not received.
The position can be behind the text after `scan_method` and `scan_http_version`,
so `ParserInv` says where it may be (`Unchecked`), that the start of a token is
never behind the position, and the same of every saved cursor.
`ParserTypeCorrect` follows from the same invariant.

`HeadersAlwaysAsWritten` and `BodyAlwaysAsDeclared`: for every request that is parsed,
every table of names and every content of the buffer, the headers are those of the
lines before the first empty one, the last of each name, and the body begins behind
that line and has the declared length. The scanner keeps neither where a line began
nor where its colon was, and the properties find both in the text. `WrittenInv`
therefore says that such places exist: the lines before the current one are headers
whose values are entered (`HeadTo`), no line ends between its start and the position
(`LineText`), the value began behind the colon and one space (`ValueScanned`), and the
cursor that `revert` goes back to is at a character of this value (`ContentInv`). A
line then extends `HeadTo` by one (`HeadGrows`), and at the empty line the places are
the ones the properties choose (`WrittenSuffices`). Since the text does not change,
all of this is said of a constant text `t`, and holds after a step because it held
before.

`WellFormedAlwaysAccepted`: a request with a method, a path, a query, a version,
headers of one word and an empty line is never refused. `AcceptInv` takes any places
that make the text well-formed (`WellFormedAt`) and says where among them the parser
is in each phase (`OnTrack`). The character there is the one asked for, so no step
throws; a percent sign has its digits before the end of the target
(`PercentInTarget`), and a line cannot run past the empty one (`PlainLineEnds`).

**`HttpWriterProofs`**, from `WriterAssumption` (a positive buffer size, texts that
end where the next begins). `WireOrdered`: for every buffer size and any number of
fields and calls, requests that fit reach the backend whole and in order, and no
byte is ever stored behind a buffer. A request that fits is flushed once, by `End`,
and afterwards its writer leaves the buffer alone: as long as a write of it is
queued, what is still to be read is there (`BuffersInv`). The queued writes follow
one another, and the first follows what was sent (`QueueInv`); behind the last of
them nothing that was flushed is missing, unless the connection broke (`BackInv`).
`DataInv` and `PlaceInv` hold without the assumption that the requests fit.

**`GraphQlExecutorProofs`**, from `ExecutorAssumption` (keywords are not names of
types, the root types exist, `SchemaComplete`), for every document.
`StackCovered`: every open selection set has an entry of its own on
`current_object_types`, so `top()` and `pop()` never meet an empty stack, although
errors leave entries behind. `NestingFollowed`, `AcceptedSelectsFields` and
`ListsRestored` are about documents without a diagnostic: the stack is that of the
sets around the token, only fields that exist are selected, and the lists that
`parse_value` has switched off are those that are being read. `ExecutorInv` is the
shape of the call stack (`FramesInv`: which function can be under which, and where it
waits), what the functions count (`CountedInv`), the type that a definition pushed
and the field on top (`BodyInv`), the height of the stack at every frame
(`NestingInv`) and that two open lists are never the same node (`ListsInv`).

**`GraphQlSchemaProofs`**, for every document, without any assumption on the
constants. `SchemaAccepted`: a schema without diagnostics holds together
(`AcceptedIsClosed`). A document with an error leaves half of a definition behind, and
the functions above it go on with null pointers, so little is true of every state.
`CleanInv` claims all that it claims only as long as nothing was reported, and the first
lemmas say that diagnostics are only added (`NextReports`): a step after which there are
none has taken none of the branches that report. What remains is `SchemaInv`
(`SchemaInvariant`). `StackInv` says which function can be under which and what it may
take for granted of the one that it called: a type annotation that is not null, a map of
arguments that points to `Type` nodes. `DeclarationsInv` says that a declaration without
its fields is the one whose definition is being read, and that, unions apart, a name is
declared once. The rest is how far the constructor has come: the `Type` nodes in front
of the loop fit (`TypesInv`, and those behind it are not yet marked as enums, without
which marking one would be seen by nobody), the directives (`DirectivesInv`), interfaces
(`ImplementationsInv`) and members (`UnionsInv`) that were looked at are right.
`DirectivesInv` has to say it of `Type` nodes whose flags `check_value` has switched off:
a required list that is being looked at is not required until the stack is unwound
(`StrictAgain`). TLC checked `CleanInv` on the instance of `graphql_schema` before it was
proved. `GraphQlParserProofs` has the lemmas that the executor and the schema share:
sequences, the frames after a call or a return, the messages after a report.

Only model-checked: liveness (`ForwardsComplete`, `CallsReturn`, `RequestsArrive`,
`ParseEnds` of the three parsers), which is out of the prover's reach; that the calls
of the GraphQL parsers get through every document of a recursive grammar
(`WellFormedAccepted` of the executor and of the schema), what `check_value` computes for
nested values (`ValuesFit`) and what the searches find in a graph (`RecursionSearched`),
all of which needs induction over data.

## 6. Not modelled

* The rest of the GraphQL scanner: planned, see section 4. Keywords are names, to
  it; the parsers tell them apart.
* In the schema: descriptions, comments, errors inside strings, the arguments of
  fields once they are read, values of literals and the places of diagnostics.
* TLS itself, libuv, the C++ library: external, modelled by how they are used.
* Some hazards of `PROJECT.json` have no property, because what is hazardous is what the
  code does and nothing in the repository promises otherwise: blocks that are forgotten
  or never returned, undefined behaviour of the GraphQL parsers on documents that do not
  fit and on schemas with errors, the dependence of recursive directives on the order of
  definitions. Each has a note that says so.
* `FlushWriteBio` gives `uv_write` a buffer on the stack; the answers of the
  handshake are taken to leave at once. The TLS branch of `HttpWriter` has no
  caller.
* Text: wording of messages, their columns in the executor, printing of values,
  diagnostics files. Values of literals (`atoi`, `atof`).
* TCP client classes (no caller), command line, glob and generated code.
