# Verification of Wikigen-Auth

Wikigen-Auth is an HTTP server in C that lets a user log in with GitHub, keeps
the user's GitHub access token in a libSQL database, hands out a JSON web token
(JWT), and with it creates a wiki repository in the user's GitHub account. This
directory holds its TLA+ model, the TLC configurations that check it, and the
theorems about it that TLAPS checks. The code has no documentation and no tests;
everything here is read from the C sources.

## The system

| part | source | state | operations | meets |
|---|---|---|---|---|
| server | `wikigen_auth.c` | listening socket, one descriptor, one heap block and one detached thread per connection, the thread's receive buffer | `main` (accept loop), `handle_client_request` | clients over TCP; parser, router, response builder |
| request parser | `request_parser.c` | the `Request` it fills, what `strsep` left of the buffer | `parse_request` | called by each thread on its own buffer |
| router | `router.c` | the route tree, constant after `init_routes` | `init_routes`, `route_request`, `find_route` | calls a handler |
| request handlers | `route_handlers.c` | locals of one thread | `handle_authorize`, `handle_create_repo`, `handle_root` | the helpers below |
| helpers | `handler_helpers.c` | the table `User`, connections to it | `get_acces_token`, `get_user_info`, `insert_or_edit_user_access_token`, `get_user_name_and_token_from_db`, `get_existing_repo`, `create_new_repo`, `load_html_with_token` | GitHub (curl), libSQL |
| JWT | `token_util.c` | none of its own; a JWT lives for eight hours | `create_jwt`, `verify_jwt`, `get_jwks` | libjwt, `JWKS.json` |
| response builder | `response_builder.c` | none | `send_response` | the client's socket |
| curl wrapper | `curl_request.c` | the response buffer of one call | `perform_curl_request`, `write_callback` | GitHub |
| logger | `log.c` | one file, its stdio buffer, one mutex | `log_init`, `log_write`, `log_close` | called from everywhere |
| database, environment | `db.c`, `env.c` | the database handle; none | `init_db`; `get_env_value` | libSQL; `.env` |
| cJSON, libSQL header | `cJSON.c`, `cJSON.h`, `libsql.h` | vendored | parse, print, item lists | the helpers |

What is hard about it:

- **Threads.** Every request has a thread, and nothing but the logger is locked.
  Requests meet in the database table and in GitHub's state, both remote, so each
  remote call is a point where others may come in between. Two first logins, or
  two requests for the same repository, race.
- **Failure.** Each of up to four remote calls may fail, before it took effect
  or after; some results are not looked at, some exits send nothing, some leave
  a database connection open. The process may die anywhere, and is restarted.
- **Names.** An account has a number that never changes and a login that may.
  The row is written by number and found by name.
- **Sockets.** Requests arrive in pieces; clients stop, half-close, close and
  reset. `SIGPIPE` is not handled, descriptors are never closed.
- **One process.** All requests share it, and several things a request may be, or meet
  in its handler, end it: text of the client used as a format, an array on the stack of a
  size the client names, `strlen` of NULL.
- **Growing blocks.** The response of a call, the key file, a printed text: blocks
  grown to sizes computed each in another way, while any allocation may fail.
- **Links.** cJSON reaches the end of a list through the first item's `prev`, which
  each of a dozen functions keeps up by assignments of its own.
- **Counting.** The parser finds the end of the headers by counting empty tokens
  and bounds three arrays with three different tests.

What makes each part correct: the server answers each whole request once and
none before it is whole, and one client does not take down the others; the
parser stores the headers and the body that were sent, within its slots; the
router calls a handler for its own paths only; the handlers act only for the
account the JWT was issued to, keep its row right, and answer; the server with them
in it tells its clients nothing else, whichever of them breaks off; no text leaves its
block or loses a piece; item lists are the sequences they stand for; the logger keeps
records whole and in order. `PROJECT.json` lists every hazard at its line with
the properties aimed at it.

## The modules

| module | models | kind |
|---|---|---|
| `AuthPromise` | what the service promises a client: nobody is handed a repository but of the account that logged in | abstract specification |
| `AuthService` | `route_handlers.c`, `handler_helpers.c`, the JWTs of `token_util.c`, with GitHub and the table as environment | component, implements `AuthPromise` |
| `AtomicLog` | a call of `log_write` is one step | abstract specification |
| `Log` | `log.c` stdio call by stdio call | component, implements `AtomicLog` |
| `Router` | `router.c` | pure operators, checked in `Server` |
| `RequestParser` | `parse_request`, token by token | component |
| `Server` | `wikigen_auth.c` with sockets and clients; extends `Router` | composition of accept loop, threads, router and clients |
| `Service` | the server with the request handlers in its threads: what `Server` leaves to a handler, `AuthService` does; one crash ends both | composition of `Server` and `AuthService`, keeps `AuthPromise` |
| `Buffers` | the texts read into growing blocks: `curl_request.c`, `get_jwks`, `env.c`, the page of `load_html_with_token` and its way through `send_response` | component |
| `Cjson` | `cJSON_Parse` and `cJSON_Delete` over tokens, with their heap | component |
| `CjsonPrint` | the printing functions of cJSON and their block, called on what `Cjson` parsed; extends `Cjson` | composition of parser and printer |
| `ItemLists` | sequences of items below items | abstract specification |
| `CjsonList` | the functions of cJSON that build, search, edit, copy, compare and free lists, by their links | component, implements `ItemLists` |
| `MC...` | values of constants for TLC | |
| `AuthServiceProofs` | theorems about `AuthService`: of any behaviour; then of names, races and the promise | |
| `LogProofs`, `ServerProofs`, `RequestParserProofs`, `BuffersProofs` | theorems about `Log`, `Server` with `Router`, `RequestParser`, `Buffers` | |
| `ServiceProofs` | theorems about `Service`, from those about `Server` and `AuthService` | |
| `CjsonProofs` | theorems about `Cjson` | |
| `CjsonPrintProofs` | theorems about `CjsonPrint`, from those about `Cjson`, which it extends | |

### AuthService

A thread runs one request. `pc[t]` names the next call of its handler that leaves
the process; everything between two such calls is one step, since threads share
nothing but what these calls reach. `handle_authorize` is `HandleAuthorize`,
`GetAccessToken`, `GetUserInfo`, `SelectUser`, `UpdateUser` or `InsertUser`,
`IssueToken`; `handle_create_repo` is `HandleCreateRepo`, `LookupUser`,
`GetExistingRepo`, `CreateNewRepo`, `SendUrl`. The last sends the URL that the two
before it have put in `data`; in between, the repository exists and its client does not
know, others may ask for it, and the process may die. Every early return of the code is
a disjunct of one of them, with the response it sends (`reply`) or without one
(`ReturnSilently`), and with the database connection closed or kept (`open`).

GitHub is three variables: each account's `login`, the codes `redeemed`, the `repos`. A
grant stands for one consent: its code and its access token. The table is the sequence
`user`. `Failures` says what may fail; a failing remote call may have taken effect.
`Rename`, `ExpireToken` and `Crash` are the environment's; `Names` has the logins each
account may ever take. Accounts, logins and wiki names are model values: formats,
lengths and the JSON in between are left out, as is the content of `code.html`.

`code[]` in `handle_authorize` is not initialised. A request without a `code`
parameter either finds it empty (400) or finds an older string of the stack
there, which is exchanged like any code GitHub does not know; both outcomes are
in `HandleAuthorize`.

The schema of the database is not in the repository. `UniqueGithubId` says
whether it has a UNIQUE index on `github_id`; runs use both values, and the
theorems hold for both.

### Server

`Accept` is one turn of the loop in `main`: `malloc`, `accept`,
`pthread_create`; `AcceptFails` and `OutOfMemory` are its other outcomes. The
accepted descriptor is never closed (`open` only grows while the process lives)
and `client_fd` never freed (`heap`). `handle_client_request` is one action per
system call: `Receive`, `ReceiveNothing` and `ReceiveFails` are the results of
`recv`, then `Refuse`, `Parse`, `Drain`, `Preflight`, `Route`, and what a handler
does to the connection: `HandlerAnswers`, or `HandlerReturns` without a word. A
connection that is accepted when no thread can be had is nobody's (`Dropped`), like
those still queued when no descriptor is left.

What ends the process, besides memory and `SIGPIPE`, is undefined behaviour, which may
also pass unnoticed; both outcomes are in the model. A refusal quotes the request and is
logged as a format string, so a `%` in it is a conversion without an argument (`Parse`,
`wikigen_auth.c:142`); the array for the body is on the stack, as large as the client
says, and written behind its end (`OverrunBody`, `wikigen_auth.c:158-160`); and a handler
may take the length of NULL, compare with NULL, or log a message of GitHub's as a format
(`HandlerDies`: `token_util.c:67` and `:116`, `handler_helpers.c:92`,
`route_handlers.c:169`). `HandlersMayDie` says whether a run has the last of them.

A request is a number of pieces of head and of body, arriving in groups of any
size. A head cut short may parse as anything less than the request it would
have become (`Meanings`). The socket has what the client did (`peer`), the
pending error (`error`) and what the client received (`replies`). `Send` on a
socket the client has reset reports the pending error, or raises `SIGPIPE`: the
process dies, unless libcurl, which ignores the signal during its transfers in
any thread, happens to be at work, so both outcomes are possible.

`handle_client_request` reads `buffer` and `content_length` before it writes
them when nothing arrives or no header says so, and `parse_request` counts
`header_count` and `param_count` of its caller's `Request` up from whatever is there.
The frame is the first of a new thread, and zero where they are: a new stack is fresh
pages, and glibc gives back the pages of a stack whose thread has ended before it hands
the stack out again. Run under gcc without optimisation, as the makefile builds it, all
of them read 0 on new and on reused stacks; the receive buffer lies between them and
anything an earlier call of the same thread has touched. They are modelled as zero.

### Service

`Service` has the variables of `Server` and of `AuthService`, a client of the one being
a thread of the other. `Serve` is `main`, `ReachHandler` a thread up to `route_request`,
`CallHandler` the call, `RunHandler` each step of a handler, and `LeaveHandler` its
response, which `Server` sends on the client's socket, so that it may meet a reset one
and end the process in the midst of everyone else's calls; then the handlers end too
(`HandlersSurvive` says what they keep: the table, GitHub, and nothing of their own).
`DieInHandler` is a handler that ends the process itself, at any point, or by the
message of its failure, which is logged before it is sent. A handler that returns
without a word leaves the connection as it is. What clients received is read from the
sockets, and the promise is stated of that.

### Buffers

One text is read by one of four functions, piece by piece, in one action per pass of
its loop or call of libcurl; a block has a size and cells, and writing outside it is
recorded where it happens. A write behind a text goes to its NUL (`AtEnd`), as
`strcat`, `memcpy` at `size` or `fread` do. What is still held is the blocks, the
header list, the curl handle and the file. `create_jwt` measures what `get_jwks`
returned, NULL or not, and `send_response` formats the page into its own block.

### Cjson, CjsonPrint, CjsonList

These are vendored code; the first is modelled since every answer of GitHub and every
request body goes through it, look-ups too, and the others since they are in the
repository and share its data.

`CjsonList` has the heap as one record of the fields `next`, `prev`, `child`,
`string` of each cell. The operators between the look-ups and the calls are the
assignments of the code, in its order; a call is one of them, or several, behind its
early returns. What cannot be told apart by a caller is one call: the functions that
create an item of a kind, those that make an array of values, those that add a new
item of a kind to an object. Kinds are fixed per cell and run; a value is its
kind. Callers keep to `cJSON.h`: an item is added to one list at a time, and never
below itself; `cJSON_AddItemToArray` on an object, which leaves an item without a name
there, is allowed, since the code has rules for it. `ItemLists` says the same with
sequences.

`CjsonPrint` goes on from what `Cjson` parsed. `printbuffer` is the text up to
`offset` and what was written behind it and is not counted yet; `Write` is one call of
`ensure` with what follows it, and each action one such call of `print_value`,
`print_array` or `print_object`. A token counts with its width in bytes as printed; the
texts of strings and numbers are not looked at, but that a number too large for a
double, "infinite" to `strtod`, is printed as `null` (`PrintedAs`).

### RequestParser, Router, Log, Cjson

`RequestParser` takes a buffer as its request line and the sequence of line ends
and texts behind it. `TokenOf` and `RestOf` are `strsep` at `"\r\n"`, which
splits at either character, so that every `\r\n` yields an empty token. The request line
is itself the first token of the header loop: without `HTTP/1.1` it is stored as a header
if it holds a colon, as in `GET http://a/ HTTP/1.0`, and refused if not. Its
actions are the method and path, one query parameter, the first line, one
header token, the body, one path segment. Copies into fixed arrays of text are
left out; the number of slots used is not.

`Router` has the tree as a function; the recursion of `find_route` is a recursive
function over its nodes, local to the operator, which goes through the children of each
with `FirstOf`. `Server` calls it with the paths of its requests.

`Log` has one action per stdio call of `log_write`, the mutex, the file with its line
buffer (`flushed`), and stderr. The buffer is emptied by the newline that ends a record,
and in the middle of a record whose message `spills`: it holds a newline, or fills the
buffer, as a logged request may. A crash loses the buffer; the next process appends,
right behind what is left of a record that was cut. If the file could not be opened,
records go to stderr only.

In `Cjson` a text is a sequence of tokens; a token "bad" stands for all that no parser
takes. `heap` has every item and text allocated, `live` those not freed, and pointers
are indices. The mutual recursion of `parse_value`, `parse_array` and `parse_object` is
a stack of frames with their `head` and `current_item`. `AddItem`, `ParseName`,
`CloseList` are the passes of the loop, the same for both kinds of list; `Unwind` is one
`fail:` label after another, down to that of `cJSON_ParseWithLengthOpts`. A number's
temporary copy is allocated and freed within one step. Bytes, white space, escapes and
the values of numbers, unless they are infinite, are left out.

## What the runs check

| run | instance | shows |
|---|---|---|
| `auth_faults` | 3 threads, 2 accounts, 3 grants, every failure but lost writes; one account is renamed among logins nobody else has | `TypeOK`; the token used and the `ssh_url` sent belong to the account of the JWT (`ActsForHolder`; of the URL, `SshUrlIsHoldersRepo`, `KeepsPromise` says more); a JWT is issued only to a stored account (`TokenHoldersStored`); a connection is left open only behind a 500 (`LeakOnlyOnServerError`); `AuthService` implements `AuthPromise` (`KeepsPromise`); a row holds a token of its own account (`RowsHoldOwnToken`); repositories are made only in stored accounts (`ReposOnlyOfStored`) |
| `auth_races` | 4 threads, every failure but of calls to GitHub, lost writes too; the same renames; UNIQUE index | a request is left without a reply only when the repository it wanted was made by another, which has its URL and may have sent it, still have to, or have died with it (`SilentMeansMadeByAnother`); "no record" is said only to an account that has no row at that moment, or was renamed (`NoRecordMeansNewOrRenamed`) |
| `log_threads` | 2 threads with 2 calls each, crashes, fair | `TypeOK`, `RecordsUnmixed`; what a crash takes from the file is of the record being written (`LossOnlyUnderWay`); log_write is one step, to both streams (`WritesAtomically`); it returns (`EveryCallReturns`) |
| `parser_whole` | every list of up to 3 headers with several bodies, whole or cut anywhere, behind every kind of request line, and every short path and query; 3 header slots, 3 parameters, 3 segment slots | nothing of a body becomes a header (`HeadersFromHead`); an ordinary request is parsed into its headers and body (`OrdinaryParsedWhole`); what is stored has its type and fits its slots (`SlotsSuffice`) |
| `cjson_parse` | every text of up to 5 tokens, and four documents whole, cut anywhere, or with any token mistaken; nesting limit 2; any allocation may fail; the documents, and every text of up to 4 of 6 tokens, printed again, infinite numbers among them, with and without format, from a block of 8 bytes and from blocks of 0 to 24, `INT_MAX` being 40 | each cell is owned once, so nothing leaks and nothing is freed twice (`MemoryOwned`); exactly the texts that begin with a JSON value are accepted, against a grammar stated by intervals (`AcceptsJson`), the tree is the text read (`TreeIsText`) and its links agree (`BackLinks`), all of it in `ParsesJson`; no block is larger than `INT_MAX` (`PrintTypeOK`, with the types and the nesting limit) and no byte is written outside one (`WithinBlock`); what is printed is what was parsed, infinite numbers as `null` (`PrintsWhatWasRead`), a block is freed once (`BlockFreedOnce`), and printing fails for a reason (`FailsForReason`) |
| `cjson_lists` | every sequence of calls on 5 cells, two of which are objects or arrays, 2 names that differ in case | next, prev and child agree (`ListsLinked`) and no pointer leads into freed memory, no item into two lists (`NothingDangles`), both in `LinksAgree`; look-ups find the first item of a name (`LooksUpFirst`); comparison is that of the values (`ComparesValues`); each call does what `ItemLists` says (`ImplementsItemLists`) |
| `service` | 3 clients, of which one may break off, for one account and one grant; 2 threads, 3 descriptors, 3 blocks; requests and handlers that end the process; renames | who holds on has an answer when its handler is left, unless another request has the URL of the repository it wanted (`HeldMeansAnswered`); `AuthPromise` is kept in what the clients received (`ClientsKeepPromise`) |
| `buffers` | texts of up to 7 cells in any pieces, every allocation and call able to fail | no write outside a block (`WithinAllocation`); what is returned is the whole text, and the page is sent whole, or a 500 (`TextIsWhole`); what is held is what is returned (`NothingLost`) |
| `server_live` | 3 clients, of which one may close and reset, 2 descriptors, 1 thread, memory for 3 blocks, buffer of 2 pieces; requests of one and two pieces of head, plain and OPTIONS, with a `%` and a long Content-Length or without; handlers may die; fair | `TypeOK`; nothing is acted on before it is whole (`ActsOnWholeRequests`), and it is answered once, or twice for OPTIONS (`AnswersInOrder`), by the handler its path names (`NamedIsRouted`); the process dies only in a thread whose client broke its connection or sent what the code does not survive, or out of memory with no connection given back (`DiesForCause`); what was sent whole gets to its handler, unless there was no thread or descriptor for it (`EveryRequestHandled`) |

Runs that end in a violation show where the code departs from what it says of
itself; `PROJECT.json` quotes the lines under "findings".

| run | property | what happens |
|---|---|---|
| `auth_reusedlogin` | `ActsForHolder` | with renames, a row found by name belongs to another account |
| `parser_body` | `BodyIsSent` | a header that contains `HTTP/1.1` ends the headers |
| `server_reset` | `ErrorStaysOnConnection` | a reset connection ends the process |

The models show more of the kind, for which no run is kept:

- The loser of a race for a repository gets no response: `handle_create_repo` returns
  at `route_handlers.c:97`. The winner need not have been told by then, and never is if
  the process dies first (`SilentMeansMadeByAnother`, `HeldMeansAnswered`).
- An account that takes a login nobody had, and logs in again, is told that it has no
  record: its row keeps the old name, and `handler_helpers.c:297` looks for the new one
  (`NoRecordMeansNewOrRenamed`).
- `create_jwt` and `verify_jwt` take the length of what `get_jwks` returned without
  asking whether it is NULL (`token_util.c:65-67`, `:114-116`): without the key file the
  first login ends the process. `get_jwks` leaves the file open where `realloc` fails,
  and `perform_curl_request` keeps its block where libcurl cannot start.
- A refused request is used as a format string before its client is answered
  (`wikigen_auth.c:142`), as are messages of failures in the handlers
  (`route_handlers.c:43`, `:169`, `:179`, `:190`, `:202`); a Content-Length with more
  than 15 characters sizes an array on the stack that is written behind its end
  (`wikigen_auth.c:158-160`).
- A request line without `HTTP/1.1` that holds a colon is stored as a header
  (`request_parser.c:119-143`).
- `1e999` is read as a number and printed as `null` (`cJSON.c:550-552`).
- An accepted connection for which no thread could be started is neither served nor
  closed (`wikigen_auth.c:81-86`).
- An object with an item without a name, or with one name twice, need not be equal to
  its own duplicate for `cJSON_Compare`.
- A lost INSERT, whose result `handler_helpers.c:57` drops, is followed by a JWT:
  `TokenHoldersStored` fails with "execute" among the `Failures`.
- Without a UNIQUE index two first logins of one account both insert a row.
- `GET /` leaves the loop of `route_request` at once and is answered 404, though
  `handle_root` is registered for it (`router.c:72`, `:81`); a repeated name, as in
  `/authorize/authorize`, is routed (`router.c:43`, and `IsNamed` in `Server`).
- A path of exactly 256 segments "exceeds 256" (`request_parser.c:160-163`).
- A client that closes without sending is told its request is malformed, not
  "No bytes received" (`wikigen_auth.c:130`).
- An OPTIONS request is answered with "Connection: keep-alive" and then routed and
  answered again (`wikigen_auth.c:174-179`).
- Responses say "Connection: close" (`response_builder.c:51`); no connection is.

Every property of a passing run has a mutant: a definition of the model changed
as a bug would change the code, with which TLC finds the property violated.

### Bounds

- `Threads`, `Clients`: requests in the whole behaviour, not only at one time. The races
  of the handlers are between two requests, prepared by others: a login that stores the
  account, one whose JWT is used, two that collide; four threads hold all of it, three
  all but the race itself. In `Server` three clients, one more than there are
  descriptors and two more than there are threads, so that each may find the others to
  have taken the last; in `Service` three, so that two race for a row or a repository
  while the third breaks off, and two threads, so that one has to wait.
- Two accounts, the second to be confused with the first; three grants, so that
  one account logs in twice with different tokens; one account and one grant in
  `Service`, where the account matters less than who is told of it; one wiki name, as
  names of different wikis never meet in the code.
- `MaxCalls` = 2 in `Log`: a record in front of and one behind another's.
- `BufferSize`, `MaxFds`, `MaxHeap`, `MaxThreads` are small enough to be reached,
  as are `MaxParams`, `MaxHeaders` and `Slots`; every comparison of the code with
  such a limit is met from both sides, in a run of `Server`, of `Service` or of the
  parser.
- The paths of `Server`: none, one name, two names; the tree is two levels deep.
- `NestingLimit` = 2 in `Cjson`: a list in a list, and one too many; documents of up to
  17 tokens reach every pass of both loops, in an object, an array and one in the other.
- `Buffers`: sizes, a line and a placeholder small enough that each is met from both
  sides by texts of 0 to 7 cells, and a block is grown more than once.
- `CjsonList`: five cells make lists of a first, a middle and a last item, a list in a
  list, and a copy beside a list; the calls are not bounded. Cells are symmetric.
- `CjsonPrint`: the widths of tokens make texts that end on either side of each growth;
  the longest formatted document does not fit `IntMax`.
- No variable is bounded otherwise: `jwts`, `user`, `repos` are bounded by the
  number of threads.

`CHECK_DEADLOCK FALSE` is in every configuration since threads, clients and calls
are finitely many: a behaviour ends when all are done, or when a client that
owes its request never sends it. That a thread does not get stuck short of
its handler, or in the logger, is what the liveness properties say.

### Fairness

- `AuthService`, `Service`: none. `perform_curl_request` sets no timeout
  (`CURLOPT_TIMEOUT`), so nothing in the code makes a handler return, and only safety is
  stated of what is behind one.
- `Log!FairSpec`: weak fairness of each thread's steps. For `Lock` this asks that a
  thread for which the mutex stays free takes it. Each thread calls finitely
  often, so a thread cannot be overtaken for ever.
- `Server!FairSpec`: weak fairness of each thread up to its handler (`UpToHandler`), and
  of `main` when it can accept a connection or has no memory left: the scheduler's.
  Failing `accept`s are not fair: they would use up the memory and end the process before
  a stuck thread shows. Neither clients nor handlers are fair: `EveryRequestHandled` asks
  that a request get to its handler, or to the 404, only once it was sent whole, and that
  a client that closed or reset its connection, at whatever point, frees a thread that is
  not in a handler. A request whose Content-Length is written so long that the thread
  drains the connection is complete only when its client ends it. A handler that never
  returns keeps its thread; clients that then find none are `Dropped`.

## What is proved

TLAPS checks the following for every value of the constants (any number of
threads, accounts, clients, calls, any sizes and texts), under the `ASSUME`s of the
modules, which state only typing, that the logins accounts start with differ,
distinctness of special values, and, in `Router`, that segments no route has are none
of its nodes.

| theorem | states | also assumes |
|---|---|---|
| `AuthServiceProofs!TypeCorrect` | `[]TypeOK` | |
| `!RowsHoldOwnTokenAlways` | `[]RowsHoldOwnToken` | |
| `!ReposOnlyOfStoredAlways` | `[]ReposOnlyOfStored` | |
| `!LeakOnlyOnServerErrorAlways` | `[]LeakOnlyOnServerError` | |
| `!ActsForHolderAlways` | `[]ActsForHolder` | no reused names |
| `!SshUrlIsHoldersRepoAlways` | `[]SshUrlIsHoldersRepo` | no reused names |
| `!NoRecordMeansNewOrRenamedAlways` | `NoRecordMeansNewOrRenamed` | |
| `!SilentMeansMadeByAnotherAlways` | `[]SilentMeansMadeByAnother` | no reused names, no call to GitHub fails |
| `!TokenHoldersStoredAlways` | `[]TokenHoldersStored` | no lost writes |
| `!Refinement` | `Spec => KeepsPromise` | no reused names, no lost writes |
| `LogProofs!LogTypeCorrect`, `!RecordsUnmixedAlways`, `!LossOnlyUnderWayAlways` | the invariants of `Log` | |
| `!WritesAtomicallyAlways` | `Spec => WritesAtomically`: `Log` implements `AtomicLog` | |
| `ServerProofs!ServerTypeCorrect`, `!ActsOnWholeRequestsAlways`, `!AnswersInOrderAlways`, `!NamedIsRoutedAlways` | the invariants of `Server` | |
| `!DiesForCauseAlways` | `DiesForCause` | |
| `RequestParserProofs!SlotsSufficeAlways`, `!HeadersFromHeadAlways`, `!OrdinaryParsedWholeAlways` | the invariants of `RequestParser` | |
| `BuffersProofs!WithinAllocationAlways`, `!TextIsWholeAlways`, `!NothingLostAlways` | the invariants of `Buffers` | |
| `CjsonProofs!MemoryOwnedAlways`, `!BackLinksAlways`, `!TreeIsTextAlways`, `!ParsesJsonAlways` | the invariants of `Cjson` | |
| `CjsonPrintProofs!WithinBlockAlways`, `!BlockFreedOnceAlways`, `!PrintsWhatWasReadAlways`, `!FailsForReasonAlways` | the invariants of `CjsonPrint` | |
| `!PrintingParses` | `PrintSpec => Spec`: what calls the printer is the parser, so the theorems of `Cjson` hold of it | |
| `ServiceProofs!HeldMeansAnsweredAlways` | `[]HeldMeansAnswered` | no reused names, no call to GitHub fails |
| `!ClientsKeepPromiseAlways` | `Spec => ClientsKeepPromise` | no reused names, no lost writes |

"No reused names" is `NoNameReused`: accounts may be renamed at any time, but no login
is ever among the `Names` of two. "No lost writes" is that "execute" is none of the
`Failures`, "no call to GitHub fails" that "curl" and "github" are none.
`auth_reusedlogin` is the counterexample with a reused name, a lost INSERT the one with
lost writes. Where a call to GitHub fails after it made the repository, a request may end
without a word though nobody has the URL of the repository.

The arguments:

- `AuthService`. None of the properties is inductive. `Inv` adds to the types what each
  thread holds at each `pc` (a thread past `exchange` holds a redeemed grant; past
  `userinfo` the account in `who` owns that grant; in `create` the token comes from a
  row), which makes `RowsHoldOwnToken` inductive, and with it that the account a
  repository is made in has a row. `NamesOwned`, in `LoginInv`, adds that every stored
  or signed name is among the `Names` of its account, renamed or not. An account that is
  never renamed has one name, by which its row is found if it has one
  (`NoRecordMeansNewOrRenamed`). Where no name is reused names identify accounts, so
  that a row found by name is the holder's, and a URL in `data` is of the repository
  asked for. `StoredInv` adds that a thread at `issue` has its row in the table, if no
  write is lost. `RaceInv` says that each repository is in the `data` of a thread past
  its POST, and that a silent thread wanted one of them and has no URL itself. The
  refinement maps the account of a JWT to the promise's logged-in account and takes each
  handler's last step to the promise's step, all others to stutters.
- `Log`. `LogInv` says that the thread with the mutex is the one whose record is
  unfinished, and that the last chunks of each stream are the pieces of its record
  that its `pc` has passed; a chunk is then appended only behind its own record. For the
  refinement a stream's atomic counterpart is the stream up to the first piece of the
  record that the owner of the mutex is writing (`Settled`); the step that releases the
  mutex is the atomic write, and a crash leaves the beginning of that record, which
  `AtomInv` finds at the end of the stream, in the buffer of the file or not. That what is
  in the buffer is of the same record (`LossOnlyUnderWay`) comes with it.
- `Server`. `ServerInv` ties, for each client, `pc` to the replies sent and to what
  was received: a thread that has left the receive loop has the whole request, a
  full buffer, or a client that ended it. `CountInv` says that there is a block for
  each open descriptor, and more only once the descriptors are used up, which is the one
  way to run out of memory; each other step that ends the process is taken apart for its
  cause (`DiesForCause`). For `NamedIsRouted` the walk of `route_request` is taken apart:
  `FindRoute` says in closed form what `find_route` returns in the tree of
  `init_routes`, and `WalkStands` where the walk stands after each segment, by taking
  the least segment at which it would not; `NamesOf` then says of each client that what
  it was told agrees with the path parsed.
- `RequestParser`. `AtHeaders` says where `strsep` stands in the request: what is left
  of the buffer is what is behind one line end, and `Placed` relates this place to the
  empty tokens counted and the headers stored, the request line at place 0. `AtBody` and
  `AfterBody` say that an ordinary request leaves the loop at its blank line, with all
  headers stored and the body left.
- `Buffers`. `BuffersInv` has, for each of the four functions and each `pc`, the
  size of the block in terms of what was read (a cell more than the text, but where
  `load_html_with_token` has counted the placeholder), what the cells hold, and
  which blocks, handles and files are held.
- `Cjson`. `ParserInv` is what `cJSON_Parse` keeps: pointers lead into the heap,
  frames of the stack hold items of it, all of them with an item behind but the one just
  opened, and nothing is freed before something fails. The other three invariants stand
  on it:
  - *Ownership.* `OwnInv`: pointers lead only to cells allocated later, each cell is
    pointed to at most once, the tops (the root, and the first item of each list under
    way) not at all, and while nothing failed whatever is live is below a top. `Below` is
    the least set closed under the pointers (`Tree`), so that the trees of two tops
    cannot meet; freeing one is freeing cells no other top owns.
  - *Links and text.* `ReadInv` says that there are, for the heap, ghosts: the list each
    item is in, the place in the text where it begins and ends, and how deep it is, such
    that an item's type, its children and its next stand at these places (`Reads`), and
    those of the frames are where the parser is. An item's text is then proved from the
    last cell down, pointers leading upwards only.
  - *Acceptance.* That no other text is accepted is the same induction, downwards, over
    the intervals of `Values`: each item ends where the grammar says (`RootIsValue`).
    That none is refused is `TrackInv`: so long as the text begins with a value, each list
    under way has commas and an end (`Route`) that the parser is on its way through
    (`Leads`), so the next token is never an unexpected one. `RefusedInv` keeps the reason
    once it has failed.
- `CjsonPrint`. `PrintInv` adds that the block, where there is one, has room for what is
  written in it (`BufferRight`) and that a frame but the top one is at an item (`WalkInv`).
  - *What is printed.* Once parsing is done the ghosts of `ReadInv` are a script
    (`Scripted`). `Follows` says that the frames lead from the root to the item that is
    printed, each in the list of the one below it, and that the printed text without white
    space is the text up to the place (`Ahead`) the walk is at.
  - *What it takes.* `Reckoned` sums the widths of the tokens read, with the white space
    that formatting puts at each, from left to right. `Measures` says that what was printed
    takes that much, but for white space (`Gap`) that is written with the token next to
    it, and that the frames are as many as the lists open there. A request of `ensure` then
    asks for no more than the text up to the next token and two bytes (`EnsuredMeasures`),
    and where it fails there is a reason (`Excused`), which stays.
  - `Size`, `Tight` and `Reckoned` are recursive functions; their existence and their values
    (`SizeSums`, `SizeJoined`, `ReckonedIs`) are proved from the well-ordering of the
    natural numbers, since induction over an operator is not available.
- `Service`. By the way it is put together its steps are steps of `Server` and of
  `AuthService`, or leave one of them alone, so that the theorems about these are used
  through `INSTANCE`. `HeldInv` joins the two: a client that holds its connection, whose
  thread is done and who was sent nothing, is one whose handler decided on no answer, of
  which `SilentMeansMadeByAnother` says the rest. `ToldInv`
  says that who was sent a handler's answer is past its handler; sending it is then the
  promise's step.

Only model-checked:

- Everything under fairness (`EveryCallReturns`, `EveryRequestHandled`): TLAPS does not
  reason about `ENABLED` here.
- `CjsonList` (`LinksAgree`, `LooksUpFirst`, `ComparesValues`, `ImplementsItemLists`). Its
  walks and its comparison are recursive functions of two arguments, which tlapm does not
  take; the comparison recurs over pairs of items, and is a function at all only since items
  form trees. What an operation does to a list is a fact about the whole walk
  over `next`, before and after each of a dozen sequences of assignments.

## What is not modelled

- Lengths of texts and fixed text buffers, formatting, JSON syntax: data.
- `log_close`, `create_route`, `handle_root`: never reached.
- The time stamp of a record, taken before the mutex.
- `init_db`: one call at start, without which `main` returns.
- Memory that handlers and parser never free, except for the block per connection.
- What a process does that survives undefined behaviour, other than to go on: the text
  logged for a format without arguments, the bytes behind the array of the body.
- The rest of cJSON (vendored): minifying, references and constant names, the bytes of
  strings and numbers; and the saturation of an account number beyond 2^31 in its
  `valueint`, which would make two accounts one. libSQL and libjwt, which are not in
  the repository.

## Plan

Done: `AuthService` with `AuthPromise`, `Log`, `Server` with `Router`,
`RequestParser`, `Cjson`, `Service`, `Buffers`, `CjsonList` with `ItemLists`, and
`CjsonPrint`; and the theorems above. What could follow:

1. `CjsonList` with its walks as functions of one argument, and ghost sequences for the
   lists, as `CjsonProofs` has ghost places for items.
2. `AuthService` with account numbers as the database sees them, saturated.
