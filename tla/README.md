# A verification of the salon server in TLA+

The repository is the web server of a beauty salon: a booking calendar, a small
shop, users and sessions, artists with their weekly schedules, all kept in
PostgreSQL. It runs on the HTTP framework *expresso* with the thread pool
*nexus*, the JSON library, the zip writer *zippuccino* and a few helper
libraries, all in this repository. Requests are run by a pool of threads, each
request is a sequence of SQL statements, and nearly every handler lets each
statement commit on its own. What can go wrong is therefore mostly what other
requests do between two statements; that is what these modules model.

The modules parse with SANY, their small instances are checked with TLC, and the
modules `*Proofs.tla` hold theorems about every instance, checked by TLAPS.
`PROJECT.json` maps every definition to the lines it models, lists the runs, the
faulty variants of definitions (`...Bug`) that each property is seen to notice,
the hazards of the code and the theorems.

## 1. Inventory

Paths are relative to `src/`.

### Booking (`back/services/booking_service.cpp`, `back/routes/booking_routes.cpp`)
- State: the tables `bookings` and `resources` and the id sequence.
- Operations: `POST /api/bookings` (field checks, `isFree`, `addBooking`),
  `PUT` (`updateBooking`, any field, no check against other rows), `DELETE`,
  `GET /api/availability` (`getEffectiveHours`, `getAvailableTimeSlots`), the
  listing of the administrator.
- Interactions: the session check is made inline by the handler; every repository
  call takes its own connection from `PgPool`; the schema cascades the deletion
  of a resource to its bookings.
- Hard: `isFree` and `INSERT` are two transactions; ranges are compared as local
  time strings by `isValidDateTime` and as instants by PostgreSQL; a row whose
  start is after its end makes `tstzrange` raise for everybody; a `PUT` of a date
  with only a start or only an end leaves a booking that runs over midnight, which
  the availability list, made date by date, knows nothing of.
- Correct when: confirmed bookings of one resource do not overlap; a request that
  fails leaves the calendar usable for the next one.

### Cart and products (`back/services/cart_service.cpp`, `back/services/product_services.cpp`)
- State: `products` with stock and price, `carts`, `cart_items`, `orders`,
  `order_items`; during `checkout` a transaction with its row locks.
- Operations: `addToCart`, `updateQuantity`, `removeItem`, `getCart`, `checkout`;
  add, update and delete a product. The routes of the cart are compiled
  (`back/routes/cart_routes.cpp`), but `back/start_server.cpp` registers none of
  them: the service is finished code that is waiting for its routes.
- Hard: `checkout` is one READ COMMITTED transaction, whose statements each see a
  snapshot of their own; `FOR UPDATE` locks rows but keeps no new row out;
  products are locked one after the other and deadlock is possible;
  `addToCart` compares a stock and a quantity read by two statements and writes
  in a third; an administrator edits prices and stock meanwhile, to any
  integer, since neither the handler nor the schema keeps one above zero.
- Correct when: nothing is oversold; an order charges what it lists; no cart is
  ordered twice; ordered products do not vanish; every request is answered.

### PgPool (`back/db/pg_pool.cpp`)
- State: the queue of available connections, the mutex and condition variable,
  the guards (`PgConnGuard`) on the stacks of the threads.
- Operations: `acquire`, `release`, through the constructor and the destructor of
  a guard.
- Hard: `release` notifies after it has left the mutex; a wait may return
  spuriously; a thread may hold a guard while it asks for a second one.
- Correct when: a connection is never lost or handed out twice; no thread sleeps
  while a connection is free and nobody is about to take it; threads never all
  wait for each other.

### PgConnection, PgResult (`back/db/pgconnect.cpp`, `back/db/postgres.cpp`)
- A wrapper of libpq. A statement that fails raises; nothing reconnects a
  connection whose server went away.

### Schedule, salon services, resources (`back/services/schedule_service.cpp`, `salon_service.cpp`, `resource_service.cpp`)
- State: `working_hours`, `schedule_overrides`, `services`, `resource_services`,
  `resources`.
- Operations: replace the week of a resource, put and delete an override, replace
  the services of a resource, and the usual create, update, delete.
- Hard: replacements are a `DELETE` followed by `INSERT`s, each committed on its
  own; readers of the availability run in between, and two replacements can
  interleave; an `INSERT` that raises leaves a partial week.
- Correct when: what is stored is one of the schedules somebody asked for.

### Users and sessions (`back/services/user_repository.cpp`, `session_repository.cpp`, `back/routes/auth_routes.cpp`, `src/middleware/*auth*.cpp`)
- State: `users`, `sessions` with their expiry.
- Operations: register, login, logout, me, delete user; the middlewares of the
  protected and admin routers look the session up.
- Hard: each is two to four statements; login and deletion, logout and login,
  check and use of a session interleave; the clock moves on.
- Correct when: after a logout its session does not resolve; a session belongs to
  one user, who exists; a handler acts for a session that had not ended when the
  request arrived; a handler of the admin router runs for an administrator.

### Server and nexus (`src/core/server.cpp`, `lib/nexus`)
- State: the queue of tasks, its mutex and condition variable, the sockets.
- Operations: `accept` and `enqueue` in the main thread, `handleConnection` in
  the workers (receive, parse, dispatch, answer, close), the destructor.
- Hard: wakeups against workers going to sleep; `logger::error` with two
  arguments throws, so the lines after it in `handleConnection` never run; the
  query parser of `makeRequest` does not advance past a query without `=`;
  receiving stops at the end of the headers, so that a body may be cut off
  anywhere (`contentLength` is computed and never used). A body is JSON, a plain
  text, an urlencoded or a multipart form by its content type, and only the JSON
  parser can tell that a part is missing.
- Correct when: every accepted connection is handled once, answered once and
  closed, and a handler acts on the body its client sent.

### Response, static files and ranges (`src/messages/response.cpp`, `src/middleware/static_serve.cpp`, `src/helpers/response.cpp`)
- State of a response: `hasEnded`, headers, message, what was sent.
- Hard: `sendFile` sends without setting `hasEnded`; ranges at the limits of the
  file; a client that goes away in the middle of a body; a path is URL-decoded,
  appended to the root, and left to the file system to resolve, with what `..` and
  an absolute path mean there.
- Correct when: one request gets one response whose length is the one announced.

### Router and middlewares (`src/core/router.cpp`, `src/middleware/*.cpp`)
- State: the route tables, filled before the server listens and read only after.
  A function from request to handler, but for the statements of `AdminMiddleware`,
  which may raise, and the cookie parser, which reads past the end of a vector when
  a cookie has no `=`.
- Hard: routers are mounted in routers, each strips its prefix and the slashes
  after it; middlewares guard the router they were given to and nothing else.
- Correct when: a request is answered by what was registered for its whole path,
  and an admin handler answers administrators only, wherever the slashes are.
  (`options("/*")` registers the literal path `*`: the handlers meant for preflight
  requests are reached by nobody who does not ask for that name.)

### Libraries
- `lib/json`: an index-based parser that runs on whatever was received. A string
  without an end is read past the text until the memory is full; a number beyond
  `long long` ends the process, because `parseNumber` is `noexcept`. Correct when
  it ends on every text whose strings end, and `loads` undoes `dumps`.
- `lib/zippuccino`: the zip writer, correct when offsets, sizes and the number of
  entries agree with what is sent, and a CRC table that concurrent requests initialise
  lazily without a lock, correct when equal files have equal checksums.
- `lib/brewtils`: strings, URLs, files (what `split`, `trim` and `url::decode` do to a
  form, and `decode` and the path functions to a path, is modelled with their callers),
  UUIDs drawn from one unsynchronised generator; `lib/logger`; `lib/mochios`, an HTTP client the server does not use.
- `back/crypt`: password hashing, numerical code without state.

### Front ends and deployment (`front/`, `docker/`)
- Pages, styles and container scripts. `docker/init.sql` is the schema the
  modules above take their tables from. (Its table `users` misses a comma after
  `password_hash`; the modules read the schema as if the comma were there.)

## 2. How the modules are organised

| Module | Models | State | Actions |
|---|---|---|---|
| `Booking` | the bookings table, `POST`, `PUT`, `DELETE`, deletion of a resource | `resources`, `bookings`, `lastId` (the SERIAL), `job[w]` (the POST a thread runs) | `Accept`, `CheckFree`, `Refuse`, `AddBooking`, `StatementRaises`, `UpdateBooking`, `DeleteBooking`, `DeleteResource` |
| `Calendar` | what a calendar promises: at most `Capacity` reservations at any moment of a resource | `reserved` | `Reserve`, `Release` |
| `Cart` | `CartService` and `ProductRepository` over PostgreSQL's row locks | `catalog`, `stock`, `price`, `items`, `orders`, `job[w]` (request and transaction of a thread) | one per statement of `addToCart`, `updateQuantity`, `removeItem`, `checkout`, `updateProduct`, `deleteProduct`; `StatementRaises`, `DeadlockDetected` |
| `PgPool` | `acquire` and `release` with mutex and condition variable | `available` (the queue), `held[t]` (guards), `pc[t]` | `Call`, `Acquire`, `Release`, `Notify`, `SpuriousWakeup` |
| `ConnPool` | what a pool promises: a connection is free or held by one thread | `free`, `held` | `Take`, `Give` |
| `Nexus` | `nexus::pool`: constructor, `enqueue`, the workers' loop, destructor | `tasks` (the queue), `isRunning`, `worker[w]`, `task[w]`, `caller` (where the owner of the pool is) | `Enqueue`, `NotifyOne`, `Stop`, `NotifyAll`, `Join`; `Take`, `Sleep`, `Exit`, `Finish`, `SpuriousWakeup` |
| `Jobs` | what a task queue promises: tasks start in order, once, and end | `submitted`, `started`, `running` | `Submit`, `Start`, `End` |
| `Server` | the accept loop and `handleConnection` on `Nexus`, with the `Response` it answers with | the state of `Nexus`; `open` and `socket[c]` (descriptors), `sent[c]`, `peer[c]`, `at[w]`, `hasEnded[w]`, `up` | `Accept`, `AcceptFails`, `Vanish`; `Receive`, `Hangup`, `ParseLoops`, `Raise`, `Answer`, `SendFile`, `End`, `Close` |
| `Availability` | `getAvailableTimeSlots`, date by date, on the tables of `Booking` | | operators `OfDay`, `Slots`, `ShownFree` |
| `Sessions` | registration, login, logout, the session middlewares, users | `users`, `lastUser`, `sessions`, `lastToken` (what the generator has returned), `job[w]` | one per statement: `Register`, `CheckPassword`, `Refuse`, `DeleteExpired`, `DrawToken`, `CreateSession`, `Resolve`, `Unresolved`, `DeleteSessions`, `IsAdmin`, `Act`, `UpdateUser`, `AdminRemoveUser`, `RemoveUser`, `Expire`, `StatementRaises` |
| `Salon` | weeks, exceptions, artists and the services they offer | `resources`, `services`, `offers`, `hours`, `overrides`, `job[w]` | one per statement: `ClearWeek`, `InsertDay`, `WeekSaved`, `ClearOffers`, `InsertOffer`, `OffersSaved`, `ReadOverride`, `ReadWeek`, `SetOverride`, `DeleteOverride`, `DeleteService`, `DeleteResource`, `StatementRaises` |
| `WeekRegister` | what a saved week promises: it is one of the weeks asked for, or known to be unsettled | `week` | `Begin`, `Settle`, `Clear` |
| `Router` | `handleRequest` over the routers, routes and middlewares of `start_server.cpp`; paths decoded and resolved by `Files` | a request on its way, as a record | function `HandleRequest` |
| `Json` | the parser, one turn of a loop at a time, and `dumps` | a parser, as a record | functions `Step`, `Turns`, `Loads`, `Dumps` |
| `FormData` | `makeRequest` on a text, an urlencoded or a multipart form | | operators `Beginnings` (what may have arrived), `FormFields`, `PartFields`, `ReadAs`, `Overruns` |
| `Files` | the file system: contents, directories, where a path leads | | functions `Follow`, `Walk` |
| `Zipper` | the zip writer | a zipper, as a record | functions `GetHeader`, `NextFile`, `GetSize`, `Count`, ... |
| `Wire` | a request from its bytes to its answer's bytes, on `Json`, `FormData`, `Router`, `Zipper` | `table` and `initialized` (the CRC table), `job[w]` (parser, route, zipper, what was sent), `up` | `Receive`, `Parse`, `Exhaust`, `ReadForm`, `Route`, `AdminMiddlewareRaises`, `Handle`; `Stat`, `CheckInitialized`, `SetInitialized`, `Fill`, `Sum`, `SendHeaders`, `SendBody`; `AddPath`, `StartZip`, `SendEntry`, `SendContent`, `SendFooter`, `SendLast` |
| `BookingProofs`, `CartProofs`, `PgPoolProofs`, `NexusProofs`, `ServerProofs`, `SessionsProofs`, `SalonProofs`, `WireProofs` | the theorems | | |
| `MCBooking`, `MCCart`, `MCPgPool`, `MCNexus`, `MCServer`, `MCSessions`, `MCSalon`, `MCWire` | the instances for TLC | | |

`Booking` implements `Calendar` (`ImplementsCalendar`, with the refinement
mapping `Held`), `PgPool` implements `ConnPool` (`ImplementsConnPool`, with
`Queued`), `Nexus` implements `Jobs` (`ImplementsJobs`), `Salon` implements
`WeekRegister` (`ImplementsWeekRegister`). `Server` is composed with
`Nexus`: it takes the pool's variables as its own and its steps are the pool's
steps (`Pool!Enqueue`, `Pool!Take`, `Pool!Finish`) together with what the
connection does. `Booking` and `Cart` touch disjoint tables and do not interact; both
use a pool of connections only as a resource, which is why the pool is a module
of its own, and why `StatementRaises` stands in both for whatever a connection
may do wrong. `Sessions` and `Salon` are the other tables, with the same reading of
a statement. `Wire` composes the libraries between socket and handler: `Server` knows of
a request only what becomes of it, `Wire` how its body, path and answer are made.

### Reading the models against the code
- **One action is one SQL statement**, or one critical section of a mutex. Outside
  `checkout` every statement is its own transaction: PostgreSQL runs each on a
  snapshot and commits it before `exec_params` returns.
- **Threads are workers of nexus**: a thread handles one request at a time, from
  its first statement to its answer; `job[w]` is what the handler keeps in local
  variables from one statement to the next.
- A request refused before its first statement (400, 401), or whose first
  statement already refuses it, changes nothing anywhere and is no step.
- **Times** in `Booking` are local timestamps, the date of a request with its start
  or its end; `Instant` is what PostgreSQL makes of them at the offset of that moment.
  `start < end` is checked on the former (`isValidDateTime` compares strings), ranges
  are built from the latter; on the day the clocks go forward the order can differ. An
  empty range overlaps nothing, a reversed one raises. A `PUT` sets the start and the
  end each on its own (`Edited`), on whatever date it names, so that a row may begin
  on one date and end on another; `Availability` turns instants back by `Local` and
  selects rows by the date of their start, as the query does.
- `seen` and `moved` in a row of `Booking` are history variables: which ids the
  query of that request could see, and whether a PUT has since moved or confirmed
  the row. No guard reads them.
- **Row locks** in `Cart`: `RowLocked` and `ProductLocked` are derived from what
  the transactions have read `FOR UPDATE` or deleted. A statement that needs a
  locked row is disabled until the lock is gone. The rows of a cart are locked in
  one step although the `SELECT` visits them one after the other: another holder
  of any of them is a transaction that will end, and whoever waits holds no
  product yet. Inserting a cart row takes a `KEY SHARE` lock on the product,
  which is why `PutItem` waits for a product a checkout holds, and why a product
  not yet locked can still slip into the cart (`cart_phantom`).
- The total of an order is kept as its summands by product, so that a property
  can tell which line was charged what; nothing in the code depends on the sum.
- Whether the row of `carts` exists is left out: every operation answers alike for
  a missing cart and an empty one. `addProduct` only adds rows with new ids, and
  is left out as well; `Products` are the ids of the run.
- **Critical sections** of `PgPool` and `Nexus` are one action each; what the code
  does after it released the mutex (`notify_one`, `notify_all`) is another.
- **Sockets** in `Server`: a task captures the number of a descriptor, and `accept`
  returns the lowest free number, so that a number is handed out again as soon as
  it is closed. `Receive` abstracts the text of the request to what becomes of it:
  `Answer` (a handler, a refusing middleware, an unknown path, or the destructor of
  the response for a handler that says nothing), `SendFile`, `Raise` (the request
  cannot be parsed, or a handler raises), `ParseLoops` (a query without `=`).
  A raised request is never answered and its socket is never closed, because
  `logger::error` with two arguments throws inside the catch block; `raised` is the
  history of these. The server never destroys its pool: it ends with its process,
  so that `Stop`, `NotifyAll`, `Join` and `Exit` are steps of `Nexus` alone.
- **Sessions**: a token is a number, and `DrawToken` returns a new one or, because the
  generator is shared without a lock, one that an overlapping call returned
  (`peers`). `before` is the set of sessions that had ended when the request
  arrived, `issued`, `ended` and `redrawn` are histories. `Act` is the handler of a
  protected or admin route; what it does to other tables is in the other modules.
- **Salon**: a body of `PUT /api/admin/schedule` is a sequence of entries that may
  name a day twice; the second `INSERT` then raises on the primary key. `alone` is
  history: no other replacement of the same rows, and no deletion of the artist,
  came between this one's `DELETE` and now. `torn` collects the artists whose week a
  request left unfinished, `seen` what a reader of a date could have been told.
- **Json**: a text is a sequence of lexemes; white space, letters and number
  characters come as runs, quotes, backslashes and brackets one by one, because it
  is their order the parser can trip over. `looping` and `terminated` are what the
  code does to its process with a string that has no end and a number that has no
  room; `Exhaust` tells a key (`std::bad_alloc` is caught as any exception) from a value
  (`parseString` is `noexcept`).
- **Forms**: a lexeme of `FormData` may also be a mark of a form. Where a name or a part
  has nothing after its mark, the code takes element 1 of a vector of one element:
  what it reads there is any of `Leftovers`, or the process ends (`Overruns`).
- **Paths**: an escape stands in a part of a path and may hold slashes once decoded
  (`Escapes`). `Available` walks the parts from `STATIC_ROOT` as the file system does:
  an empty first part makes the rest absolute, `..` leads up. A cookie without `=`
  (`broken`) either ends the process or is read as if some value stood there.
- **Wire**: `Receive` takes any beginning of the body, since it is read no further than the
  headers, and may leave a part of its last lexeme (`Torn`): a number with fewer
  digits, another keyword, a shorter word. A catalog's `POST` and `PUT` store the fields their repository converts, and
  the list a later `GET` would send is dumped and read back by the client's parser;
  what PostgreSQL may refuse is the other branch of `Handle`. A file is a
  sequence of byte values, a checksum the sequence of table entries looked up for
  them, an ETag that checksum. `sendFiles` has no caller in `start_server.cpp`; the
  instance adds a route for it (`Extra`), as a user of the framework would. `addFile`
  raises in the middle of the list when a path is missing, so the paths are added one
  by one; an empty directory adds nothing. Files do not change while the server runs, and
  links are followed already.
- The stock an administrator saves is an absolute number from a form
  (`UpdateProduct`), whatever was sold since the form was filled in.

## 3. The runs

| Run | Configuration | Asks | Answer |
|---|---|---|---|
| `booking` | `MCBooking.cfg` | `OverlapOnlyFromRaces`, `OnlyEditsPoison`, `SlotsAgreeWithIsFree`, `ImplementsCalendar` | pass |
| `booking_race` | `MCBookingRace.cfg` | `NoDoubleBooking` | violated |
| `cart` | `MCCart.cfg` | `NothingOversold`, `TotalCoversLines`, `OrderedProductsExist`, `OrderTakesCart`, `AddStaysWithinStock` | pass |
| `cart_live` | `MCCartLive.cfg` | `RequestsFinish` | pass |
| `cart_phantom` | `MCCartPhantom.cfg` | `TotalIsSumOfLines` | violated |
| `pool` | `MCPgPool.cfg` | `NoLostWakeup`, `NotAllWaiting`, `WaitsOnlyForHolders`, `ImplementsConnPool`, `SleepersGetConnections` | pass |
| `pool_nested` | `MCPgPoolNested.cfg` | `NotAllWaiting` | violated |
| `nexus` | `MCNexus.cfg` | `NoLostWakeup`, `DrainedWhenDestroyed`, `ImplementsJobs`, `TasksStart`, `DestructorReturns` | pass |
| `server` | `MCServer.cfg` | `DescriptorsAccounted`, `OneAnswer`, `ClosedMeansAnswered`, `QueueMoves` | pass |
| `sessions` | `MCSessions.cfg` | `ActsOnLiveOrJustEnded`, `TokensSpeakForOneUser`, `SessionsAreOwned`, `AdminsAreAppointed`, `LogoutEndsItsSession` | pass |
| `salon` | `MCSalon.cfg` | `NoOrphans`, `ReplacedExactly`, `HoursWereInForce`, `ImplementsWeekRegister` | pass |
| `wire` | `MCWire.cfg` | `AnsweredAsRegistered`, `HandlersGetTheBody`, `ReadsWhatItWrites`, `LengthMatchesBody`, `EtagsSettle`, `ArchiveOpens`, `ParserStops` | pass |

The type invariants `TypeOK` are theorems (section 4) and not run again.

**Booking.** Confirmed bookings overlap only when a PUT put one of them there, or
when the `isFree` query of each request ran before the other's `INSERT`
(`OverlapOnlyFromRaces`): there is no third way, not by failing statements, ids
burnt by a failed foreign key, deletions, or the change of the clocks. A POST
never leaves a row that poisons later `isFree` calls (`OnlyEditsPoison`): the
string comparison alone would, on the day the clocks go forward, but the same
`tstzrange` that would be poisoned guards the `INSERT`. A slot the availability list
shows as free is one `isFree` accepts, and one shown taken is refused
(`SlotsAgreeWithIsFree`), with four exceptions the property names: clock times
the day does not have, rows a PUT left empty or reversed, bookings that end at
24:00, which `to_char` prints as 00:00 so that the list shows what they cover as
free, and bookings that run over midnight, which a PUT of a date with only a start
or only an end leaves: the date they begin on lists other hours for them, and the
next date shows free what `isFree` refuses. With *n* threads no moment
is taken more than *n* times (`ImplementsCalendar`). The exact calendar, which a
reader of `booking_service.h` ("must be wrapped in service transaction") expects,
is violated by two POSTs (`booking_race`).

**Cart.** No interleaving of two checkouts, an administrator and a failing
statement oversells: a `COMMIT` leaves no product it takes from below zero, whatever
stock is saved meanwhile (`NothingOversold`). The stock itself may be below zero, since
an administrator can save it so (`product_services.cpp:55-66`, no `CHECK` in
`init.sql:32`); `checkout` then refuses. The price charged is the price of the
lock (`TotalCoversLines`); an order takes out of the cart exactly what the cart
held when it committed (`OrderTakesCart`); what an order or a running checkout
names stays in the catalog, so that the "no longer exists" answer of `checkout` is
dead code (`OrderedProductsExist`). Two checkouts that lock two products in
opposite orders deadlock, PostgreSQL makes one raise, and every request is
answered (`cart_live`). An addition exceeds the stock it read only when the cart
changed between its comparison and its `INSERT` (`AddStaysWithinStock`): two
additions of one user can do that, against the comment at `cart_service.cpp:64`.
A second comment does not hold either: a product put into the cart between the
snapshot and the `SUM` is charged without being listed (`cart_phantom`).

**Pool.** The queue under its mutex is the abstract pool, and notifying after the
mutex is left loses no wakeup. With one guard per request a thread waits only while
other threads hold all the connections (`WaitsOnlyForHolders`), so that with as many
connections as threads, as the server is set up, nobody ever waits; a sleeper and a
free connection do not stay together (`SleepersGetConnections`). But `addToCart` and `updateQuantity` nest a second guard, and then
every thread can hold one connection and wait for the next for ever
(`pool_nested`).

**Nexus.** The queue and its workers start tasks in the order of `enqueue`, each
once (`ImplementsJobs`), although notifications come after the mutex is released
(`NoLostWakeup`); every queued task is started (`TasksStart`), with or without a
shutdown; the destructor returns (`DestructorReturns`), and only when all work is
done (`DrainedWhenDestroyed`). The run may stop once the pool is destroyed, or when
nothing is queued and nobody enqueues: `CHECK_DEADLOCK FALSE`.

**Server.** Every open descriptor belongs to one connection, queued, in the hands
of a worker, or leaked by a request that raised (`DescriptorsAccounted`): no close
or write ever meets the descriptor of a later connection, and requests that raise
are the only leak. A connection carries one answer, or a file and an answer after
it, since `sendFile` does not record that the response has ended (`OneAnswer`); a
client that waits for its answer gets it before its connection is closed
(`ClosedMeansAnswered`). While one worker is not lost in the query loop every
accepted connection comes to its turn (`QueueMoves`). The run may stop: the process
dies when `accept` fails or a number of a body has no room, and every worker may be
lost.

**Sessions.** A handler acts for a session that is live, or that ended after the
request arrived (`ActsOnLiveOrJustEnded`); a token speaks for one user
(`TokensSpeakForOneUser`), unless the unsynchronised generator returned it twice,
and even then one row holds it; a login that overtakes the deletion of its user
leaves no session (`SessionsAreOwned`: the foreign key, not the order of statements,
sees to that); no sequence of requests makes an administrator
(`AdminsAreAppointed`); after a logout its cookie opens nothing, even when the
session expired or its user was removed between the two statements
(`LogoutEndsItsSession`).

**Salon.** A replacement of a week or of offers that no other one ran into has stored
exactly what was asked so far (`ReplacedExactly`), and outside replacements that were
disturbed or failed the week is one somebody saved (`ImplementsWeekRegister`): a
body that names a day twice, a failing `INSERT` and a second administrator are the
ways to a week nobody asked for, and there is no other. Nothing is left of a deleted
artist or service, not even by a replacement that is under way (`NoOrphans`). The hours of a
date are read by two statements, and were in force together unless both the
exception and the week of that date changed in between (`HoursWereInForce`).

**Wire.** All methods and paths reach what was registered for them, and the admin
handlers only administrators (`AnsweredAsRegistered`). For a static path that is the file
its decoded path leads to from `STATIC_ROOT` in the file system, also where `..` or an
absolute path leads out of that directory; nothing in the code keeps it in. What else may
happen is that a statement of `AdminMiddleware` raises. Although any part of a JSON body
may be cut off, in the middle of a number too, no handler is given another string,
array or map than the whole body holds (`HandlersGetTheBody`): every other text cut short is
refused, hangs its worker or ends the process, but for a bare number or keyword, in which
no handler finds a field. Texts and forms are handed over as they were cut, so that
`name=Alice` may be stored as `name=Ali`: the property is about JSON, because it is
false of the rest. The parser stops on every text that closes its strings (`ParserStops`),
and what a catalog stores from JSON comes back with its escapes (`ReadsWhatItWrites`). From a
form a raw quote or backslash is stored, `dumps` does not escape it, and the list that holds
it cannot be read; without these characters what a form stores comes back as well. A
file is sent to its last byte, and with as many bytes as announced unless the request named
an earlier last byte: then the rest of the file follows all the same
(`LengthMatchesBody`). Two answers with one file have one ETag, unless a checksum began while
the table was being filled for the first time (`EtagsSettle`). An archive's offsets, sizes
and number of entries agree with the chunks sent (`ArchiveOpens`); this holds below 2^32 bytes
and 2^16 entries, here `Wide` and `Many`. The run may stop when all requests are answered or
the process has ended: `CHECK_DEADLOCK FALSE`.

### Bounds, and why they are enough
- `MCBooking`: two threads, because every race of `POST` is between two requests;
  one resource, because bookings of different resources meet nowhere (`Confirmed`
  selects by resource); two dates of six half hours and slots of an hour, the clocks
  going forward on the first; three requests: two that overlap and one that only the change of the clocks
  reverses; four edits: confirm, cancel, move the start alone to the second date (past
  the end), and move the end alone there (over midnight), so that both together move
  the booking; `MaxBookings` = 3 ids, so that a third booking meets two that
  overlap already.
- `MCCart`: two threads and two customers; one product with stock 2, quantities 1
  and 2, so that one checkout can exhaust what another compared; the administrator
  saves stocks and prices of -1 and 2; `MaxOrders` = 2. `MCCartLive`: two products, the least that
  deadlocks, and only the operations that hold or wait for locks.
- `MCPgPool`: four threads and two connections, so that two sleep while two hold.
- `MCNexus`: three workers and five tasks: one can be woken while another takes
  its task and a third is busy, and more is queued than workers can take.
- `MCServer`: two workers, so that one can be lost; two descriptors for three
  connections, so that a number is reused while the other is in use or leaked.
- `MCSessions`: two threads, a founder who is the administrator, two applicants
  of whom one has the administrator's phone as his email address (either opens a
  login), one edit; two users and two tokens, so that a repeated token, a deleted user
  and a second login all occur.
- `MCSalon`: three threads, so that two replacements and a reader, or two replacements of
  one table, interleave; one artist, because artists meet nowhere; three weeks (one
  with a day off, one on another day, one that names a day twice), two exceptions
  and one service.
- `MCWire`: every text of up to four lexemes and longer ones made by `dumps`, whole,
  with one lexeme missing, or cut off anywhere; forms with one field, two, the same name
  twice, and none, with quotes, backslashes and white space in them; every route and mount,
  paths with empty parts, escapes, `.` and `..`, absolute ones and ones through a file, one file
  outside the directories that are served; six methods, two origins and four cookies; ranges
  at, before and past the limits of a file of three bytes and of an empty one; downloads of
  every set of six paths, an empty directory and a missing one among them; `Chunk` = 2, so
  that a file takes two chunks; two workers for the checksum table.
- Threads are interchangeable in `MCBooking`, `MCSessions` and `MCSalon`, threads and
  customers in `MCCart`; the properties of these runs are all safety and name nobody, so
  that they use `SYMMETRY`.
- `MaxBookings`, `MaxOrders`, `MaxTasks`, `MaxUsers` and `MaxTokens` bound what would otherwise
  grow for ever; they sit in the guards of `AddBooking`, `Checkout`, `Enqueue`, `Register`
  and `DrawToken`. Nothing else is bounded: stocks and quantities are bounded by what
  requests may name, and requests of `Wire` by `Workloads`.

### Fairness
- `Cart`: a thread inside a request goes on (weak fairness of the statements that
  wait for nothing); a statement that waits for a lock gets it if the lock is free
  again and again (strong fairness: PostgreSQL queues waiters of a row lock);
  the deadlock detector runs (`DeadlockDetected`, after `deadlock_timeout`). No
  fairness makes a customer start anything, and none makes statements fail.
- `PgPool`: a thread inside `acquire` or `release` goes on (weak fairness), and a
  guard is destroyed in the end, since handlers end. A sleeping thread is woken
  only by `Notify`; spurious wakeups are allowed and never relied upon.
- `Nexus`: a worker that can step does, and the owner goes on after `enqueue` and in
  the destructor (weak fairness); every task ends. Nobody has to enqueue or to
  destroy the pool, and spurious wakeups are not relied upon.
- `Server`: as `Nexus`; a client sends its request or goes away in the end, since
  `recv` has no timeout and would wait for ever otherwise.
- `Wire`: a thread that parses goes on. Nothing else is assumed.

## 4. What is proved

Each proof follows the same line: an inductive invariant `IInv`, `Init => IInv`,
`IInv /\ [Next]_vars => IInv'` with one step per action, and the properties from
it. The assumptions on constants are the named `ASSUME`s of the modules; nothing
else is assumed, except where a theorem states it.

- `BookingProofs` (any number of threads, resources, requests, and *any* map from
  local times to instants): `TypeCorrect`; `RacesOnly`
  (`Spec => []OverlapOnlyFromRaces`); `PoisonOnlyFromEdits`; `Implements`
  (`Spec => ImplementsCalendar` for finitely many threads);
  `OneThreadNoDoubleBooking`; and `ShownAsFound` (`Spec => []SlotsAgreeWithIsFree`, for
  any dates and bookings over any number of them, if the clocks, where they are changed, go
  forward (`ClocksGoForward`), as `MCBooking` assumes of its dates). The invariant adds that no id in use, or seen by a query, is above `lastId`, and that a
  thread past `isFree` holds a range that `tstzrange` accepts and that overlaps none of
  the confirmed, unmoved rows its query saw. For `Implements` it also has a map from rows to the
  threads that made them (`ThreadsMadeRows`): a thread's later queries see its earlier rows,
  so rows that do not see each other are of different threads, and bookings that cover
  one moment are such rows.
- `CartProofs` (any customers and products, any integers as stocks and prices):
  `TypeCorrect`, `NoOverselling` (`Spec => NothingOversold`), `TotalsCoverLines`, `NoProductDeletedUnderOrder`,
  `NothingOrderedTwice`, `AdditionsStayWithinStock`. The invariant relates each transaction to the tables:
  the cart rows it locked are still what it read, the products it locked are
  locked by nobody else and in stock for what it will take, their prices are the
  ones it paid, and what it deletes covers its lines; two running checkouts are of two different
  carts and hold no product in common.
- `PgPoolProofs` (any number of threads and connections): `TypeCorrect`;
  `Implements` (`Spec => ImplementsConnPool`); `WakeupsArrive`
  (`Spec => []NoLostWakeup`); `NobodyWaitsForNothing`
  (`Spec => []WaitsOnlyForHolders`) and `OneGuardNeverBlocks` (for `MaxHeld = 1` and at
  least one connection, `[]NotAllWaiting`); `SizedPoolNeverWaits`, for `MaxHeld = 1` and at
  least as many connections as threads. The invariant says that every connection
  is in the queue once or in one thread's hands, and that a thread about to take
  one has room; `NoLostWakeup` is inductive given the types, by counting the
  threads that are awake inside the pool; the last is a pigeonhole argument: were
  the queue empty, every connection would be with another thread.
- `NexusProofs` (any number of workers): `TypeCorrect`; `Implements`
  (`Spec => ImplementsJobs`); `WakeupKept` (`Spec => []NoLostWakeup`); `Drained`, if
  there is a worker at all (`hardware_concurrency()` may be 0, and then the
  destructor leaves the queue as it is). The invariant says that the queue holds
  the last tasks enqueued in order, that busy workers have tasks of their own, all
  older than the queue, and that a worker has left only when the pool was stopped
  and the queue empty. `NoLostWakeup` is proved on top of it, by counting the
  workers on their way to the queue.

- `ServerProofs` (any number of workers, descriptors and connections): `TypeCorrect`,
  `DescriptorsOfOneTask`, `OneResponse`, `AnsweredBeforeClosed`. The invariant is
  that of the pool (the queue holds the last connections accepted, busy workers
  have connections of their own), that a worker's place in `handleConnection` and its
  `hasEnded` say what its connection has been sent so far, that descriptors of live
  or leaked connections are open and distinct, and that a connection past its
  close was answered if its client waited.
- `SessionsProofs` (any users, tokens, threads and requests): `TypeCorrect`, `ActsInTime`,
  `OneUserPerToken`, `NoSessionWithoutUser`, `OnlyAppointedAdmins`, `LoggedOut`. The
  invariant adds that every stored session was issued to its user; that a token issued to
  two users, or live after its session has ended, or held by two logins that are
  about to store it, was drawn twice; that a request past its check holds a user its
  token was issued to; and that administrators in the table are founders.
- `SalonProofs` (any artists, weeks, dates and threads): `TypeCorrect`, `NothingOrphaned`,
  `UndisturbedReplacement`, `Implements` (`Spec => ImplementsWeekRegister`), `HoursInForce`.
  The invariant says that an undisturbed replacement has stored its first `done`
  entries and nothing else, that of two replacements past their `DELETE` of one
  artist's rows neither counts as undisturbed, that an artist whose week is being replaced is
  torn, and, for readers, that what a `SELECT` returned has been among
  the answers in force since, unless one of the two tables has changed.

- `WireProofs` (any workers, requests, files, and byte tables):
  - `LoadsStops`: `loads` of any text ends with a value, with an error, or in a string or
    number that takes the process along; every turn that goes on takes a lexeme.
  - `TypeCorrect`.
  - `WholeBodies` (`Spec => []HandlersGetTheBody`). A turn on a part of a text that
    neither fails nor loops is the turn on the whole text (`PartStep`), unless it takes the
    lexeme that was cut. The parser of a body that has not stopped is therefore one that
    parsing the whole body goes through, or it took the cut lexeme last (`Cleft`,
    `BodyInv`): and then it can only fail, or end with that lexeme as the whole value.
  - `RoutedAsRegistered` (`Spec => []AnsweredAsRegistered`), for every request and every file
    system, if no route that another program registers is hidden by the static files
    (`NothingHidden(Extra)`; the tables of `start_server.cpp` are in the model, `MCWire`
    assumes it of its route). The invariant `RouteInv` says that a request on its way stands
    where its path leads (`Underneath`) and has passed the middlewares before that place, and
    that one with an answer has the registered one, or raised in `AdminMiddleware` (`Failed`).
  - `EtagsSettled`: a worker that fills the table has filled it up to its position, one
    that saw it full sums up the right entries, whatever others fill again.
  - `LengthKept`: what was written and what is left are the file from its start on, which is
    what the headers announce where no earlier last byte is named.
  - `ArchivesOpen`: the entries noted have the offsets of the names begun so far
    (`EntriesNoted`), their number is that of the names, every piece is where the directory will say (`PiecesNoted`), and the
    bytes written are the sizes of what was begun less what is left (`BytesNoted`).
  - `ReadsBack` (`Spec => []ReadsWhatItWrites`), for catalogs of any fields and texts, from
    JSON or from forms (`FormInv`: what a form gives a handler is a map of texts;
    `KeptClean`: a text without quotes and backslashes is read as it stands). Where a
    string ends depends on its own text only, wherever that text stands (`ClosesThere`,
    `EndAlike`), and every string the parser takes from a form it would take again
    (`StringsTurns`). What `dumps` writes of a list is laid out field by field
    (`ListLaidOut`); a few turns of the parser take each field (`FieldTurns`), so that after
    every field it has the map of the fields written before (`FieldsRead`), and comes in the
    end to the list (`ListRead`). The invariant `ReadInv` says that the parser of a reply is
    at one of those turns.

  Induction over a number of turns, of chunks or of entries goes by `NatRule`, proved from
  the least number of a set; that each recursive function of the model is well-defined, which
  is what allows its equation to be used, is a lemma of its own (`TurnsRecursion`,
  `TotalRecursion`, `SeparatedRecursion`).

Only model-checked:
- `RequestsFinish`, `SleepersGetConnections`, `TasksStart`, `DestructorReturns`, `QueueMoves`
  and `ParserStops`: liveness under fairness is out of the prover's reach.

Neither checked nor proved is that `Dumps` and `Loads` are inverse on values other than the
lists that handlers answer: `Dumps` is written for values that nest up to three deep.

## 5. Findings

1. `isFree` and `addBooking` run as two transactions, while
   `booking_service.h:37` says that the caller wraps them (`booking_race`).
2. `checkout`'s snapshot does not keep new rows out; its total may include a
   product the order does not list (`cart_phantom`).
3. `addToCart` and `updateQuantity` ask for a second connection while they hold
   one, and can block the whole server (`pool_nested`). None of this is reachable
   over HTTP while the cart's routes are not registered.

Met while modelling, and stated by the properties as exceptions or by their comments:
- a slot that ends at 24:00 is listed free, and so is, on the next date, what a booking
  over midnight takes there;
- an administrator may save a stock or a price below zero;
- the rest of a file follows a range request's last byte;
- a body cut off inside a string fills the memory; one that is a text or a form is
  stored as it was cut;
- a quote from a form is stored raw, and makes the lists that show it unreadable;
- a cookie, or a field of a form, without `=` makes the code read past the end of a vector;
- a static path is followed wherever it leads, out of `STATIC_ROOT` too;
- the number of entries of an archive is written in 16 bits;
- the preflight handlers are registered for the literal path `*`, so that a preflight of
  `/api/...` gets 404 or 401 although `start_server.cpp:164` calls them "CORS preflight
  (OPTIONS) handlers".

## 6. Plan

Done: every component with state is modelled, each has its invariants proved, and all safety
properties that the runs check are theorems. What is left, in this order:

1. That a text whose strings are closed never hangs `loads`, the safety part of
   `ParserStops`.
2. Connections in `PgPool` that break or keep a transaction open: they need a model
   of PostgreSQL's side of a connection.

## 7. Not modelled

- `getWeeklySchedule`, `getMonthOverrides`, `getCart` and the administrator's listings: one
  `SELECT` and a loop that formats it; `ScheduleRepository::getEffectiveHours`, which has
  no caller and repeats the one that is modelled.
- Links in the file system, and files that change while they are sent.
- libpq's calls, and connections whose server went away: every statement on them
  raises, which all modules allow at any time; nothing in the code notices.
- Header lines, status texts and redirects of a response, parameters in paths, `Cacher`,
  `Date` and `Version`: they decide nothing that is modelled.
- `json::object`'s comparison, copying and indentation, exponents and signs of numbers, and the
  narrowing of `operator int`.
- Password hashing (numerical, no state), the logger but for its throwing, environment
  files, `mochios` (an HTTP client the server does not use).
- The front ends and the container scripts.
