-------------------------------- MODULE Wire ---------------------------------
(***************************************************************************)
(* What happens to a request between its bytes and its answer's:           *)
(* makeRequest reads the body, the routers find who answers, a handler     *)
(* stores fields of the body and a list of them is read back, a static     *)
(* file is sent with the checksum that is its ETag, and sendFiles sends an *)
(* archive.  Two workers share the checksum table.                         *)
(***************************************************************************)
EXTENDS FormData, Router, Zipper

CONSTANTS
    Workers,    \* threads that handle a request each
    Workloads,  \* the requests they handle together, by worker
    Chunk       \* bytes read and sent at once

None == -1

\* The values of content-type: application/json, the two of plain texts, the two
\* of forms, and any other.
Types == {"json", "text", "form", "multipart", "other"}

Request == [method : STRING, path : Seq(STRING), origin : STRING,
            cookie : STRING, type : Types, body : Seq(STRING),
            range : [first : Nat \cup {None}, last : Nat \cup {None}],
            paths : SUBSET (Seq(STRING) \ {<<>>})]

\* Bytes are the indexes of the checksum table.
ASSUME WireAssumption ==
    /\ \E n \in Bytes : Bytes = 0 .. n
    /\ Chunk \in Nat \ {0}
    /\ \A load \in Workloads : \A w \in Workers : load[w] \in Request

VARIABLES
    up,             \* the process runs
    initialized,    \* the checksum table is said to be filled
    table,          \* entries of it that are
    job             \* job[w]: the request of worker w

vars == <<up, initialized, table, job>>

NoPaths == [n \in {} |-> <<>>]

\* The out of the parser is the body of the request, whoever read it.
\* pos counts the table entries filled, then the bytes of the file sent.  early:
\* the checksum was begun while entries were missing.  announced: the length in
\* the headers that were sent, if any.  sent: the pieces of the body written.
Fresh(req) == [step |-> IF req.method = "none" THEN "end" ELSE "receive",
               req |-> req, text |-> <<>>, parser |-> Begin,
               value |-> [lex |-> "undefined"], route |-> Depart(req),
               pos |-> 0, etag |-> <<>>, early |-> FALSE, failed |-> FALSE,
               announced |-> {}, sent |-> <<>>,
               toAdd |-> req.paths, zip |-> Started(NoPaths)]

Init == /\ up = TRUE
        /\ initialized = FALSE
        /\ table = {}
        /\ \E load \in Workloads : job = [w \in Workers |-> Fresh(load[w])]

At(w, step) == up /\ job[w].step = step
Put(w, j) == job' = [job EXCEPT ![w] = j]
Quiet == UNCHANGED <<up, initialized, table>>

-----------------------------------------------------------------------------
(* makeRequest                                                             *)

\* Who reads the body: the parser, the code of the forms, or nobody.
Reader(req) == CASE req.method \in {"GET", "HEAD"} \/ req.type = "other" -> "route"
                 [] req.method \notin {"GET", "HEAD"} /\ req.type = "json" -> "parse"
                 [] OTHER -> "form"

\* Receiving stops at the end of the headers: any part of the body may be there.
Receive(w) ==
    /\ At(w, "receive")
    /\ LET j == job[w]
       IN  \E t \in Beginnings(j.req.body) :
              Put(w, [j EXCEPT !.step = Reader(j.req), !.text = t])
    /\ Quiet

\* A text or a form, of which nobody asks whether it is whole.
ReadForm(w) ==
    /\ At(w, "form")
    /\ LET j == job[w]
       IN  \/ /\ \E v \in ReadAs(j.req.type, j.text) :
                    Put(w, [j EXCEPT !.step = "route", !.parser.out = v])
              /\ UNCHANGED up
           \/ /\ Overruns(j.req.type, j.text)
              /\ up' = FALSE
              /\ Put(w, j)
    /\ UNCHANGED <<initialized, table>>

Parsed(p, j, next) ==
    [j EXCEPT !.parser = p,
              !.step = CASE p.status = "done" -> next
                         [] p.status = "raised" -> "raised"
                         [] OTHER -> @]

\* The body, and the client's reading of the answer.
Parse(w) ==
    /\ At(w, "parse") \/ At(w, "reply")
    /\ job[w].parser.status = "parsing"
    /\ LET p == Step(job[w].text, job[w].parser)
       IN  /\ Put(w, Parsed(p, job[w], IF At(w, "parse") THEN "route" ELSE "end"))
           /\ up' = (At(w, "parse") => p.status # "terminated")
    /\ UNCHANGED <<initialized, table>>

\* A string without an end is read on until the memory is full.  For a key that
\* raises; for a value it ends the process, because parseString is noexcept.
Exhaust(w) ==
    /\ At(w, "parse")
    /\ job[w].parser.status = "looping"
    /\ LET p == job[w].parser
           isKey == p.at = "loop" /\ "obj" \in DOMAIN Head(p.open)
       IN  /\ Put(w, IF isKey THEN [job[w] EXCEPT !.step = "raised"] ELSE job[w])
           /\ up' = isKey
    /\ UNCHANGED <<initialized, table>>

-----------------------------------------------------------------------------
(* Routing, and the handlers that answer with JSON                         *)

NoHandler == {"forbidden", "refused", "missing"}

Route(w) ==
    /\ At(w, "route")
    /\ LET r == HandleRequest(job[w].route)
       IN  /\ Put(w, [job[w] EXCEPT
                        !.route = r,
                        !.step = CASE r.answer = "none" -> "route"
                                   [] r.answer \in {"raised", "terminated"} -> "raised"
                                   [] r.answer = "file" -> "stat"
                                   [] r.answer = "sendFiles" -> "add"
                                   [] r.answer \in NoHandler -> "end"
                                   [] OTHER -> "handler"])
           /\ up' = (r.answer # "terminated")
    /\ UNCHANGED <<initialized, table>>

\* PostgreSQL fails when AdminMiddleware asks for the session or for the user.
AdminMiddlewareRaises(w) ==
    /\ At(w, "route")
    /\ job[w].route.router = "admin"
    /\ job[w].route.session # "none"
    /\ Put(w, [job[w] EXCEPT !.step = "raised", !.route.answer = "raised"])
    /\ Quiet

\* The bodies of the three catalogs: the list a GET shows of it, the fields a
\* POST demands, and the type each field must have.
NewProduct == [list |-> "products", needs |-> {"name", "price", "stock"},
               type |-> [name |-> "string", price |-> "string", stock |-> "int",
                         description |-> "string", category |-> "string"]]
NewResource == [list |-> "resources", needs |-> {"name"},
                type |-> [name |-> "string"]]
NewService == [list |-> "services", needs |-> {"name"},
               type |-> [name |-> "string", duration |-> "string",
                         price |-> "string"]]

\* A PUT demands nothing; artists and services can be made inactive by it.
Changed(form) == [form EXCEPT !.needs = {}]
Switched(form) == [Changed(form) EXCEPT
                      !.type = [k \in DOMAIN @ \cup {"active"} |-> "string"]]

Forms == [PostProductRoutes |-> NewProduct,
          PutProductRoutes |-> Changed(NewProduct),
          PostResourceRoute |-> NewResource,
          PutResourceRoute |-> Switched(NewResource),
          PostSalonServiceRoute |-> NewService,
          PutSalonServiceRoute |-> Switched(NewService)]

Given(form, body) == {k \in DOMAIN form.type : HasField(body, <<k>>)}

\* 400 when a field is missing, 500 when the body is no map or a field does not
\* convert: nothing is stored.
Stored(form, body) ==
    /\ IsMap(body)
    /\ form.needs \subseteq Given(form, body)
    /\ \A k \in Given(form, body) : Converts(body.obj[<<k>>], form.type[k])

\* The COALESCE of an UPDATE passes over empty strings.  active is a flag to
\* PostgreSQL, which no GET shows as the string it came as.
Kept(form, body) ==
    {k \in Given(form, body) \ {"active"} :
        form.needs = {} => body.obj[<<k>>] # [str |-> <<>>]}

\* A GET of the list shows the fields as they were stored.
Listing(form, body) ==
    LET row == Map([k \in {<<n>> : n \in Kept(form, body)} |-> body.obj[k]])
    IN  Map([k \in {<<form.list>>} |-> Array(<<row>>)])

\* The handler of a catalog stores what the body says, unless PostgreSQL refuses,
\* and what it stored is written by dumps for the next GET; the others answer a
\* fixed text.
Handle(w) ==
    /\ At(w, "handler")
    /\ LET j == job[w]
           body == j.parser.out
           form == Forms[j.route.answer]
           list == Listing(form, body)
       IN  \/ Put(w, [j EXCEPT !.step = "end"])
           \/ /\ j.route.answer \in DOMAIN Forms
              /\ Stored(form, body)
              /\ Put(w, [j EXCEPT !.step = "reply", !.value = list,
                                 !.text = Dumps(list), !.parser = Begin])
    /\ Quiet

-----------------------------------------------------------------------------
(* The checksum of a file                                                  *)

\* compute, and init once more, ask whether the table is there.
CheckInitialized(w) ==
    /\ At(w, "compute") \/ At(w, "init")
    /\ Put(w, [job[w] EXCEPT
                 !.step = CASE initialized -> "sum"
                            [] At(w, "compute") /\ ~ initialized -> "init"
                            [] OTHER -> "set",
                 !.early = initialized /\ table # Bytes])
    /\ Quiet

\* The table is cleared before it is filled.
SetInitializedBug(w) ==
    /\ At(w, "set")
    /\ initialized' = TRUE
    /\ table' = {}
    /\ Put(w, [job[w] EXCEPT !.step = "fill", !.pos = 0])
    /\ UNCHANGED up

\* The flag is set first.
SetInitialized(w) ==
    /\ At(w, "set")
    /\ initialized' = TRUE
    /\ Put(w, [job[w] EXCEPT !.step = "fill", !.pos = 0])
    /\ UNCHANGED <<up, table>>

Fill(w) ==
    /\ At(w, "fill")
    /\ LET i == job[w].pos
       IN  /\ table' = table \cup {i}
           /\ Put(w, [job[w] EXCEPT !.pos = i + 1,
                                    !.step = IF i + 1 \in Bytes THEN "fill" ELSE "sum"])
    /\ UNCHANGED <<up, initialized>>

\* What is looked up for a byte; an entry that is missing is 0.
Blank == -1

Sum(w) ==
    /\ At(w, "sum")
    /\ LET j == job[w]
           bytes == Contents[j.route.file]
           n == Len(j.etag) + 1
       IN  Put(w, IF n > Len(bytes) THEN [j EXCEPT !.step = "head"]
                  ELSE [j EXCEPT !.etag = Append(@, IF bytes[n] \in table
                                                    THEN bytes[n] ELSE Blank)])
    /\ Quiet

-----------------------------------------------------------------------------
(* sendFile                                                                *)

\* getRange: "bytes=first-last"; without a first byte the header is ignored.
GetRange(range) == IF range.first = None THEN [first |-> None, last |-> None]
                   ELSE range

\* The bytes from start to end, as sendFile announces them.
Slice(req, size) ==
    LET r == GetRange(req.range)
    IN  [start |-> IF r.first = None THEN 0 ELSE r.first,
         end |-> IF r.last = None THEN size - 1 ELSE r.last]

\* 416 when the range does not lie in the file.
Stat(w) ==
    /\ At(w, "stat")
    /\ LET j == job[w]
           r == GetRange(j.req.range)
           size == Size(j.route.file)
       IN  Put(w, [j EXCEPT !.step = IF r.first >= size \/ r.last >= size
                                     THEN "end" ELSE "compute"])
    /\ Quiet

\* Something is written, or the client is gone and no more is sent.
Write(w, next) ==
    \/ Put(w, next)
    \/ Put(w, [job[w] EXCEPT !.step = "end", !.failed = TRUE])

\* The length without its last byte.
SendHeadersBug(w) ==
    /\ At(w, "head")
    /\ LET s == Slice(job[w].req, Size(job[w].route.file))
       IN  Write(w, [job[w] EXCEPT !.step = "body", !.pos = s.start,
                                   !.announced = {s.end - s.start}])
    /\ Quiet

\* The headers announce the length.
SendHeaders(w) ==
    /\ At(w, "head")
    /\ LET s == Slice(job[w].req, Size(job[w].route.file))
       IN  Write(w, [job[w] EXCEPT !.step = "body", !.pos = s.start,
                                   !.announced = {s.end - s.start + 1}])
    /\ Quiet

\* The bytes of the body that were written.
SentSize(sent) == IF sent = <<>> THEN 0 ELSE Last(sent).from + Last(sent).size

\* A piece of the body, from where the last one ended.
Send(j, kind, size) ==
    [j EXCEPT !.sent = Append(@, [kind |-> kind, size |-> size,
                                  from |-> SentSize(@)])]

\* The next bytes of a file, Chunk at most, until there are none.
SendBytes(w, file, next) ==
    LET left == Size(file) - job[w].pos
        n == Min({left, Chunk})
    IN  IF left <= 0 THEN Put(w, next)
        ELSE Write(w, [Send(job[w], "data", n) EXCEPT !.pos = @ + n])

\* From start to the end of the file, whatever end is.
SendBody(w) ==
    /\ At(w, "body")
    /\ SendBytes(w, job[w].route.file, [job[w] EXCEPT !.step = "end"])
    /\ Quiet

-----------------------------------------------------------------------------
(* sendFiles                                                               *)

\* The paths of the request are added one by one.  An empty directory adds nothing;
\* a path that is not there raises.
AddPath(w) ==
    /\ At(w, "add")
    /\ \E p \in job[w].toAdd :
          Put(w, IF p \in DOMAIN Contents \cup Folders
                 THEN [job[w] EXCEPT !.toAdd = @ \ {p},
                                     !.zip.paths = Add(@, p)]
                 ELSE [job[w] EXCEPT !.step = "raised"])
    /\ Quiet

StartZip(w) ==
    /\ At(w, "add")
    /\ job[w].toAdd = {}
    /\ Put(w, [job[w] EXCEPT !.step = "zip", !.zip = Started(@.paths)])
    /\ Quiet

SendEntry(w) ==
    /\ At(w, "zip")
    /\ ~ IsFinished(job[w].zip)
    /\ LET z == job[w].zip
       IN  Write(w, [Send(job[w], "header", HeaderSize(z)) EXCEPT
                        !.step = "content", !.pos = 0, !.zip = GetHeader(z)])
    /\ Quiet

SendContent(w) ==
    /\ At(w, "content")
    /\ SendBytes(w, CurrentFile(job[w].zip),
                 [job[w] EXCEPT !.step = "zip", !.zip = NextFile(@)])
    /\ Quiet

SendFooter(w) ==
    /\ At(w, "zip")
    /\ IsFinished(job[w].zip)
    /\ Write(w, [Send(job[w], "footer", FooterSize(job[w].zip)) EXCEPT
                    !.step = "last"])
    /\ Quiet

\* The empty chunk that ends the transfer.
SendLast(w) ==
    /\ At(w, "last")
    /\ Write(w, [Send(job[w], "last", 0) EXCEPT !.step = "end"])
    /\ Quiet

-----------------------------------------------------------------------------
SendFile(w) == \/ Stat(w) \/ CheckInitialized(w) \/ SetInitialized(w)
               \/ Fill(w) \/ Sum(w) \/ SendHeaders(w) \/ SendBody(w)

SendFiles(w) == \/ AddPath(w) \/ StartZip(w) \/ SendEntry(w) \/ SendContent(w)
                \/ SendFooter(w) \/ SendLast(w)

Serve(w) == \/ Receive(w) \/ Parse(w) \/ Exhaust(w) \/ ReadForm(w) \/ Route(w)
            \/ AdminMiddlewareRaises(w) \/ Handle(w) \/ SendFile(w) \/ SendFiles(w)

Next == \E w \in Workers : Serve(w)

Spec == Init /\ [][Next]_vars

\* The thread that parses goes on.
FairSpec == Spec /\ \A w \in Workers : WF_vars(Parse(w))

-----------------------------------------------------------------------------
Steps == {"receive", "parse", "form", "route", "handler", "reply", "raised", "end",
          "stat", "compute", "init", "set", "fill", "sum", "head", "body",
          "add", "zip", "content", "last"}
FileSteps == {"stat", "compute", "init", "set", "fill", "sum", "head", "body"}
Routing == [method : STRING, origin : STRING, cookie : STRING,
            session : STRING \cup {"none"}, router : Routers, rest : Seq(STRING),
            file : Seq(STRING), answer : Unhandled \cup {t[4] : t \in Table}]
Sent == [kind : {"header", "data", "footer", "last"}, size : Nat, from : Nat]
Info == [name : Seq(STRING) \ {<<>>}, size : Nat, offset : Nat]

\* Names in an archive, and where what they name comes from.
PathsOK(paths) ==
    /\ paths = [n \in DOMAIN paths |-> paths[n]]
    /\ IsFiniteSet(DOMAIN paths)
    /\ \A n \in DOMAIN paths : /\ n \in Seq(STRING) \ {<<>>}
                               /\ paths[n] \in DOMAIN Contents

ZipOK(z) ==
    /\ DOMAIN z = {"paths", "todo", "infos", "offset"}
    /\ PathsOK(z.paths)
    /\ z.todo \in Seq(DOMAIN z.paths)
    /\ z.infos \in Seq(Info)
    /\ z.offset \in Nat

\* The parser of a body.  What it is given to read back may be anything.
ParserOK(j) ==
    /\ DOMAIN j.parser = DOMAIN Begin
    /\ j.value = [lex |-> "undefined"] => /\ j.text \in Seq(STRING)
                                          /\ j.parser.index \in Nat \ {0}

JobOK(j) ==
    /\ DOMAIN j = {"step", "req", "text", "parser", "value", "route", "pos",
                   "etag", "early", "failed", "announced", "sent", "toAdd", "zip"}
    /\ j.step \in Steps
    /\ j.req \in Request
    /\ ParserOK(j)
    /\ j.route \in Routing
    /\ j.route.answer = "file" => j.route.file \in DOMAIN Contents
    /\ j.step \in FileSteps => j.route.answer = "file"
    /\ j.pos \in Nat
    /\ j.step = "fill" => j.pos \in Bytes
    /\ j.etag \in Seq(Int)
    /\ j.early \in BOOLEAN /\ j.failed \in BOOLEAN
    /\ j.announced \subseteq Int
    /\ j.sent \in Seq(Sent)
    /\ j.toAdd \subseteq j.req.paths
    /\ ZipOK(j.zip)
    /\ j.step = "content" => j.zip.todo # <<>>

\* Every variable keeps the shape the classes of the request and its answer give
\* it, what is sent is a file that exists, and an archive is written from names
\* that were added.
TypeOK ==
    /\ up \in BOOLEAN /\ initialized \in BOOLEAN /\ table \subseteq Bytes
    /\ DOMAIN job = Workers
    /\ \A w \in Workers : JobOK(job[w])

\* Every request is answered by what start_server registered for its whole
\* path: by the page, the refusal, the handler or the 404, whichever routers it
\* goes through, unless a statement of AdminMiddleware raises on a path it
\* guards.  A path with empty parts may be answered more freely, but an admin
\* handler answers only admins, wherever the slashes are.
AnsweredAsRegistered ==
    \A w \in Workers :
        LET r == job[w].route
            req == job[w].req
        IN  r.answer # "none" =>
              /\ "" \notin Range(Normal(req.path)) =>
                    /\ \/ r.answer = Expected(req)
                       \/ /\ r.answer = "raised"
                          /\ IsPrefix(Prefix["admin"], Normal(req.path))
                          /\ req.cookie # "none"
                    /\ r.answer = "file" => r.file = Page(req)
              /\ r.answer \in {t[4] : t \in Table} =>
                    \E t \in Table : /\ t[2] = r.method /\ t[4] = r.answer
                                     /\ t[1] = "admin" => req.cookie = "admin"

\* A handler is never given another string, array or map than the whole JSON body
\* holds, although any part of the body may be all that was received.  A number
\* or a keyword that is the whole body may be cut into another one, in which no
\* handler finds a field.
HandlersGetTheBody ==
    \A w \in Workers :
        At(w, "handler") /\ Reader(job[w].req) = "parse" =>
            LET whole == Loads(job[w].req.body)
                body == job[w].parser.out
            IN  "lex" \notin DOMAIN body => whole.status = "done" /\ body = whole.out

\* No quote and no backslash stands in a field of the row that a list shows.
NothingToEscape(list) ==
    \A k \in DOMAIN list.obj : \A i \in DOMAIN list.obj[k].arr :
        LET row == list.obj[k].arr[i].obj
        IN  \A f \in DOMAIN row : "str" \in DOMAIN row[f] =>
                Range(row[f].str) \cap {"\"", "\\"} = {}

\* The strings an administrator stores come back, with all their escapes: what
\* dumps writes of a list that holds them, the parser reads as that list, in one
\* attempt.  A form may store a quote or a backslash as it is, and dumps does not
\* escape it: of such a row nothing is said.
ReadsWhatItWrites ==
    \A w \in Workers :
        LET j == job[w]
        IN  j.value # [lex |-> "undefined"]
              /\ (j.req.type = "json" \/ NothingToEscape(j.value)) =>
              \/ j.step = "reply" /\ j.parser.status = "parsing"
              \/ j.step = "end" /\ j.parser.out = j.value

\* The parser stops on every text that closes its strings, however its brackets,
\* commas and colons stand.
ParserStops ==
    \A w \in Workers :
        (At(w, "parse") /\ QuotesClosed(job[w].text)) ~> ~ At(w, "parse")

\* A file that is sent ends with its last byte, and comes with the number of bytes
\* that was announced unless the request named a last byte before it.
LengthMatchesBody ==
    \A w \in Workers :
        LET j == job[w]
            size == Size(j.route.file)
        IN  At(w, "end") /\ j.route.answer = "file" /\ ~ j.failed =>
              \A n \in j.announced :
                 /\ SentSize(j.sent) = size - Slice(j.req, size).start
                 /\ GetRange(j.req.range).last \in {None, size - 1} =>
                       SentSize(j.sent) = n

\* Two answers with one file carry one ETag, the checksum of the file, unless the
\* checksum was begun while another request was still filling the table: once
\* filled, the table serves every request, also those that fill it again.
EtagsSettle ==
    \A w \in Workers :
        job[w].step \in {"head", "body"} /\ ~ job[w].early =>
            job[w].etag = Contents[job[w].route.file]

\* An archive that was sent opens: the directory points at every entry and at
\* itself, the size is the one foretold, and no chunk before the last is empty,
\* which would end the transfer.  Offsets have 32 bits and the number of entries
\* has 16: smaller archives only.
ArchiveOpens ==
    \A w \in Workers :
        LET z == job[w].zip
            sent == job[w].sent
            entry(k) == Cardinality({i \in 1 .. k : sent[i].kind = "header"})
        IN  At(w, "end") /\ job[w].route.answer = "sendFiles"
              /\ ~ job[w].failed /\ GetSize(z.paths) < Wide
              /\ Cardinality(DOMAIN z.paths) < Many =>
              /\ SentSize(sent) = GetSize(z.paths)
              /\ Count(z) = Cardinality(DOMAIN z.paths)
              /\ Len(z.infos) = Count(z)
              /\ \A k \in 1 .. Len(sent) - 1 :
                    /\ sent[k].size > 0
                    /\ sent[k].kind = "header" =>
                          z.infos[entry(k)].offset = sent[k].from
                    /\ sent[k].kind = "footer" => z.offset = sent[k].from
=============================================================================
