------------------------------- MODULE Router --------------------------------
(***************************************************************************)
(* The routers start_server.cpp builds and Router::handleRequest, which    *)
(* runs the middlewares of one router, then its handler for the rest of    *)
(* the path, or hands what is left of the path to the router mounted       *)
(* there.  A path is the sequence of what stands between its slashes.      *)
(***************************************************************************)
EXTENDS Files, Integers, SequencesExt

CONSTANTS
    Extra,      \* routes of other programs on the same framework
    Root,       \* STATIC_ROOT, from the root of the file system on
    Escapes     \* the parts of a path that decode changes, and the parts they become

\* Router, method, path and handler of every get, post, put, del and options.
Table == Extra \cup
  {<<"api", "GET", <<"products">>, "GetProductRoutes">>,
   <<"admin", "POST", <<"products">>, "PostProductRoutes">>,
   <<"admin", "PUT", <<"products">>, "PutProductRoutes">>,
   <<"admin", "DELETE", <<"products">>, "DeleteProductRoutes">>,
   <<"api", "GET", <<"availability">>, "GetBookingRoutes">>,
   <<"api", "POST", <<"bookings">>, "PostBookingRoutes">>,
   <<"api", "POST", <<"auth", "register">>, "PostRegisterRoute">>,
   <<"api", "POST", <<"auth", "login">>, "PostLoginRoute">>,
   <<"api", "DELETE", <<"auth", "user">>, "DeleteUserRoute">>,
   <<"api", "GET", <<"auth", "me">>, "GetMeRoute">>,
   <<"api", "POST", <<"auth", "logout">>, "PostLogoutRoute">>,
   <<"api", "GET", <<"resources">>, "GetResourcesRoute">>,
   <<"api", "GET", <<"salon-services">>, "GetSalonServicesRoute">>,
   <<"admin", "GET", <<"bookings">>, "GetAllBookingsRoute">>,
   <<"admin", "PUT", <<"bookings">>, "PutBookingRoutes">>,
   <<"admin", "DELETE", <<"bookings">>, "DeleteBookingRoutes">>,
   <<"admin", "GET", <<"users">>, "GetUsersRoute">>,
   <<"admin", "PUT", <<"users">>, "PutUserRoute">>,
   <<"admin", "DELETE", <<"users">>, "DeleteUserRoute">>,
   <<"admin", "GET", <<"resources">>, "GetResourcesRoute">>,
   <<"admin", "POST", <<"resources">>, "PostResourceRoute">>,
   <<"admin", "PUT", <<"resources">>, "PutResourceRoute">>,
   <<"admin", "DELETE", <<"resources">>, "DeleteResourceRoute">>,
   <<"admin", "GET", <<"salon-services">>, "GetSalonServicesRoute">>,
   <<"admin", "POST", <<"salon-services">>, "PostSalonServiceRoute">>,
   <<"admin", "PUT", <<"salon-services">>, "PutSalonServiceRoute">>,
   <<"admin", "DELETE", <<"salon-services">>, "DeleteSalonServiceRoute">>,
   <<"admin", "PUT", <<"resource-services">>, "PutResourceServicesRoute">>,
   <<"admin", "GET", <<"schedule">>, "GetScheduleRoute">>,
   <<"admin", "PUT", <<"schedule">>, "PutScheduleRoute">>,
   <<"admin", "GET", <<"schedule-overrides">>, "GetScheduleOverridesRoute">>,
   <<"admin", "PUT", <<"schedule-overrides">>, "PutScheduleOverrideRoute">>,
   <<"admin", "DELETE", <<"schedule-overrides">>, "DeleteScheduleOverrideRoute">>,
   <<"api", "OPTIONS", <<"*">>, "optHandler">>,
   <<"admin", "OPTIONS", <<"*">>, "optHandler">>}

Routers == {"app", "api", "admin", "adminStatic", "front"}

\* What a request is answered with when no handler answers it.
Unhandled == {"none", "forbidden", "refused", "file", "raised", "missing",
              "terminated"}

ASSUME RouterAssumption ==
    \A t \in Extra : t \in Routers \X STRING \X Seq(STRING) \X (STRING \ Unhandled)

\* Router, first part of the path, router mounted there.
Mounts == {<<"app", "admin", "adminStatic">>, <<"app", "api", "api">>,
           <<"app", "front", "front">>, <<"api", "admin", "admin">>}

\* No route begins with the name under which another router is mounted on its
\* own: handlers are looked up first, so the middlewares of that other router would
\* not run for it.
NothingHidden(routes) ==
    \A t \in routes, m \in Mounts :
        m[1] = t[1] /\ t[3] # <<>> => Head(t[3]) # m[2]

\* In the order of the calls of use; Version, Date and Cacher only set headers.
Middlewares == [app |-> <<"Cors", "CookieParser", "front">>,
                api |-> <<>>,
                admin |-> <<"AdminMiddleware">>,
                adminStatic |-> <<"front_admin">>,
                front |-> <<"front">>]

\* A request on its way: the router that has it, what is left of its path, the
\* session its cookies carry as far as they were parsed, and the answer.
\* makeRequest has dropped the slash at the end of the path.
Normal(path) == IF path # <<>> /\ Last(path) = "" THEN Front(path) ELSE path

Depart(req) == [method |-> req.method, origin |-> req.origin,
                cookie |-> req.cookie, session |-> "none",
                router |-> "app", rest |-> Normal(req.path), file |-> <<>>,
                answer |-> "none"]

\* A leading slash is dropped: it leaves an empty part before it.
Strip(path) == IF path # <<>> /\ Head(path) = "" THEN Tail(path) ELSE path

\* url::decode.  A slash that was escaped parts the path like any other.
Decoded(path) ==
    FlattenSeq([i \in DOMAIN path |-> IF path[i] \in DOMAIN Escapes
                                      THEN Escapes[path[i]] ELSE <<path[i]>>])

\* The first of the places where a file is.
FirstFile(places) ==
    LET found == {i \in DOMAIN places : places[i] \in DOMAIN Contents}
    IN  IF found = {} THEN <<>>
        ELSE places[CHOOSE i \in found : \A j \in found : i <= j]

\* getAvailableFile of what joinPath gives: the file itself or the index page of a
\* directory.  A path with a leading slash takes the place of dir, and neither it
\* nor ".." is kept below STATIC_ROOT.
Available(dir, path) ==
    LET in == Decoded(path)
        from == IF Len(in) > 1 /\ Head(in) = "" THEN <<>> ELSE Append(Root, dir)
    IN  FirstFile(<<Walk(from, in), Walk(from, Append(in, "index.htm")),
                    Walk(from, Append(in, "index.html"))>>)

Answer(r, answer) == [r EXCEPT !.answer = answer]

Cors(r) == IF r.origin = "foreign" THEN Answer(r, "forbidden") ELSE r

\* A cookie without "=" has no element after it.  Reading there ends the process
\* when the cookies are "broken"; otherwise they are as if its value were what lay
\* there.
CookieParser(r) == IF r.cookie = "broken" THEN Answer(r, "terminated")
                   ELSE [r EXCEPT !.session = r.cookie]

\* 401 without a live session, 403 for a user who is no admin.  Wire has the
\* statements that raise.
AdminMiddleware(r) == IF r.session = "admin" THEN r ELSE Answer(r, "refused")

\* Only GET is served.
StaticServe(dir, r) ==
    LET file == Available(dir, r.rest)
    IN  IF r.method = "GET" /\ file # <<>>
        THEN [r EXCEPT !.answer = "file", !.file = file]
        ELSE r

Use(middleware, r) ==
    CASE middleware = "Cors" -> Cors(r)
      [] middleware = "CookieParser" -> CookieParser(r)
      [] middleware = "AdminMiddleware" -> AdminMiddleware(r)
      [] OTHER -> StaticServe(middleware, r)

\* handleMiddlewares: in order, until one of them answers.
HandleMiddlewares(r) ==
    LET chain == Middlewares[r.router]
        after[i \in 0 .. Len(chain)] ==
            IF i = 0 THEN r
            ELSE IF after[i - 1].answer # "none" THEN after[i - 1]
            ELSE Use(chain[i], after[i - 1])
    IN  after[Len(chain)]

\* The handler for the rest of the path, or the router that is mounted there.  HEAD
\* has no map and raises.  No router has a paramRouter.
Dispatch(r) ==
    LET path == Strip(r.rest)
        handlers == {t \in Table : t[1] = r.router /\ t[2] = r.method /\ t[3] = path}
        below == {m \in Mounts : m[1] = r.router /\ path # <<>> /\ Head(path) = m[2]}
    IN  IF r.answer # "none" THEN r
        ELSE IF r.method = "HEAD" THEN Answer(r, "raised")
        ELSE IF handlers # {} THEN Answer(r, (CHOOSE t \in handlers : TRUE)[4])
        ELSE IF below # {} THEN [r EXCEPT !.router = (CHOOSE m \in below : TRUE)[3],
                                          !.rest = Tail(path)]
        ELSE Answer(r, "missing")

\* The middlewares of the admin router are not run.
HandleRequestBug(r) ==
    Dispatch(IF r.router = "admin" THEN r ELSE HandleMiddlewares(r))

\* handleRequest of one router.
HandleRequest(r) == Dispatch(HandleMiddlewares(r))

-----------------------------------------------------------------------------
(* What the program promises of a request, without routers in routers.     *)

Prefix == [api |-> <<"api">>, admin |-> <<"api", "admin">>, app |-> <<>>,
           front |-> <<"front">>, adminStatic |-> <<"admin">>]

\* The routes whose whole path is the request's.
Registered(req) ==
    {t \in Table : t[2] = req.method /\ Prefix[t[1]] \o t[3] = Normal(req.path)}

\* The file a GET is answered with: the root shows front, then the prefixes.
Page(req) ==
    LET path == Normal(req.path)
        at(router, dir) ==
          IF IsPrefix(Prefix[router], path)
          THEN Available(dir, SubSeq(path, Len(Prefix[router]) + 1, Len(path)))
          ELSE <<>>
        pages == <<at("app", "front"), at("adminStatic", "front_admin"),
                   at("front", "front")>>
        found == {i \in DOMAIN pages : pages[i] # <<>>}
    IN  IF req.method # "GET" \/ found = {} THEN <<>>
        ELSE pages[CHOOSE i \in found : \A j \in found : i <= j]

Expected(req) ==
    CASE req.origin = "foreign" -> "forbidden"
      [] req.origin # "foreign" /\ req.cookie = "broken" -> "terminated"
      [] req.origin # "foreign" /\ req.cookie # "broken" /\ req.method = "HEAD" ->
           "raised"
      [] req.origin # "foreign" /\ req.cookie # "broken" /\ Page(req) # <<>> -> "file"
      [] OTHER ->
           IF IsPrefix(Prefix["admin"], Normal(req.path)) /\ req.cookie # "admin"
           THEN "refused"
           ELSE IF Registered(req) = {} THEN "missing"
           ELSE (CHOOSE t \in Registered(req) : TRUE)[4]
=============================================================================
