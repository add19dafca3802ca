------------------------------- MODULE MCWire --------------------------------
EXTENDS Wire, TLC

MCRoot == <<"srv">>
In(path) == MCRoot \o path

\* One file lies outside of the directories that are served.
MCContents == (In(<<"front", "index.html">>) :> <<0, 1, 0>>) @@
              (In(<<"front", "js", "a">>) :> <<1>>) @@
              (In(<<"front_admin", "index.html">>) :> <<1, 1>>) @@
              (In(<<"front_admin", "empty">>) :> <<>>) @@
              (In(<<"notes">>) :> <<0>>)
MCFolders == {<<>>, MCRoot, In(<<"front">>), In(<<"front", "js">>),
              In(<<"front", "old">>), In(<<"front_admin">>)}

MCEscapes == ("%6As" :> <<"js">>) @@ ("js%2Fa" :> <<"js", "a">>)
               @@ ("%2Fsrv%2Fnotes" :> <<"", "srv", "notes">>)

MCLeftovers == {<<>>, <<"rest">>}

MCExtra == {<<"api", "GET", <<"download">>, "sendFiles">>}

ASSUME NothingHidden(Extra)

NoRange == [first |-> None, last |-> None]

Get(path) == [method |-> "GET", path |-> path, origin |-> "own",
              cookie |-> "none", type |-> "other", body |-> <<>>,
              range |-> NoRange, paths |-> {}]
NoRequest == [Get(<<>>) EXCEPT !.method = "none"]

Alone(requests) == {[w \in Workers |-> IF w = 1 THEN r ELSE NoRequest] : r \in requests}

\* Texts without neighbouring runs of one kind.
Lexemes == {"{", "}", "[", "]", ",", ":", "\"", "\\", " ", "int"}
Texts == {t \in SeqOf(Lexemes, 4) :
             \A i \in 1 .. Len(t) - 1 : t[i] = t[i + 1] => t[i] \notin {"int", " "}}
         \cup {<<"[", "huge", "]">>, <<"tx">>, <<"[", "double", ",", "null", "true", "]">>}

Leaves == {[lex |-> "int"], [str |-> <<>>], [str |-> <<"\\", "\"">>],
           [str |-> <<"\\", "\\">>]}
Keys == {<<"name">>, <<"stock">>}
Values == {Array(s) : s \in SeqOf(Leaves, 2)}
            \cup UNION {{Map(f) : f \in [ks -> Leaves]} : ks \in SUBSET Keys}
            \cup {Array(<<Map([k \in Keys |-> Array(<<l>>)])>>) : l \in Leaves}

\* A client writes the escapes of its strings itself.
Named(name) == <<"{", "\"", "name", "\"", ":", "\"">> \o name \o <<"\"", "}">>
Escaped == {Named(n) : n \in {<<"\\", "\"">>, <<"\\", "\\">>,
                              <<"\\", "\\", "\\", "\"", "int">>}}

Written == {Dumps(v) : v \in Values} \cup Escaped
Damaged == UNION {{RemoveAt(t, i) : i \in DOMAIN t} :
                    t \in {Dumps(Map([k \in {<<"name">>} |-> l])) : l \in Leaves}}

Body(method, list, type, text) ==
    [Get(<<"api", "admin", list>>) EXCEPT
        !.method = method, !.cookie = "admin", !.type = type, !.body = text]

\* Forms with one name, with two, and without one.
Names == {<<"int">>, <<"%22">>, <<"a", "+">>, <<>>}
Encoded == {<<"name", "=">> \o n : n \in Names}
             \cup {<<"name", "=", "a", "&", "active", "=", "%5C", "=">>,
                   <<"name", "=", "a", "&", "name", "=", "b">>, <<"name">>, <<>>}
Part(name, text) == <<"boundary", "line", "cd", name, "\"", "blank">> \o text \o <<"end">>
Multipart == {Part("name", n) \o <<"boundary">> : n \in {<<"a", " ", "b">>, <<"\"">>}}
               \cup {Part("name", <<"a">>) \o Part("price", <<"int">>) \o <<"boundary">>}

Paths == {Prefix[t[1]] \o t[3] : t \in Table}
           \cup {<<"">>, <<"js", "a">>, <<"front", "">>, <<"front", "js", "a">>,
                 <<"admin">>, <<"admin", "empty">>, <<"api">>, <<"api", "admin", "">>,
                 <<"api", "", "products">>, <<"", "api", "admin", "", "users">>,
                 <<"api", "admins">>, <<"api", "admin", "", "", "users">>,
                 <<"%6As", "a">>, <<"front", "js%2Fa">>, <<"%2Fsrv%2Fnotes">>,
                 <<"..", "notes">>, <<"front", "old", "..", ".", "js", "a">>,
                 <<"front", "js", "a", "..", "a">>, <<"", "srv", "notes">>}

Routed == {[Get(p) EXCEPT !.method = m, !.origin = o, !.cookie = c] :
              p \in Paths, m \in {"GET", "POST", "PUT", "DELETE", "OPTIONS", "HEAD"},
              o \in {"own", "foreign"}, c \in {"none", "user", "admin", "broken"}}

Ranges == [first : {None, 0, 1, 3}, last : {None, 0, 2, 3}]
Ranged == {[Get(p) EXCEPT !.range = r] :
              p \in {<<"">>, <<"admin", "empty">>}, r \in Ranges}

Downloads == {[Get(<<"api", "download">>) EXCEPT !.paths = {In(p) : p \in ps}] :
                 ps \in SUBSET {<<"front">>, <<"front_admin">>, <<"front", "js", "a">>,
                                <<"front_admin", "index.html">>, <<"front", "old">>,
                                <<"none">>}}

MCWorkloads == Alone({Body("POST", "resources", "json", t) :
                           t \in Texts \cup Written \cup Damaged}
                        \cup {Body("PUT", "products", "json", t) : t \in Written}
                        \cup {Body("POST", "resources", "form", t) : t \in Encoded}
                        \cup {Body("PUT", "resources", "form", t) : t \in Encoded}
                        \cup {Body("PUT", "products", "multipart", t) : t \in Multipart}
                        \cup {Body("POST", "resources", "text", t) : t \in Encoded})
                 \cup Alone(Routed \cup Ranged \cup Downloads)
                 \cup [Workers -> {Get(<<"">>), Get(<<"js", "a">>)}]
=============================================================================
