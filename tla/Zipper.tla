------------------------------- MODULE Zipper --------------------------------
(***************************************************************************)
(* zippuccino::Zipper: the entries of a zip archive, written one by one,   *)
(* and the directory after them that says where each of them starts.       *)
(* A path and a name in the archive are sequences of one-letter parts.     *)
(***************************************************************************)
EXTENDS Files, Integers, SequencesExt

CONSTANTS
    Wide,   \* one more than the largest uint32_t, scaled down
    Many    \* one more than the largest uint16_t, scaled down

ASSUME ZipperAssumption == Wide \in Nat \ {0} /\ Many \in Nat \ {0}

\* The letters and the slashes between them.
NameSize(name) == 2 * Len(name) - 1

\* add: a file under its base name, a directory as all files below it.  paths
\* maps names to files: a later path replaces an earlier one of the same name.
Add(paths, path) ==
    LET name(f) == <<Last(path)>> \o SubSeq(f, Len(path) + 1, Len(f))
        added == {f \in DOMAIN Contents : IsPrefix(path, f)}
    IN  [n \in DOMAIN paths \cup {name(f) : f \in added} |->
            IF \E f \in added : name(f) = n
            THEN CHOOSE f \in added : name(f) = n
            ELSE paths[n]]

\* zip puts the iterator at the first name.  infos and offset are what the
\* directory will say.
Started(paths) == [paths |-> paths, todo |-> SetToSeq(DOMAIN paths),
                   infos |-> <<>>, offset |-> 0]

IsFinished(z) == z.todo = <<>>

\* Two bytes of the header are forgotten.
GetHeaderBug(z) ==
    LET name == Head(z.todo)
        size == Size(z.paths[name]) % Wide
    IN  [z EXCEPT !.infos = Append(@, [name |-> name, size |-> size,
                                       offset |-> z.offset]),
                  !.offset = (@ + 28 + NameSize(name) + size) % Wide]

\* getHeader notes where this entry starts, and where the next one will.
GetHeader(z) ==
    LET name == Head(z.todo)
        size == Size(z.paths[name]) % Wide
    IN  [z EXCEPT !.infos = Append(@, [name |-> name, size |-> size,
                                       offset |-> z.offset]),
                  !.offset = (@ + 30 + NameSize(name) + size) % Wide]

HeaderSize(z) == 30 + NameSize(Head(z.todo))

\* getCurrentFile returns the file and moves the iterator.
CurrentFile(z) == z.paths[Head(z.todo)]
NextFile(z) == [z EXCEPT !.todo = Tail(@)]

\* A size that grows by the given sizes.
Total(sizes) ==
    LET upTo[n \in Nat] == IF n = 0 THEN 0 ELSE upTo[n - 1] + sizes[n]
    IN  upTo[Len(sizes)]

\* The number of entries in the end record has 16 bits.
Count(z) == Len(z.infos) % Many

\* getFooter: a record for every entry, and the end record.
FooterSize(z) ==
    22 + Total([i \in DOMAIN z.infos |-> 46 + NameSize(z.infos[i].name)])

\* getSize, known before anything is written.
GetSize(paths) ==
    LET names == SetToSeq(DOMAIN paths)
    IN  22 + Total([i \in DOMAIN names |->
                      76 + 2 * NameSize(names[i]) + Size(paths[names[i]])])
=============================================================================
