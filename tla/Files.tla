-------------------------------- MODULE Files --------------------------------
(***************************************************************************)
(* The file system as the server sees it.  A path is the sequence of its   *)
(* parts from the root of the file system on, the directories first, and   *)
(* links are followed already; nothing changes while the server runs.      *)
(***************************************************************************)
EXTENDS Sequences, FiniteSets, SequencesExt

CONSTANTS
    Bytes,      \* values of a byte
    Contents,   \* the bytes of every file, by its path
    Folders     \* the paths of the directories

ASSUME FilesAssumption ==
    /\ IsFiniteSet(DOMAIN Contents)
    /\ \A file \in DOMAIN Contents : /\ file \in Seq(STRING)
                                     /\ Contents[file] \in Seq(Bytes)
    /\ <<>> \in Folders
    /\ Folders \cap DOMAIN Contents = {}
    /\ \A path \in Folders \cup DOMAIN Contents :
          /\ Range(path) \cap {"", ".", ".."} = {}
          /\ path # <<>> => Front(path) \in Folders

Size(file) == Len(Contents[file])

\* Where a part of a path leads from a place, and a place that is none.
Nowhere == <<"">>

Follow(place, part) ==
    CASE place \notin Folders -> Nowhere
      [] place \in Folders /\ part \in {"", "."} -> place
      [] place \in Folders /\ part = ".." ->
           IF place = <<>> THEN place ELSE Front(place)
      [] OTHER -> Append(place, part)

Walk(from, parts) ==
    LET at[i \in 0 .. Len(parts)] ==
          IF i = 0 THEN from ELSE Follow(at[i - 1], parts[i])
    IN  at[Len(parts)]
=============================================================================
