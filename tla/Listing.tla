------------------------------- MODULE Listing -------------------------------
(***************************************************************************)
(* The directory view of DatabaseManager.list_files_in_dir (db.py): the    *)
(* files table is flat, and directories are made up from the names.        *)
(*                                                                         *)
(* A path is the sequence of its components, with a "/" before those of an *)
(* absolute one: <<"/", "d", "a">> is /d/a and <<"d", "a">> is d/a.  A     *)
(* directory is written alike; <<"/">> is the root.                        *)
(* Rows of the table are records with an id and a path.                    *)
(***************************************************************************)
EXTENDS Integers, Sequences, FiniteSets

Root == <<"/">>
IsAbsolute(path) == path[1] = "/"

\* Everything is below the root; otherwise path.startswith(prefix), the prefix
\* ending with a slash: two spellings of a directory are two directories.
Below(dir, path) ==
  dir = Root \/ (Len(dir) < Len(path) /\ SubSeq(path, 1, Len(dir)) = dir)

\* parts: what is left of the path, without the slashes around it.
Parts(dir, path) ==
  IF dir = Root /\ ~ IsAbsolute(path) THEN path
  ELSE SubSeq(path, Len(dir) + 1, Len(path))

NameIn(dir, path)   == Parts(dir, path)[1]
IsDeeper(dir, path) == Len(Parts(dir, path)) > 1

Entry(dir, row) == [filename |-> NameIn(dir, row.path),
                    is_dir   |-> IsDeeper(dir, row.path)]

\* Mutant of Turn: the names already listed are not remembered.
TurnUnseen(rows, dir, results, id) ==
  LET new == {f \in rows : f.id = id /\ Below(dir, f.path)}
  IN  IF new = {} THEN results
      ELSE Append(results, Entry(dir, CHOOSE f \in new : TRUE))

\* One turn of the loop, for the row with this id if there is one: the first
\* row of a name decides about its entry.
Turn(rows, dir, results, id) ==
  LET new == {f \in rows : /\ f.id = id /\ Below(dir, f.path)
                           /\ \A i \in DOMAIN results :
                                results[i].filename # NameIn(dir, f.path)}
  IN  IF new = {} THEN results
      ELSE Append(results, Entry(dir, CHOOSE f \in new : TRUE))

\* The loop over all rows.  SELECT without ORDER BY on a table with an integer
\* key gives them in the order of their ids, which start with 1.
LastRow(rows) ==
  CHOOSE n \in {0} \cup {f.id : f \in rows} : \A f \in rows : f.id <= n

ListFilesInDir(rows, dir) ==
  LET results[id \in 0..LastRow(rows)] ==
        IF id = 0 THEN <<>> ELSE Turn(rows, dir, results[id - 1], id)
  IN  results[LastRow(rows)]

\* What a listing is: one entry for each name in the directory, a directory
\* exactly if the oldest row of that name lies deeper.
IsListing(results, rows, dir) ==
  LET in     == {f \in rows : Below(dir, f.path)}
      names  == {NameIn(dir, f.path) : f \in in}
      Oldest(n) == CHOOSE f \in in :
                     /\ NameIn(dir, f.path) = n
                     /\ \A g \in in : NameIn(dir, g.path) = n => f.id <= g.id
  IN  /\ Len(results) = Cardinality(names)
      /\ {results[i] : i \in DOMAIN results} = {Entry(dir, Oldest(n)) : n \in names}

=============================================================================
